------------------------------ MODULE WireProofs ------------------------------
(***************************************************************************)
(* Proofs about Wire and the driver Twi under it, for buffers of any       *)
(* length up to 255, any messages and any faults of the bus.               *)
(*                                                                         *)
(* The first part holds whether or not other masters share the bus; the    *)
(* second, that a call reports what happened, needs a bus of one master;   *)
(* the third is about the driver by itself, whose calls may be refused.    *)
(***************************************************************************)
EXTENDS Wire, SequenceTheorems, TLAPS

(* The sketch asks for at least one byte: a driver asked for none takes    *)
(* the length minus one, 255, and stores past its buffer.                  *)
AsksForBytes == 0 \notin ReadLengths

-----------------------------------------------------------------------------
(* What the driver may do, seen from below the object: every step of Wire  *)
(* is one of these.                                                        *)

TwiAction ==
  \/ twi_init \/ twi_disable
  \/ \E stop \in BOOLEAN :
       \/ \E length \in 1 .. BufLen : twi_readFrom(length, stop)
       \/ \E data \in Seq(Byte) : Len(data) <= BufLen /\ twi_writeTo(data, stop)
  \/ PlainSteps \/ CopyByte \/ Return
  \/ \E data \in Seq(Byte) : Setup(data)
  \/ PlainHandlers \/ IsrSlaveStop
  \/ \E reply \in Seq(Byte) : IsrSlaveRequested(reply)
  \/ Bus
  \/ UNCHANGED vars

(* Where the bus stands while a status is pending, and when the handler is *)
(* shut out: only after a repeated START, or before begin().               *)
BusInv ==
  /\ status = "START" => phase = "addr"
  /\ status \in { "MT_SLA_ACK", "MT_DATA_ACK", "MT_DATA_NACK" } => phase = "mt"
  /\ status \in { "MT_SLA_NACK", "MR_SLA_NACK" } => phase = "addr"
  /\ status \in { "MR_SLA_ACK", "MR_DATA_ACK", "MR_DATA_NACK" } => phase = "mr"
  /\ status \in { "SR_SLA_ACK", "SR_DATA_ACK" } => phase = "sr"
  /\ status \in { "ST_SLA_ACK", "ST_DATA_ACK" } => phase = "st"
  /\ status \in { "ARB_LOST", "SR_DATA_NACK", "SR_STOP", "ST_DATA_NACK",
                  "ST_LAST_DATA" } => phase = "none"
  /\ status = "BUS_ERROR" => phase \in MasterPhase \cup { "sr", "st" }
  /\ phase = "off" => status = None
  /\ ~twie => \/ phase \in { "off", "rep" }
              \/ phase = "addr" /\ status = "START"

(* The data register holds a byte, not an address, whenever it is used as  *)
(* one.                                                                    *)
TwdrInv ==
  /\ status \in { "MR_DATA_ACK", "MR_DATA_NACK", "SR_DATA_ACK" } => twdr \in Byte
  /\ (phase = "mt" /\ status = None) => twdr \in Byte

(* The call the sketch is in fits the buffers. *)
InCall == pc \in { "wait", "claim", "setup", "start", "rep", "poll", "result", "copy" }

CallInv ==
  /\ InCall => /\ call.kind \in { "R", "W" }
               /\ call.len <= BufLen
               /\ call.kind = "R" => call.len >= 1
               /\ call.kind = "W" => call.len = Len(call.data)
  /\ pc = "copy" => call.kind = "R" /\ n <= call.len /\ Len(got) <= n
  /\ (pc = "ret" /\ call.kind = "R") => ret <= BufLen
  /\ pc \notin { "copy", "ret" } => got = << >>
  /\ mLen <= BufLen

TwiInv == TypeOK /\ BusInv /\ TwdrInv /\ CallInv

LEMMA TwiInit == Init => TwiInv
<1>. SUFFICES ASSUME Init PROVE TwiInv
  OBVIOUS
<1>. USE TwiAssumption DEF Init
<1>1. << >> \in Seq(Byte) /\ << >> \in Seq(Byte \cup { "R", "W" }) /\ Len(<< >>) = 0
  OBVIOUS
<1>2. mBuf \in [0 .. BufLen - 1 -> Byte]
  OBVIOUS
<1>3. call \in [kind : { "none", "R", "W" }, data : Seq(Byte), len : Nat, stop : BOOLEAN]
  BY <1>1 DEF NoCall
<1>4. TypeOK
  <2>1. /\ mBuf \in [0 .. BufLen - 1 -> Byte] /\ mIdx \in 0 .. 255 /\ mLen \in 0 .. 255
        /\ txBuf \in Seq(Byte) /\ Len(txBuf) <= BufLen /\ txIdx \in Nat
        /\ rxBuf \in Seq(Byte) /\ Len(rxBuf) <= BufLen
        /\ got \in Seq(Byte) /\ dialog \in Seq(Byte) /\ heard \in Seq(Byte)
        /\ spoken \in Seq(Byte \cup { "R", "W" })
    BY <1>1, <1>2
  <2>. QED BY <2>1, <1>3 DEF TypeOK, MasterPhase
<1>5. BusInv /\ TwdrInv
  BY DEF BusInv, TwdrInv, Status
<1>6. CallInv
  BY DEF CallInv, InCall
<1>. QED BY <1>4, <1>5, <1>6 DEF TwiInv

(* The steps of the bus. *)
LEMMA BusStep ==
  ASSUME TwiInv, Bus
  PROVE  BusInv' /\ TwdrInv'
<1>. USE TwiAssumption DEF TwiInv, BusInv, TwdrInv, MasterPhase, Status, Raise, twcr
<1>1. CASE StartSent
  BY <1>1 DEF StartSent
<1>2. CASE AddressSent
  BY <1>2 DEF AddressSent
<1>3. CASE DataSent
  BY <1>3 DEF DataSent
<1>4. CASE Addressed
  BY <1>4 DEF Addressed
<1>5. CASE ForeignStops
  BY <1>5 DEF ForeignStops
<1>6. CASE BusError
  BY <1>6 DEF BusError
<1>7. CASE \E b \in Answers : DataReceived(b)
  BY <1>7 DEF DataReceived
<1>8. CASE \E b \in Foreign : ForeignWrites(b)
  BY <1>8 DEF ForeignWrites
<1>9. CASE \E ack \in BOOLEAN : ForeignReads(ack)
  BY <1>9 DEF ForeignReads
<1>. QED BY <1>1, <1>2, <1>3, <1>4, <1>5, <1>6, <1>7, <1>8, <1>9 DEF Bus

(* The steps of the handler. *)
LEMMA HandlerStep ==
  ASSUME TwiInv, PlainHandlers \/ IsrSlaveStop \/ \E reply \in Seq(Byte) : IsrSlaveRequested(reply)
  PROVE  BusInv' /\ TwdrInv'
<1>. USE TwiAssumption DEF TwiInv, BusInv, TwdrInv, MasterPhase, Status, Isr,
         SetTwcr, twi_reply, twi_stop, twi_releaseBus, Finish
<1>1. CASE IsrStart
  BY <1>1 DEF IsrStart
<1>2. CASE IsrMasterSends
  <2>1. mIdx < mLen => mBuf[mIdx] \in Byte
    BY DEF TypeOK, CallInv
  <2>. QED BY <1>2, <2>1 DEF IsrMasterSends
<1>3. CASE IsrRefused \/ IsrArbitrationLost
  BY <1>3 DEF IsrRefused, IsrArbitrationLost
<1>4. CASE IsrMasterReceives \/ IsrMasterReceivesLast \/ IsrMasterReadRefused
  BY <1>4 DEF IsrMasterReceives, IsrMasterReceivesLast, IsrMasterReadRefused
<1>5. CASE IsrSlaveAddressed \/ IsrSlaveReceives \/ IsrSlaveRefuses \/ IsrSlaveStop
  BY <1>5 DEF IsrSlaveAddressed, IsrSlaveReceives, IsrSlaveRefuses, IsrSlaveStop
<1>6. CASE IsrSlaveSends \/ IsrSlaveSentAll
  BY <1>6 DEF IsrSlaveSends, IsrSlaveSentAll, LoadNext
<1>7. CASE \E reply \in Seq(Byte) : IsrSlaveRequested(reply)
  BY <1>7 DEF IsrSlaveRequested, LoadNext
<1>. QED BY <1>1, <1>2, <1>3, <1>4, <1>5, <1>6, <1>7 DEF PlainHandlers

(* The steps of the sketch. *)
SketchAction ==
  \/ twi_init \/ twi_disable
  \/ \E stop \in BOOLEAN :
       \/ \E length \in 1 .. BufLen : twi_readFrom(length, stop)
       \/ \E data \in Seq(Byte) : Len(data) <= BufLen /\ twi_writeTo(data, stop)
  \/ PlainSteps \/ CopyByte \/ Return
  \/ \E data \in Seq(Byte) : Setup(data)

LEMMA SketchStep ==
  ASSUME TwiInv, SketchAction
  PROVE  BusInv' /\ TwdrInv'
<1>. USE TwiAssumption DEF TwiInv, BusInv, TwdrInv, MasterPhase, Status, Main,
         SetTwcr, hardware, twcr
<1>1. CASE twi_init \/ twi_disable
  BY <1>1 DEF twi_init, twi_disable
<1>2. CASE Wait \/ Claim \/ Poll \/ Result \/ Copied
  BY <1>2 DEF Wait, Claim, Poll, Result, Copied
<1>3. CASE Start
  BY <1>3 DEF Start
<1>4. CASE RepeatedStart
  BY <1>4 DEF RepeatedStart
<1>5. CASE CopyByte \/ Return
  BY <1>5 DEF CopyByte, Return
<1>6. CASE \E data \in Seq(Byte) : Setup(data)
  BY <1>6 DEF Setup
<1>7. ASSUME NEW stop \in BOOLEAN, NEW length \in 1 .. BufLen, twi_readFrom(length, stop)
      PROVE  BusInv' /\ TwdrInv'
  BY <1>7 DEF twi_readFrom, Call
<1>8. ASSUME NEW stop \in BOOLEAN, NEW data \in Seq(Byte), twi_writeTo(data, stop)
      PROVE  BusInv' /\ TwdrInv'
  BY <1>8 DEF twi_writeTo, Call
<1>. QED BY <1>1, <1>2, <1>3, <1>4, <1>5, <1>6, <1>7, <1>8 DEF SketchAction, PlainSteps

LEMMA CallFields ==
  ASSUME TypeOK
  PROVE  /\ call.kind \in { "none", "R", "W" } /\ call.data \in Seq(Byte)
         /\ call.len \in Nat /\ call.stop \in BOOLEAN
  BY DEF TypeOK

(* The arguments the sketch passes are of a call's type. *)
LEMMA CallTypes ==
  ASSUME TypeOK, NEW stop \in BOOLEAN
  PROVE  /\ \A length \in 1 .. BufLen :
              ReadCall(length, stop) \in
                [kind : { "none", "R", "W" }, data : Seq(Byte), len : Nat, stop : BOOLEAN]
         /\ \A data \in Seq(Byte) :
              WriteCall(data, stop) \in
                [kind : { "none", "R", "W" }, data : Seq(Byte), len : Nat, stop : BOOLEAN]
  BY DEF ReadCall, WriteCall

(* One message of a slave's reply, as the driver keeps it. *)
LEMMA ReplyFits ==
  ASSUME NEW reply \in Seq(Byte)
  PROVE  Reply(reply) \in Seq(Byte) /\ Len(Reply(reply)) <= BufLen
<1>1. << Zero >> \in Seq(Byte) /\ Len(<< Zero >>) = 1 /\ 1 <= BufLen
  BY TwiAssumption
<1>2. CASE reply = << >> \/ Len(reply) > BufLen
  BY <1>1, <1>2 DEF Reply
<1>3. CASE ~(reply = << >> \/ Len(reply) > BufLen)
  <2>1. Reply(reply) = reply
    BY <1>3 DEF Reply
  <2>2. Len(reply) \in Nat /\ BufLen \in Nat
    BY TwiAssumption
  <2>. QED BY <1>3, <2>1, <2>2
<1>. QED BY <1>2, <1>3

(* The length the handler counts to. *)
LEMMA LengthFits ==
  ASSUME TwiInv, pc = "setup"
  PROVE  /\ LengthOf(call) \in 0 .. BufLen
         /\ LengthOf(call) = IF call.kind = "R" THEN call.len - 1 ELSE call.len
<1>1. /\ call.len \in Nat /\ call.len <= BufLen /\ BufLen \in 1 .. 255
      /\ call.kind = "R" => call.len >= 1
  BY TwiAssumption DEF TwiInv, TypeOK, CallInv, InCall
<1>2. CASE call.kind = "R"
  <2>1. (call.len - 1) % 256 = call.len - 1
    BY <1>1, <1>2
  <2>. QED BY <1>1, <1>2, <2>1 DEF LengthOf
<1>3. CASE call.kind # "R"
  BY <1>1, <1>3 DEF LengthOf
<1>. QED BY <1>2, <1>3

LEMMA CallStep ==
  ASSUME TwiInv, TwiAction
  PROVE  CallInv'
<1>. USE TwiAssumption DEF TwiInv, CallInv, InCall, Main
<1>1. CASE twi_init \/ twi_disable
  BY <1>1 DEF twi_init, twi_disable, sketch, driver
<1>2. ASSUME NEW stop \in BOOLEAN, NEW length \in 1 .. BufLen, twi_readFrom(length, stop)
      PROVE  CallInv'
  BY <1>2 DEF twi_readFrom, Call, ReadCall, driver
<1>3. ASSUME NEW stop \in BOOLEAN, NEW data \in Seq(Byte), Len(data) <= BufLen,
             twi_writeTo(data, stop)
      PROVE  CallInv'
  BY <1>3 DEF twi_writeTo, Call, WriteCall, driver
<1>4. CASE Wait \/ Claim \/ Start \/ RepeatedStart \/ Poll
  BY <1>4 DEF Wait, Claim, Start, RepeatedStart, Poll, driver, SetTwcr
<1>5. CASE Result
  <2>1. CASE call.kind = "W"
    BY <1>5, <2>1 DEF Result, driver
  <2>2. CASE call.kind = "R"
    <3>1. pc' = "copy" /\ UNCHANGED << call, got, mLen >> /\ got = << >>
      BY <1>5, <2>2 DEF Result, driver
    <3>2. n' = IF mIdx < call.len THEN mIdx ELSE call.len
      BY <1>5, <2>2 DEF Result
    <3>3. mIdx \in Nat /\ call.len \in Nat
      BY CallFields DEF TypeOK
    <3>4. n' <= call.len /\ Len(got') <= n'
      <4>1. n' <= call.len /\ 0 <= n'
        BY <3>2, <3>3
      <4>. QED BY <3>1, <4>1
    <3>5. call.len <= BufLen /\ call.len >= 1 /\ mLen <= BufLen
      BY <1>5, <2>2 DEF Result
    <3>. HIDE DEF TwiInv
    <3>. QED BY <2>2, <3>1, <3>4, <3>5
  <2>. QED BY <1>5, <2>1, <2>2 DEF Result
<1>6. CASE Copied
  BY <1>6 DEF Copied, driver, TypeOK
<1>7. CASE CopyByte
  <2>1. got' \in Seq(Byte) \/ Len(got') = Len(got) + 1
    BY <1>7 DEF CopyByte, TypeOK
  <2>2. Len(got') <= n
    BY <1>7 DEF CopyByte, TypeOK
  <2>. QED BY <1>7, <2>2 DEF CopyByte, driver
<1>8. CASE Return
  BY <1>8 DEF Return, driver, NoCall
<1>9. ASSUME NEW data \in Seq(Byte), Setup(data) PROVE CallInv'
  <2>1. mLen' <= BufLen
    BY <1>9, LengthFits DEF Setup, TwiInv
  <2>. QED BY <1>9, <2>1 DEF Setup
<1>10. CASE PlainHandlers
  <2>1. UNCHANGED << sketch, mLen >>
    BY <1>10 DEF PlainHandlers, IsrStart, IsrMasterSends, IsrRefused,
       IsrArbitrationLost, IsrMasterReceives, IsrMasterReceivesLast,
       IsrMasterReadRefused, IsrSlaveAddressed, IsrSlaveReceives,
       IsrSlaveRefuses, IsrSlaveSends, IsrSlaveSentAll, driver
  <2>. QED BY <2>1 DEF sketch
<1>11. CASE IsrSlaveStop \/ \E reply \in Seq(Byte) : IsrSlaveRequested(reply)
  BY <1>11 DEF IsrSlaveStop, IsrSlaveRequested, sketch, driver
<1>12. CASE Bus
  BY <1>12 DEF Bus, StartSent, AddressSent, DataSent, Addressed, ForeignStops,
       BusError, DataReceived, ForeignWrites, ForeignReads, sketch, driver
<1>13. CASE UNCHANGED vars
  BY <1>13 DEF vars, sketch, driver
<1>. QED
  BY <1>1, <1>2, <1>3, <1>4, <1>5, <1>6, <1>7, <1>8, <1>9, <1>10, <1>11, <1>12,
     <1>13 DEF TwiAction, PlainSteps

LEMMA NextIndex ==
  ASSUME NEW x \in 0 .. 255, NEW y \in 0 .. 255, x < y
  PROVE  x + 1 \in 0 .. 255
  OBVIOUS

LEMMA SmallerIndex ==
  ASSUME NEW x \in 0 .. 255, NEW y \in Nat, ~(x < y)
  PROVE  y \in 0 .. 255
  OBVIOUS

(* Types are kept.  Variables that a group of steps leaves alone are       *)
(* collected once.                                                         *)
LEMMA TypeStepBus ==
  ASSUME TwiInv, Bus
  PROVE  TypeOK'
<1>. USE TwiAssumption DEF TwiInv
<1>1. UNCHANGED << state, driver, slave, twcr, sketch >>
  BY DEF Bus, StartSent, AddressSent, DataSent, Addressed, ForeignStops,
     BusError, DataReceived, ForeignWrites, ForeignReads
<1>2. phase' \in MasterPhase \cup { "off", "none", "rep", "sr", "st" }
  BY DEF TypeOK, Bus, StartSent, AddressSent, DataSent, Addressed, ForeignStops,
     BusError, DataReceived, ForeignWrites, ForeignReads, Raise, MasterPhase
<1>3. status' \in Status
  BY DEF Bus, StartSent, AddressSent, DataSent, Addressed, ForeignStops,
     BusError, DataReceived, ForeignWrites, ForeignReads, Raise, Status
<1>4. twdr' \in Byte \cup { "R", "W" }
  BY DEF TypeOK, Bus, StartSent, AddressSent, DataSent, Addressed, ForeignStops,
     BusError, DataReceived, ForeignWrites, ForeignReads
<1>5. answered' \in BOOLEAN /\ heard' \in Seq(Byte)
      /\ dialog' \in Seq(Byte) /\ spoken' \in Seq(Byte \cup { "R", "W" })
  <2>1. CASE StartSent \/ Addressed \/ ForeignStops \/ BusError \/ AddressSent
    <3>1. dialog' = dialog /\ answered' \in {TRUE, answered}
      BY <2>1 DEF StartSent, Addressed, ForeignStops, BusError, AddressSent, asMaster
    <3>2. \/ heard' = heard /\ spoken' = spoken
          \/ heard' = << >> /\ spoken' = << >>
      BY <2>1 DEF StartSent, Addressed, ForeignStops, BusError, AddressSent, asSlave
    <3>3. << >> \in Seq(Byte) /\ << >> \in Seq(Byte \cup { "R", "W" })
      OBVIOUS
    <3>. QED BY ZenonT(40), <3>1, <3>2, <3>3 DEF TypeOK
  <2>2. CASE DataSent
    <3>1. twdr \in Byte
      BY <2>2 DEF DataSent, TwdrInv
    <3>2. Append(dialog, twdr) \in Seq(Byte)
      BY <3>1 DEF TypeOK
    <3>. QED BY <2>2, <3>2 DEF DataSent, TypeOK, asSlave
  <2>3. ASSUME NEW b \in Answers, DataReceived(b)
        PROVE  answered' \in BOOLEAN /\ heard' \in Seq(Byte)
               /\ dialog' \in Seq(Byte) /\ spoken' \in Seq(Byte \cup { "R", "W" })
    <3>1. Append(dialog, b) \in Seq(Byte)
      BY DEF TypeOK
    <3>. QED BY <2>3, <3>1 DEF DataReceived, TypeOK, asSlave
  <2>4. ASSUME NEW b \in Foreign, ForeignWrites(b)
        PROVE  answered' \in BOOLEAN /\ heard' \in Seq(Byte)
               /\ dialog' \in Seq(Byte) /\ spoken' \in Seq(Byte \cup { "R", "W" })
    <3>1. Append(heard, b) \in Seq(Byte)
      BY DEF TypeOK
    <3>. QED BY <2>4, <3>1 DEF ForeignWrites, TypeOK, asMaster
  <2>5. ASSUME NEW ack \in BOOLEAN, ForeignReads(ack)
        PROVE  answered' \in BOOLEAN /\ heard' \in Seq(Byte)
               /\ dialog' \in Seq(Byte) /\ spoken' \in Seq(Byte \cup { "R", "W" })
    <3>1. Append(spoken, twdr) \in Seq(Byte \cup { "R", "W" })
      BY DEF TypeOK
    <3>. QED BY <2>5, <3>1 DEF ForeignReads, TypeOK, asMaster
  <2>. QED BY <2>1, <2>2, <2>3, <2>4, <2>5 DEF Bus
<1>. QED BY <1>1, <1>2, <1>3, <1>4, <1>5
         DEF TypeOK, driver, slave, twcr, sketch

LEMMA TypeStepHandler ==
  ASSUME TwiInv, PlainHandlers \/ IsrSlaveStop \/ \E reply \in Seq(Byte) : IsrSlaveRequested(reply)
  PROVE  TypeOK'
<1>. USE TwiAssumption DEF TwiInv
<1>1. UNCHANGED << slarw, sendStop, mLen, sketch, asMaster, asSlave >>
  BY DEF PlainHandlers, IsrStart, IsrMasterSends, IsrRefused,
       IsrArbitrationLost, IsrMasterReceives, IsrMasterReceivesLast,
       IsrMasterReadRefused, IsrSlaveAddressed, IsrSlaveReceives,
       IsrSlaveRefuses, IsrSlaveSends, IsrSlaveSentAll, IsrSlaveStop,
       IsrSlaveRequested, driver
<1>2. /\ status' = None /\ twea' \in BOOLEAN /\ twie' \in BOOLEAN /\ twsta' \in BOOLEAN
      /\ phase' \in {phase, "none", "rep"}
  <2>. USE DEF Finish, twi_reply, twi_stop, twi_releaseBus, SetTwcr
  <2>0. /\ WantsMore(mIdx') \in BOOLEAN /\ HasRoom \in BOOLEAN
        /\ \A x, y : (x < y) \in BOOLEAN
    BY DEF WantsMore, HasRoom
  <2>1. CASE IsrStart \/ IsrMasterSends \/ IsrRefused \/ IsrArbitrationLost
    BY <2>1 DEF IsrStart, IsrMasterSends, IsrRefused, IsrArbitrationLost
  <2>2. CASE IsrMasterReceives \/ IsrMasterReceivesLast \/ IsrMasterReadRefused
    BY <2>0, <2>2 DEF IsrMasterReceives, IsrMasterReceivesLast, IsrMasterReadRefused
  <2>3. CASE IsrSlaveAddressed \/ IsrSlaveReceives \/ IsrSlaveRefuses \/ IsrSlaveStop
    BY <2>0, <2>3 DEF IsrSlaveAddressed, IsrSlaveReceives, IsrSlaveRefuses, IsrSlaveStop
  <2>4. CASE IsrSlaveSends \/ IsrSlaveSentAll
             \/ \E reply \in Seq(Byte) : IsrSlaveRequested(reply)
    BY <2>0, <2>4 DEF IsrSlaveSends, IsrSlaveSentAll, IsrSlaveRequested, LoadNext
  <2>. QED BY <2>1, <2>2, <2>3, <2>4 DEF PlainHandlers
<1>3. /\ state' \in { "READY", "MRX", "MTX", "SRX", "STX" }
      /\ inRepStart' \in BOOLEAN /\ error' \in Status \cup {None}
  BY DEF PlainHandlers, IsrStart, IsrMasterSends, IsrRefused,
       IsrArbitrationLost, IsrMasterReceives, IsrMasterReceivesLast,
       IsrMasterReadRefused, IsrSlaveAddressed, IsrSlaveReceives,
       IsrSlaveRefuses, IsrSlaveSends, IsrSlaveSentAll, IsrSlaveStop,
       IsrSlaveRequested, Finish, twi_stop, twi_releaseBus, TypeOK, driver
<1>4. twdr' \in Byte \cup { "R", "W" }
  <2>1. mIdx < mLen => mBuf[mIdx] \in Byte
    BY DEF TypeOK, CallInv
  <2>2. \A reply \in Seq(Byte) : IsrSlaveRequested(reply) => twdr' \in Byte
    BY ReplyFits DEF IsrSlaveRequested, LoadNext, TypeOK
  <2>3. IsrSlaveSends => twdr' \in Byte
    BY DEF IsrSlaveSends, LoadNext, TypeOK
  <2>. QED BY <2>1, <2>2, <2>3 DEF PlainHandlers, IsrStart, IsrMasterSends, IsrRefused,
       IsrArbitrationLost, IsrMasterReceives, IsrMasterReceivesLast,
       IsrMasterReadRefused, IsrSlaveAddressed, IsrSlaveReceives,
       IsrSlaveRefuses, IsrSlaveSentAll, IsrSlaveStop, TypeOK
<1>5. mBuf' \in [0 .. BufLen - 1 -> Byte] /\ mIdx' \in 0 .. 255
  <2>1. CASE IsrMasterSends
    <3>1. mIdx \in 0 .. 255 /\ mLen \in 0 .. 255 /\ mBuf \in [0 .. BufLen - 1 -> Byte]
      BY DEF TypeOK
    <3>2. mBuf' = mBuf
      BY <2>1 DEF IsrMasterSends
    <3>3. mIdx' = mIdx \/ (mIdx < mLen /\ mIdx' = mIdx + 1)
      BY <2>1 DEF IsrMasterSends
    <3>4. mIdx' \in 0 .. 255
      BY ZenonT(40), <3>1, <3>3, NextIndex
    <3>. QED BY <3>1, <3>2, <3>4
  <2>2. CASE StoreReceived /\ twdr \in Byte
    BY <2>2 DEF StoreReceived, TypeOK
  <2>3. (IsrMasterReceives \/ IsrMasterReceivesLast) =>
           (StoreReceived /\ twdr \in Byte) \/ UNCHANGED << mBuf, mIdx >>
    BY DEF IsrMasterReceives, IsrMasterReceivesLast, TwdrInv, Isr
  <2>4. CASE UNCHANGED << mBuf, mIdx >>
    BY <2>4 DEF TypeOK
  <2>. QED BY <2>1, <2>2, <2>3, <2>4 DEF PlainHandlers, IsrStart, IsrRefused,
       IsrArbitrationLost, IsrMasterReadRefused, IsrSlaveAddressed, IsrSlaveReceives,
       IsrSlaveRefuses, IsrSlaveSends, IsrSlaveSentAll, IsrSlaveStop,
       IsrSlaveRequested, driver
<1>6. /\ txBuf' \in Seq(Byte) /\ Len(txBuf') <= BufLen /\ txIdx' \in Nat
      /\ rxBuf' \in Seq(Byte) /\ Len(rxBuf') <= BufLen
  <2>1. ASSUME NEW reply \in Seq(Byte), IsrSlaveRequested(reply)
        PROVE  /\ txBuf' \in Seq(Byte) /\ Len(txBuf') <= BufLen /\ txIdx' \in Nat
               /\ rxBuf' = rxBuf
    BY <2>1, ReplyFits DEF IsrSlaveRequested, LoadNext
  <2>2. CASE IsrSlaveReceives
    <3>1. twdr \in Byte
      BY <2>2 DEF IsrSlaveReceives, Isr, TwdrInv
    <3>2. /\ Append(rxBuf, twdr) \in Seq(Byte)
          /\ Len(rxBuf) < BufLen => Len(Append(rxBuf, twdr)) <= BufLen
      BY <3>1 DEF TypeOK
    <3>. QED BY <2>2, <3>2 DEF IsrSlaveReceives, HasRoom, TypeOK
  <2>3. CASE IsrSlaveStop \/ IsrSlaveAddressed
    <3>1. << >> \in Seq(Byte) /\ Len(<< >>) <= BufLen
      OBVIOUS
    <3>. QED BY <2>3, <3>1 DEF IsrSlaveStop, IsrSlaveAddressed, TypeOK
  <2>4. CASE IsrSlaveSends
    BY <2>4 DEF IsrSlaveSends, LoadNext, TypeOK
  <2>5. CASE UNCHANGED slave
    BY <2>5 DEF slave, TypeOK
  <2>6. CASE IsrStart \/ IsrMasterSends \/ IsrRefused \/ IsrArbitrationLost
             \/ IsrMasterReceives \/ IsrMasterReceivesLast \/ IsrMasterReadRefused
             \/ IsrSlaveRefuses \/ IsrSlaveSentAll
    BY <2>5, <2>6 DEF IsrStart, IsrMasterSends, IsrRefused, IsrArbitrationLost,
         IsrMasterReceives, IsrMasterReceivesLast, IsrMasterReadRefused,
         IsrSlaveRefuses, IsrSlaveSentAll
  <2>. QED BY <2>1, <2>2, <2>3, <2>4, <2>6 DEF PlainHandlers, TypeOK
<1>. QED BY <1>1, <1>2, <1>3, <1>4, <1>5, <1>6 DEF TypeOK, sketch, asMaster, asSlave

LEMMA TypeStepSketch ==
  ASSUME TwiInv, SketchAction
  PROVE  TypeOK'
<1>. USE TwiAssumption DEF TwiInv
<1>. DEFINE CallOK ==
              /\ pc \in { "idle", "wait", "claim", "setup", "start", "rep", "poll",
                           "result", "copy", "ret" }
              /\ call \in [kind : { "none", "R", "W" }, data : Seq(Byte), len : Nat,
                            stop : BOOLEAN]
            LocalsOK == got \in Seq(Byte) /\ n \in 0 .. 255 /\ ret \in 0 .. 255
<1>1. UNCHANGED << slave, heard, spoken >>
  BY DEF SketchAction, PlainSteps, twi_init, twi_disable, twi_readFrom, twi_writeTo, Call,
     Wait, Claim, Start, RepeatedStart, Poll, Result, Copied, CopyByte, Return, Setup,
     ghosts, asSlave
<1>2. /\ answered' \in BOOLEAN /\ dialog' \in Seq(Byte)
  <2>1. << >> \in Seq(Byte)
    OBVIOUS
  <2>. QED BY <2>1 DEF TypeOK,
     SketchAction, PlainSteps, twi_init, twi_disable, twi_readFrom, twi_writeTo, Call,
     Wait, Claim, Start, RepeatedStart, Poll, Result, Copied, CopyByte, Return, Setup,
     ghosts, asMaster
<1>3. /\ status' \in {None, status} /\ phase' \in {phase, "none", "off"}
      /\ twea' \in BOOLEAN /\ twie' \in BOOLEAN /\ twsta' \in BOOLEAN
  BY DEF TypeOK,
     SketchAction, PlainSteps, twi_init, twi_disable, twi_readFrom, twi_writeTo, Call,
     Wait, Claim, Start, RepeatedStart, Poll, Result, Copied, CopyByte, Return, Setup,
     SetTwcr, hardware, twcr
<1>4. /\ state' \in { "READY", "MRX", "MTX", "SRX", "STX" }
      /\ inRepStart' \in BOOLEAN /\ sendStop' \in BOOLEAN
      /\ error' \in {None, error} /\ twdr' \in {slarw, twdr}
  BY ZenonT(40), CallFields DEF TypeOK, Own,
     SketchAction, PlainSteps, twi_init, twi_disable, twi_readFrom, twi_writeTo, Call,
     Wait, Claim, Start, RepeatedStart, Poll, Result, Copied, CopyByte, Return, Setup,
     driver, hardware
<1>5. /\ mBuf' \in [0 .. BufLen - 1 -> Byte] /\ mIdx' \in 0 .. 255
      /\ mLen' \in 0 .. 255 /\ slarw' \in { "R", "W" }
  <2>1. ASSUME NEW data \in Seq(Byte), Setup(data)
        PROVE  /\ mBuf' \in [0 .. BufLen - 1 -> Byte] /\ mIdx' \in 0 .. 255
               /\ mLen' \in 0 .. 255 /\ slarw' \in { "R", "W" }
    <3>1. pc = "setup"
      BY <2>1 DEF Setup, Main
    <3>2. mLen' \in 0 .. 255
      <4>1. mLen' \in 0 .. BufLen
        BY <2>1, <3>1, LengthFits DEF Setup
      <4>. QED BY <4>1
    <3>3. mBuf' \in [0 .. BufLen - 1 -> Byte]
      <4>1. \A k \in 0 .. BufLen - 1 : k < Len(data) => data[k + 1] \in Byte
        OBVIOUS
      <4>2. \A k \in 0 .. BufLen - 1 : mBuf[k] \in Byte
        BY DEF TypeOK
      <4>. QED BY <2>1, <4>1, <4>2 DEF Setup
    <3>4. slarw' \in { "R", "W" } /\ mIdx' = 0 /\ 0 \in 0 .. 255
      BY <2>1, <3>1 DEF Setup, CallInv, InCall
    <3>. QED BY <3>2, <3>3, <3>4
  <2>2. CASE UNCHANGED << mBuf, mIdx, mLen, slarw >>
    BY <2>2 DEF TypeOK
  <2>3. \/ UNCHANGED << mBuf, mIdx, mLen, slarw >>
        \/ \E data \in Seq(Byte) : Setup(data)
    BY DEF SketchAction, PlainSteps, twi_init, twi_disable, twi_readFrom, twi_writeTo, Call,
     Wait, Claim, Start, RepeatedStart, Poll, Result, Copied, CopyByte, Return, driver
  <2>. HIDE DEF TwiInv
  <2>. QED BY <2>1, <2>2, <2>3
<1>6. CallOK'
  <2>1. CASE UNCHANGED << pc, call >>
    BY <2>1 DEF TypeOK
  <2>2. ASSUME NEW stop \in BOOLEAN, NEW length \in 1 .. BufLen, twi_readFrom(length, stop)
        PROVE  CallOK'
    BY <2>2, CallTypes DEF twi_readFrom, Call
  <2>3. ASSUME NEW stop \in BOOLEAN, NEW data \in Seq(Byte), twi_writeTo(data, stop)
        PROVE  CallOK'
    BY <2>3, CallTypes DEF twi_writeTo, Call
  <2>4. CASE Return
    <3>1. NoCall \in [kind : { "none", "R", "W" }, data : Seq(Byte), len : Nat, stop : BOOLEAN]
      <4>1. << >> \in Seq(Byte)
        OBVIOUS
      <4>. QED BY <4>1 DEF NoCall
    <3>. QED BY <2>4, <3>1 DEF Return
  <2>5. CASE PlainSteps \/ \E data \in Seq(Byte) : Setup(data)
    BY <2>5 DEF TypeOK, PlainSteps, Wait, Claim, Start, RepeatedStart, Poll,
         Result, Copied, Setup
  <2>6. CASE twi_init \/ twi_disable \/ CopyByte
    BY <2>1, <2>6 DEF twi_init, twi_disable, CopyByte, sketch
  <2>. QED BY <2>2, <2>3, <2>4, <2>5, <2>6 DEF SketchAction
<1>7. LocalsOK'
  <2>1. CASE CopyByte
    <3>1. /\ Len(got) < n /\ n <= BufLen /\ got \in Seq(Byte)
      BY <2>1 DEF CopyByte, Main, CallInv, InCall, TypeOK
    <3>2. mBuf[Len(got)] \in Byte
      BY <3>1 DEF TypeOK
    <3>3. Append(got, mBuf[Len(got)]) \in Seq(Byte)
      BY <3>1, <3>2
    <3>. QED BY <2>1, <3>3 DEF CopyByte, TypeOK
  <2>2. CASE Return
    BY <2>2 DEF Return
  <2>3. CASE Result
    <3>1. n' = n \/ n' = mIdx \/ (~(mIdx < call.len) /\ n' = call.len)
      BY <2>3 DEF Result
    <3>2. mIdx \in 0 .. 255 /\ n \in 0 .. 255 /\ ret \in 0 .. 255 /\ call.len \in Nat
      BY CallFields DEF TypeOK
    <3>3. n' \in 0 .. 255
      BY ZenonT(40), <3>1, <3>2, SmallerIndex
    <3>4. ret' \in 0 .. 255
      BY <2>3, <3>2 DEF Result, Code
    <3>. QED BY <2>3, <3>3, <3>4 DEF Result, TypeOK
  <2>4. CASE Copied
    BY <2>4 DEF Copied, TypeOK
  <2>5. ASSUME NEW c, NEW refusal \in {0, 1}, Call(c, refusal)
        PROVE  LocalsOK'
    <3>1. got' = got /\ n' = n /\ (ret' = ret \/ ret' = refusal)
      BY <2>5 DEF Call
    <3>2. refusal \in 0 .. 255
      OBVIOUS
    <3>3. LocalsOK
      BY DEF TypeOK
    <3>. QED BY <3>1, <3>2, <3>3
  <2>6. CASE UNCHANGED << got, n, ret >>
    BY <2>6 DEF TypeOK
  <2>7. CASE twi_init \/ twi_disable \/ Wait \/ Claim \/ Start \/ RepeatedStart
             \/ Poll \/ \E data \in Seq(Byte) : Setup(data)
    BY <2>6, <2>7 DEF twi_init, twi_disable, Wait, Claim, Start, RepeatedStart, Poll, Setup,
       sketch
  <2>. QED BY <2>1, <2>2, <2>3, <2>4, <2>5, <2>7
       DEF SketchAction, PlainSteps, twi_readFrom, twi_writeTo
<1>. QED
  <2>1. /\ state' \in { "READY", "MRX", "MTX", "SRX", "STX" }
        /\ slarw' \in { "R", "W" } /\ sendStop' \in BOOLEAN /\ inRepStart' \in BOOLEAN
        /\ error' \in Status \cup {None}
        /\ twdr' \in Byte \cup { "R", "W" }
        /\ phase' \in MasterPhase \cup { "off", "none", "rep", "sr", "st" }
        /\ status' \in Status \cup {None}
    BY SMTT(30), <1>3, <1>4, <1>5 DEF TypeOK
  <2>2. (/\ txBuf \in Seq(Byte) /\ Len(txBuf) <= BufLen /\ txIdx \in Nat
         /\ rxBuf \in Seq(Byte) /\ Len(rxBuf) <= BufLen
         /\ heard \in Seq(Byte) /\ spoken \in Seq(Byte \cup { "R", "W" }))'
    BY <1>1 DEF TypeOK, slave
  <2>. QED BY <1>2, <1>3, <1>5, <1>6, <1>7, <2>1, <2>2 DEF TypeOK

LEMMA TwiStep == TwiInv /\ TwiAction => TwiInv'
<1>. SUFFICES ASSUME TwiInv, TwiAction PROVE TwiInv'
  OBVIOUS
<1>1. CallInv'
  BY CallStep
<1>2. CASE Bus
  BY <1>1, <1>2, BusStep, TypeStepBus DEF TwiInv
<1>3. CASE PlainHandlers \/ IsrSlaveStop \/ \E reply \in Seq(Byte) : IsrSlaveRequested(reply)
  BY <1>1, <1>3, HandlerStep, TypeStepHandler DEF TwiInv
<1>4. CASE SketchAction
  BY <1>1, <1>4, SketchStep, TypeStepSketch DEF TwiInv
<1>5. CASE UNCHANGED vars
  BY <1>5 DEF TwiInv, TypeOK, BusInv, TwdrInv, CallInv, InCall, vars, driver, slave,
     twcr, sketch, asMaster, asSlave
<1>. QED BY <1>2, <1>3, <1>4, <1>5 DEF TwiAction, SketchAction

-----------------------------------------------------------------------------
(* The slave side.  While others talk to this node the sketch finds no     *)
(* status pending, and all it can do to the bus is to ask for a START.     *)

LEMMA SketchLeaves ==
  ASSUME TwiInv, SketchAction
  PROVE  /\ UNCHANGED << slave, heard, spoken >>
         /\ status' \in {None, status}
         /\ status' # None => UNCHANGED << phase, status, twdr, twcr >>
         /\ phase' \in { "sr", "st" } => UNCHANGED << phase, status, twdr >> /\ status = None
         /\ phase' \in { "sr", "st", "none" } =>
              \/ UNCHANGED << twea, twie >> /\ phase' = phase
              \/ twea' = TRUE /\ twie' = TRUE
<1>. USE TwiAssumption DEF TwiInv, BusInv, Main, hardware, twcr, SetTwcr
<1>1. UNCHANGED << slave, heard, spoken >>
  BY DEF SketchAction, PlainSteps, twi_init, twi_disable, twi_readFrom, twi_writeTo, Call,
     Wait, Claim, Start, RepeatedStart, Poll, Result, Copied, CopyByte, Return, Setup,
     ghosts, asSlave
<1>2. ~(twie /\ status # None)
  BY DEF SketchAction, PlainSteps, twi_init, twi_disable, twi_readFrom, twi_writeTo, Call,
     Wait, Claim, Start, RepeatedStart, Poll, Result, Copied, CopyByte, Return, Setup
<1>3. status = None \/ phase \in { "off", "rep", "addr" }
  BY <1>2
<1>4. CASE UNCHANGED hardware
  BY <1>1, <1>3, <1>4 DEF MasterPhase
<1>5. CASE twi_init \/ twi_disable
  BY <1>1, <1>5 DEF twi_init, twi_disable
<1>6. CASE Start
  BY <1>1, <1>3, <1>6 DEF Start
<1>7. CASE RepeatedStart
  BY <1>1, <1>3, <1>7 DEF RepeatedStart
<1>8. \/ UNCHANGED hardware \/ twi_init \/ twi_disable \/ Start \/ RepeatedStart
  BY DEF SketchAction, PlainSteps, twi_readFrom, twi_writeTo, Call,
     Wait, Claim, Poll, Result, Copied, CopyByte, Return, Setup
<1>. QED BY <1>4, <1>5, <1>6, <1>7, <1>8

(* The driver has taken as many of the first l bytes heard as fit. *)
Taken(l) ==
  /\ Len(rxBuf) = IF l < BufLen THEN l ELSE BufLen
  /\ \A k \in 1 .. Len(rxBuf) : rxBuf[k] = heard[k]

(* A byte is taken one handler run after it is heard; one more byte than   *)
(* fits is heard before the node refuses.                                  *)
HeardInv ==
  /\ (phase = "sr" /\ status = "SR_SLA_ACK") => heard = << >>
  /\ (phase = "sr" /\ status = "SR_DATA_ACK") =>
       /\ heard # << >> /\ twdr = heard[Len(heard)]
       /\ Taken(Len(heard) - 1)
  /\ (phase = "sr" /\ status = None) =>
       Taken(Len(heard)) /\ (~twea => BufLen < Len(heard))
  /\ status = "SR_STOP" => Taken(Len(heard))
  /\ status = "SR_DATA_NACK" => Overlong

LEMMA HeardStepBus ==
  ASSUME TwiInv, HeardInv, Bus
  PROVE  HeardInv'
<1>. USE TwiAssumption DEF Raise, twcr, slave, asSlave
<1>1. rxBuf' = rxBuf /\ twea' = twea
  BY DEF Bus, StartSent, AddressSent, DataSent, Addressed, ForeignStops,
     BusError, DataReceived, ForeignWrites, ForeignReads
<1>2. CASE StartSent \/ DataSent
  BY <1>2 DEF HeardInv, StartSent, DataSent, Status
<1>3. CASE AddressSent
  BY <1>3 DEF HeardInv, AddressSent, Status
<1>4. CASE Addressed
  BY <1>4 DEF HeardInv, Addressed, Status
<1>5. CASE ForeignStops
  BY <1>1, <1>5 DEF HeardInv, ForeignStops, Status, Taken
<1>6. CASE BusError
  BY <1>6 DEF HeardInv, BusError, Status
<1>7. CASE \E b \in Answers : DataReceived(b)
  BY <1>7 DEF HeardInv, DataReceived, Status
<1>8. CASE \E ack \in BOOLEAN : ForeignReads(ack)
  BY <1>8 DEF HeardInv, ForeignReads, Status
<1>9. ASSUME NEW b \in Foreign, ForeignWrites(b) PROVE HeardInv'
  <2>1. /\ status = None /\ phase = "sr" /\ heard' = Append(heard, b) /\ twdr' = b
        /\ \/ twea /\ status' = "SR_DATA_ACK" /\ phase' = "sr"
           \/ ~twea /\ status' = "SR_DATA_NACK" /\ phase' = "none"
    BY <1>9 DEF ForeignWrites
  <2>2. /\ heard \in Seq(Byte) /\ b \in Byte
        /\ Taken(Len(heard)) /\ (~twea => BufLen < Len(heard))
    BY <2>1 DEF HeardInv, TwiInv, TypeOK
  <2>3. /\ heard' \in Seq(Byte) /\ Len(heard') = Len(heard) + 1
        /\ heard'[Len(heard) + 1] = b
        /\ \A k \in 1 .. Len(heard) : heard'[k] = heard[k]
    BY <2>1, <2>2, AppendProperties
  <2>4. Len(heard) \in Nat /\ Len(rxBuf) \in Nat /\ BufLen \in Nat
    BY <2>2 DEF TwiInv, TypeOK
  <2>5. Len(rxBuf) <= Len(heard)
    BY <2>2, <2>4 DEF Taken
  <2>6. Len(heard') - 1 = Len(heard)
    BY <2>3, <2>4
  <2>7. Taken(Len(heard) - 1)'
    BY <1>1, <2>2, <2>3, <2>4, <2>5, <2>6 DEF Taken
  <2>8. heard' # << >> /\ twdr' = heard'[Len(heard')]
    BY <2>1, <2>3, <2>4
  <2>9. ~twea => Overlong'
    BY <2>2, <2>3, <2>4 DEF Overlong
  <2>. QED BY <2>1, <2>7, <2>8, <2>9 DEF HeardInv, Status
<1>. QED BY <1>2, <1>3, <1>4, <1>5, <1>6, <1>7, <1>8, <1>9 DEF Bus

LEMMA HeardStepHandler ==
  ASSUME TwiInv, HeardInv,
         PlainHandlers \/ IsrSlaveStop \/ \E reply \in Seq(Byte) : IsrSlaveRequested(reply)
  PROVE  HeardInv'
<1>. USE TwiAssumption DEF Isr, SetTwcr, twi_reply, twi_stop, twi_releaseBus, Finish
<1>1. heard' = heard /\ status' = None
  BY DEF PlainHandlers, IsrStart, IsrMasterSends, IsrRefused, IsrArbitrationLost,
     IsrMasterReceives, IsrMasterReceivesLast, IsrMasterReadRefused, IsrSlaveAddressed,
     IsrSlaveReceives, IsrSlaveRefuses, IsrSlaveSends, IsrSlaveSentAll, IsrSlaveStop,
     IsrSlaveRequested, LoadNext, asSlave
<1>2. SUFFICES ASSUME phase' = "sr"
               PROVE  (Taken(Len(heard)) /\ (~twea => BufLen < Len(heard)))'
  BY <1>1 DEF HeardInv, Status
<1>3. IsrSlaveAddressed \/ IsrSlaveReceives
  BY <1>2 DEF TwiInv, BusInv, MasterPhase, Status, PlainHandlers, IsrStart,
     IsrMasterSends, IsrRefused, IsrArbitrationLost, IsrMasterReceives,
     IsrMasterReceivesLast, IsrMasterReadRefused, IsrSlaveRefuses, IsrSlaveSends,
     IsrSlaveSentAll, IsrSlaveStop, IsrSlaveRequested, LoadNext
<1>4. CASE IsrSlaveAddressed
  <2>1. heard' = << >> /\ rxBuf' = << >> /\ twea' = TRUE
    BY <1>1, <1>4 DEF IsrSlaveAddressed, TwiInv, BusInv, HeardInv
  <2>. QED BY <2>1 DEF Taken
<1>5. CASE IsrSlaveReceives
  <2>1. /\ heard # << >> /\ twdr = heard[Len(heard)] /\ Taken(Len(heard) - 1)
        /\ rxBuf' = IF HasRoom THEN Append(rxBuf, twdr) ELSE rxBuf
        /\ twdr \in Byte
    BY <1>5 DEF IsrSlaveReceives, TwiInv, BusInv, TwdrInv, HeardInv
  <2>2. twea' = HasRoom
    BY <1>5 DEF IsrSlaveReceives
  <2>3. /\ heard \in Seq(Byte) /\ rxBuf \in Seq(Byte) /\ Len(rxBuf) <= BufLen
        /\ Len(heard) \in Nat /\ Len(heard) >= 1 /\ Len(rxBuf) \in Nat /\ BufLen \in Nat
    BY <2>1 DEF TwiInv, TypeOK
  <2>4. CASE HasRoom
    <3>1. rxBuf' = Append(rxBuf, twdr) /\ Len(rxBuf) < BufLen
      BY <2>1, <2>4 DEF HasRoom
    <3>2. Len(rxBuf) = Len(heard) - 1
      BY <2>1, <2>3, <3>1 DEF Taken
    <3>3. /\ Len(rxBuf') = Len(heard)
          /\ \A k \in 1 .. Len(heard) : rxBuf'[k] = heard[k]
      <4>1. /\ Len(rxBuf') = Len(rxBuf) + 1 /\ rxBuf'[Len(rxBuf) + 1] = twdr
            /\ \A k \in 1 .. Len(rxBuf) : rxBuf'[k] = rxBuf[k]
        BY <2>1, <2>3, <3>1, AppendProperties
      <4>2. \A k \in 1 .. Len(rxBuf) : rxBuf[k] = heard[k]
        BY <2>1 DEF Taken
      <4>. QED BY <2>1, <2>3, <3>2, <4>1, <4>2
    <3>4. Len(heard) <= BufLen
      BY <2>3, <3>1, <3>2
    <3>5. twea' = TRUE
      BY <2>2, <2>4
    <3>. QED BY <1>1, <2>3, <3>3, <3>4, <3>5 DEF Taken
  <2>5. CASE ~HasRoom
    <3>1. rxBuf' = rxBuf /\ Len(rxBuf) = BufLen
      BY <2>1, <2>3, <2>5 DEF HasRoom
    <3>2. BufLen < Len(heard)
      BY <2>1, <2>3, <3>1 DEF Taken
    <3>3. Taken(Len(heard))
      <4>1. ~(Len(heard) < BufLen) /\ ~(Len(heard) - 1 < BufLen)
        BY <2>3, <3>2
      <4>2. \A k \in 1 .. Len(rxBuf) : rxBuf[k] = heard[k]
        BY <2>1 DEF Taken
      <4>. QED BY <3>1, <4>1, <4>2 DEF Taken
    <3>. QED BY <1>1, <3>1, <3>2, <3>3 DEF Taken
  <2>. QED BY <2>4, <2>5
<1>. QED BY <1>3, <1>4, <1>5

LEMMA HeardStep == TwiInv /\ HeardInv /\ TwiAction => HeardInv'
<1>. SUFFICES ASSUME TwiInv, HeardInv, TwiAction PROVE HeardInv'
  OBVIOUS
<1>1. CASE Bus
  BY <1>1, HeardStepBus
<1>2. CASE PlainHandlers \/ IsrSlaveStop \/ \E reply \in Seq(Byte) : IsrSlaveRequested(reply)
  BY <1>2, HeardStepHandler
<1>3. CASE SketchAction
  <2>1. /\ UNCHANGED << rxBuf, heard >>
        /\ status' # None => UNCHANGED << phase, status, twdr, twea >>
        /\ phase' = "sr" => UNCHANGED << phase, status >> /\ status = None
        /\ phase' = "sr" => twea' = twea \/ twea' = TRUE
    BY <1>3, SketchLeaves DEF slave, twcr
  <2>2. CASE status' = None
    BY <2>1, <2>2, TwiAssumption DEF HeardInv, Taken, Status
  <2>3. CASE status' # None
    BY <2>1, <2>3 DEF HeardInv, Taken, Overlong
  <2>. QED BY <2>2, <2>3
<1>4. CASE UNCHANGED vars
  BY <1>4 DEF vars, slave, asSlave, twcr, HeardInv, Taken, Overlong
<1>. QED BY <1>1, <1>2, <1>3, <1>4 DEF TwiAction, SketchAction

(* What goes out to another master is what the callback left, byte by byte *)
(* in step with the driver's index.                                        *)
SpokenInv ==
  /\ SlaveSpeaks
  /\ status = "ST_SLA_ACK" => spoken = << >>
  /\ (phase = "st" /\ status = None) =>
       /\ txIdx = Len(spoken) + 1
       /\ txIdx <= Len(txBuf) => twdr = txBuf[txIdx]
  /\ status = "ST_DATA_ACK" => txIdx = Len(spoken)

LEMMA SpokenStepBus ==
  ASSUME TwiInv, SpokenInv, Bus
  PROVE  SpokenInv'
<1>. USE TwiAssumption DEF Raise, twcr, slave, asSlave
<1>1. txBuf' = txBuf /\ txIdx' = txIdx
  BY DEF Bus, StartSent, AddressSent, DataSent, Addressed, ForeignStops,
     BusError, DataReceived, ForeignWrites, ForeignReads
<1>2. CASE StartSent \/ DataSent \/ ForeignStops \/ BusError
           \/ (\E b \in Answers : DataReceived(b)) \/ (\E b \in Foreign : ForeignWrites(b))
  <2>1. /\ spoken' = spoken
        /\ status' \notin { "ST_SLA_ACK", "ST_DATA_ACK", None }
    BY <1>2 DEF StartSent, DataSent, ForeignStops, BusError, DataReceived, ForeignWrites,
       Status
  <2>. QED BY <1>1, <2>1 DEF SpokenInv, SlaveSpeaks
<1>3. CASE AddressSent \/ Addressed
  <2>1. /\ spoken' = << >> \/ spoken' = spoken
        /\ status' = "ST_SLA_ACK" => spoken' = << >>
        /\ status' \notin { None, "ST_DATA_ACK" }
    BY <1>3 DEF AddressSent, Addressed, Status
  <2>2. SlaveSpeaks'
    BY <1>1, <2>1 DEF SpokenInv, SlaveSpeaks
  <2>. QED BY <2>1, <2>2 DEF SpokenInv
<1>4. ASSUME NEW ack \in BOOLEAN, ForeignReads(ack) PROVE SpokenInv'
  <2>1. /\ spoken' = Append(spoken, twdr)
        /\ status' \in { "ST_DATA_ACK", "ST_LAST_DATA", "ST_DATA_NACK" }
        /\ txIdx = Len(spoken) + 1
        /\ txIdx <= Len(txBuf) => twdr = txBuf[txIdx]
    BY <1>4 DEF ForeignReads, SpokenInv
  <2>2. spoken \in Seq(Byte \cup { "R", "W" }) /\ twdr \in Byte \cup { "R", "W" }
    BY DEF TwiInv, TypeOK
  <2>3. /\ Len(spoken') = Len(spoken) + 1 /\ Len(spoken) \in Nat
        /\ spoken'[Len(spoken) + 1] = twdr
        /\ \A k \in 1 .. Len(spoken) : spoken'[k] = spoken[k]
        /\ DOMAIN spoken' = 1 .. Len(spoken) + 1
    BY <2>1, <2>2, AppendProperties
  <2>4. \A k \in 1 .. Len(spoken) : k <= Len(txBuf) => spoken[k] = txBuf[k]
    BY <2>2 DEF SpokenInv, SlaveSpeaks
  <2>5. SlaveSpeaks'
    <3>1. \A k \in 1 .. Len(spoken) + 1 : k \in 1 .. Len(spoken) \/ k = Len(spoken) + 1
      BY <2>3
    <3>. QED BY <1>1, <2>1, <2>3, <2>4, <3>1 DEF SlaveSpeaks
  <2>6. txIdx' = Len(spoken')
    BY <1>1, <2>1, <2>3
  <2>. QED BY <2>1, <2>5, <2>6 DEF SpokenInv, Status
<1>. QED BY <1>2, <1>3, <1>4 DEF Bus

LEMMA SpokenStepHandler ==
  ASSUME TwiInv, SpokenInv,
         PlainHandlers \/ IsrSlaveStop \/ \E reply \in Seq(Byte) : IsrSlaveRequested(reply)
  PROVE  SpokenInv'
<1>. USE TwiAssumption DEF Isr, SetTwcr, twi_reply, twi_stop, twi_releaseBus, Finish
<1>1. spoken' = spoken /\ status' = None
  BY DEF PlainHandlers, IsrStart, IsrMasterSends, IsrRefused, IsrArbitrationLost,
     IsrMasterReceives, IsrMasterReceivesLast, IsrMasterReadRefused, IsrSlaveAddressed,
     IsrSlaveReceives, IsrSlaveRefuses, IsrSlaveSends, IsrSlaveSentAll, IsrSlaveStop,
     IsrSlaveRequested, LoadNext, asSlave
<1>2. ASSUME NEW reply \in Seq(Byte), IsrSlaveRequested(reply) PROVE SpokenInv'
  <2>1. /\ spoken' = << >> /\ txBuf' = Reply(reply) /\ txIdx' = 1
        /\ 0 < Len(Reply(reply)) => twdr' = Reply(reply)[1]
    BY <1>1, <1>2 DEF IsrSlaveRequested, LoadNext, SpokenInv
  <2>2. SlaveSpeaks'
    BY <2>1 DEF SlaveSpeaks
  <2>3. Len(Reply(reply)) \in Nat
    BY ReplyFits
  <2>4. txIdx' <= Len(txBuf') => twdr' = txBuf'[txIdx']
    BY <2>1, <2>3
  <2>5. txIdx' = Len(spoken') + 1
    BY <2>1
  <2>. QED BY <1>1, <2>2, <2>4, <2>5 DEF SpokenInv, Status
<1>3. CASE IsrSlaveSends
  <2>1. /\ txIdx = Len(spoken) /\ txBuf' = txBuf /\ txIdx' = txIdx + 1
        /\ txIdx < Len(txBuf) => twdr' = txBuf[txIdx + 1]
    BY <1>3 DEF IsrSlaveSends, LoadNext, SpokenInv
  <2>2. SlaveSpeaks'
    BY <1>1, <2>1 DEF SpokenInv, SlaveSpeaks
  <2>3. txIdx \in Nat /\ Len(txBuf) \in Nat
    BY DEF TwiInv, TypeOK
  <2>4. txIdx' <= Len(txBuf') => twdr' = txBuf'[txIdx']
    BY <2>1, <2>3
  <2>5. txIdx' = Len(spoken') + 1
    BY <1>1, <2>1
  <2>. QED BY <1>1, <2>2, <2>4, <2>5 DEF SpokenInv, Status
<1>4. ASSUME ~IsrSlaveSends, ~\E reply \in Seq(Byte) : IsrSlaveRequested(reply)
      PROVE  SpokenInv'
  <2>1. txBuf' = txBuf /\ phase' # "st"
    BY <1>4 DEF TwiInv, BusInv, MasterPhase, Status, PlainHandlers, IsrStart,
       IsrMasterSends, IsrRefused, IsrArbitrationLost, IsrMasterReceives,
       IsrMasterReceivesLast, IsrMasterReadRefused, IsrSlaveAddressed, IsrSlaveReceives,
       IsrSlaveRefuses, IsrSlaveSentAll, IsrSlaveStop, slave
  <2>. QED BY <1>1, <2>1 DEF SpokenInv, SlaveSpeaks, Status
<1>. QED BY <1>2, <1>3, <1>4

LEMMA SpokenStep == TwiInv /\ SpokenInv /\ TwiAction => SpokenInv'
<1>. SUFFICES ASSUME TwiInv, SpokenInv, TwiAction PROVE SpokenInv'
  OBVIOUS
<1>1. CASE Bus
  BY <1>1, SpokenStepBus
<1>2. CASE PlainHandlers \/ IsrSlaveStop \/ \E reply \in Seq(Byte) : IsrSlaveRequested(reply)
  BY <1>2, SpokenStepHandler
<1>3. CASE SketchAction
  <2>1. /\ UNCHANGED << txBuf, txIdx, spoken >>
        /\ status' # None => UNCHANGED << status, twdr >>
        /\ phase' = "st" => UNCHANGED << phase, status, twdr >>
    BY <1>3, SketchLeaves DEF slave
  <2>2. CASE status' = None
    BY <2>1, <2>2, TwiAssumption DEF SpokenInv, SlaveSpeaks, Status
  <2>3. CASE status' # None
    BY <2>1, <2>3 DEF SpokenInv, SlaveSpeaks
  <2>. QED BY <2>2, <2>3
<1>4. CASE UNCHANGED vars
  BY <1>4 DEF vars, slave, asSlave, SpokenInv, SlaveSpeaks
<1>. QED BY <1>1, <1>2, <1>3, <1>4 DEF TwiAction, SketchAction

(* twi_state and the bus agree but for a call of the sketch that has       *)
(* claimed the driver, in two accesses, while another master addressed the *)
(* node in between.                                                        *)
Claimed == pc \in { "setup", "start", "rep", "poll" } /\ state = Own

StateInv ==
  /\ (phase = "sr" /\ status \in {None, "SR_DATA_ACK"}) => state = "SRX" \/ Claimed
  /\ (phase = "st" /\ status \in {None, "ST_DATA_ACK"}) => state = "STX" \/ Claimed
  /\ (phase = "none" /\ status = None) => state = "READY" \/ Claimed \/ Overlong
  /\ (phase = "none" /\ status = None) => (twea /\ twie) \/ Overlong

LEMMA StateStepBus ==
  ASSUME TwiInv, StateInv, Bus
  PROVE  StateInv'
<1>. USE TwiAssumption DEF Raise, twcr, sketch, Status
<1>1. UNCHANGED << state, pc, call, twea, twie >>
  BY DEF Bus, StartSent, AddressSent, DataSent, Addressed, ForeignStops,
     BusError, DataReceived, ForeignWrites, ForeignReads
<1>2. Claimed' <=> Claimed
  BY <1>1 DEF Claimed, Own
<1>3. status' # None
  BY DEF Bus, StartSent, AddressSent, DataSent, Addressed, ForeignStops,
     BusError, DataReceived, ForeignWrites, ForeignReads
<1>4. status' = "SR_DATA_ACK" => status = None /\ phase = "sr"
  BY DEF Bus, StartSent, AddressSent, DataSent, Addressed, ForeignStops,
     BusError, DataReceived, ForeignWrites, ForeignReads
<1>5. status' = "ST_DATA_ACK" => status = None /\ phase = "st"
  BY DEF Bus, StartSent, AddressSent, DataSent, Addressed, ForeignStops,
     BusError, DataReceived, ForeignWrites, ForeignReads
<1>. QED BY <1>1, <1>2, <1>3, <1>4, <1>5 DEF StateInv

LEMMA StateStepHandler ==
  ASSUME TwiInv, HeardInv, StateInv,
         PlainHandlers \/ IsrSlaveStop \/ \E reply \in Seq(Byte) : IsrSlaveRequested(reply)
  PROVE  StateInv'
<1>. USE TwiAssumption DEF TwiInv, BusInv, Isr, SetTwcr, twi_reply, twi_stop,
         twi_releaseBus, Finish, MasterPhase, Status
<1>1. status' = None /\ UNCHANGED << pc, call, heard >>
  BY DEF PlainHandlers, IsrStart, IsrMasterSends, IsrRefused, IsrArbitrationLost,
     IsrMasterReceives, IsrMasterReceivesLast, IsrMasterReadRefused, IsrSlaveAddressed,
     IsrSlaveReceives, IsrSlaveRefuses, IsrSlaveSends, IsrSlaveSentAll, IsrSlaveStop,
     IsrSlaveRequested, LoadNext, asSlave, sketch
<1>2. CASE IsrStart \/ IsrMasterSends \/ IsrMasterReceives \/ IsrMasterReceivesLast
  <2>1. phase' \notin { "sr", "st" }
    BY <1>2 DEF IsrStart, IsrMasterSends, IsrMasterReceives, IsrMasterReceivesLast
  <2>2. phase' = "none" => state' = "READY" /\ twea' /\ twie'
    BY <1>2 DEF IsrStart, IsrMasterSends, IsrMasterReceives, IsrMasterReceivesLast
  <2>. QED BY <1>1, <2>1, <2>2 DEF StateInv
<1>3. CASE IsrRefused \/ IsrArbitrationLost \/ IsrMasterReadRefused \/ IsrSlaveStop
           \/ IsrSlaveSentAll
  <2>1. phase' = "none" /\ state' = "READY" /\ twea' /\ twie'
    BY <1>3 DEF IsrRefused, IsrArbitrationLost, IsrMasterReadRefused, IsrSlaveStop,
       IsrSlaveSentAll
  <2>. QED BY <1>1, <2>1 DEF StateInv
<1>4. CASE IsrSlaveAddressed
  BY <1>1, <1>4 DEF IsrSlaveAddressed, StateInv
<1>5. CASE \E reply \in Seq(Byte) : IsrSlaveRequested(reply)
  BY <1>1, <1>5 DEF IsrSlaveRequested, LoadNext, StateInv
<1>6. CASE IsrSlaveReceives
  <2>1. phase' = "sr" /\ state' = state /\ (state = "SRX" \/ Claimed)
    BY <1>6 DEF IsrSlaveReceives, StateInv
  <2>. QED BY <1>1, <2>1 DEF StateInv, Claimed, Own
<1>7. CASE IsrSlaveSends
  <2>1. phase' = "st" /\ state' = state /\ (state = "STX" \/ Claimed)
    BY <1>7 DEF IsrSlaveSends, LoadNext, StateInv
  <2>. QED BY <1>1, <2>1 DEF StateInv, Claimed, Own
<1>8. CASE IsrSlaveRefuses
  <2>1. phase' = "none" /\ Overlong
    BY <1>8 DEF IsrSlaveRefuses, HeardInv
  <2>. QED BY <1>1, <2>1 DEF StateInv, Overlong
<1>. QED BY <1>2, <1>3, <1>4, <1>5, <1>6, <1>7, <1>8 DEF PlainHandlers

LEMMA StateStepSketch ==
  ASSUME TwiInv, StateInv, SketchAction
  PROVE  StateInv'
<1>. DEFINE Kept == state' = state \/ Claimed'
            Still == (Claimed => Claimed') /\ Kept
<1>1. /\ heard' = heard /\ status' \in {None, status}
      /\ status' # None => UNCHANGED << phase, status >>
      /\ phase' \in { "sr", "st" } => UNCHANGED << phase, status >> /\ status = None
      /\ phase' \in { "sr", "st", "none" } =>
              \/ UNCHANGED << twea, twie >> /\ phase' = phase
              \/ twea' = TRUE /\ twie' = TRUE
  BY SketchLeaves
<1>2. Overlong' <=> Overlong
  BY <1>1 DEF Overlong
<1>3. CASE twi_init
  BY <1>1, <1>2, <1>3, TwiAssumption DEF twi_init, StateInv, Status
<1>4. CASE twi_disable
  BY <1>4 DEF twi_disable, StateInv
<1>5. ASSUME NEW c, NEW refusal, Call(c, refusal) PROVE Still
  BY <1>5 DEF Call, Main, Claimed
<1>6. ASSUME Wait PROVE Still
  BY <1>6 DEF Wait, Main, Claimed
<1>7. ASSUME Claim PROVE Still
  BY <1>7 DEF Claim, Main, Claimed, Own
<1>8. ASSUME Start \/ RepeatedStart PROVE Still
  BY <1>8 DEF Start, RepeatedStart, Main, Claimed, Own
<1>9. ASSUME Poll PROVE Still
  BY <1>9 DEF Poll, Main, Claimed
<1>10. ASSUME Result \/ Copied \/ CopyByte \/ Return PROVE Still
  BY <1>10 DEF Result, Copied, CopyByte, Return, Main, Claimed
<1>11. ASSUME NEW data \in Seq(Byte), Setup(data) PROVE Still
  BY <1>11 DEF Setup, Main, Claimed, Own
<1>12. twi_init \/ twi_disable \/ Still
  BY <1>5, <1>6, <1>7, <1>8, <1>9, <1>10, <1>11
     DEF SketchAction, PlainSteps, twi_readFrom, twi_writeTo
<1>13. CASE Still /\ ~twi_init /\ ~twi_disable
  <2>1. phase' = "none" => phase = "none"
    BY <1>13 DEF SketchAction, PlainSteps, twi_readFrom, twi_writeTo, Call,
     Wait, Claim, Start, RepeatedStart, Poll, Result, Copied, CopyByte, Return, Setup,
     hardware
  <2>2. (phase' = "none" /\ status' = None) => status = None
    <3>1. status = None \/ phase \in { "off", "rep", "addr" }
      <4>1. ~(twie /\ status # None)
        BY DEF SketchAction, PlainSteps, twi_init, twi_disable, twi_readFrom, twi_writeTo,
           Call, Wait, Claim, Start, RepeatedStart, Poll, Result, Copied, CopyByte, Return,
           Setup, Main
      <4>. QED BY <4>1 DEF TwiInv, BusInv
    <3>. QED BY <2>1, <3>1
  <2>3. (phase = "none" /\ status = None /\ phase' = "none" /\ status' = None)
          => (twea' /\ twie') \/ Overlong
    BY <1>1 DEF StateInv
  <2>4. (phase' \in { "sr", "st" }) => status' = status /\ phase' = phase
    BY <1>1
  <2>. QED BY <1>2, <1>13, <2>1, <2>2, <2>3, <2>4 DEF StateInv
<1>. QED BY <1>3, <1>4, <1>12, <1>13

LEMMA StateStep == TwiInv /\ HeardInv /\ StateInv /\ TwiAction => StateInv'
<1>. SUFFICES ASSUME TwiInv, HeardInv, StateInv, TwiAction PROVE StateInv'
  OBVIOUS
<1>1. CASE Bus
  BY <1>1, StateStepBus
<1>2. CASE PlainHandlers \/ IsrSlaveStop \/ \E reply \in Seq(Byte) : IsrSlaveRequested(reply)
  BY <1>2, StateStepHandler
<1>3. CASE SketchAction
  BY <1>3, StateStepSketch
<1>4. CASE UNCHANGED vars
  BY <1>4 DEF vars, sketch, asSlave, twcr, StateInv, Claimed, Own, Overlong
<1>. QED BY <1>1, <1>2, <1>3, <1>4 DEF TwiAction, SketchAction

-----------------------------------------------------------------------------
(* The object above the driver. *)

LEMMA WireIsTwi ==
  ASSUME AsksForBytes, TwiInv, WireTypeOK, [WireNext]_allVars
  PROVE  TwiAction
<1>. USE TwiAssumption
<1>1. << >> \in Seq(Byte)
  OBVIOUS
<1>2. CASE begin \/ end
  BY <1>2 DEF begin, end, TwiAction
<1>3. CASE read \/ beginTransmission \/ RequestRewinds \/ \E b : write(b)
  BY <1>3 DEF read, beginTransmission, RequestRewinds, write, TwiAction
<1>4. ASSUME NEW stop \in Stops, endTransmission(stop) PROVE TwiAction
  <2>1. stop \in BOOLEAN /\ txBuffer \in Seq(Byte) /\ Len(txBuffer) <= BufLen
    BY DEF WireTypeOK
  <2>2. twi_writeTo(txBuffer, stop)
    BY <1>4 DEF endTransmission
  <2>. HIDE DEF WireTypeOK
  <2>. QED BY <2>1, <2>2 DEF TwiAction
<1>5. ASSUME NEW stop \in Stops, NEW quantity \in ReadLengths, requestFrom(quantity, stop)
      PROVE  TwiAction
  <2>1. stop \in BOOLEAN /\ quantity \in 1 .. 255
    BY DEF AsksForBytes
  <2>2. Clamped(quantity) \in 1 .. BufLen
    BY <2>1 DEF Clamped
  <2>3. twi_readFrom(Clamped(quantity), stop)
    BY <1>5 DEF requestFrom
  <2>. QED BY <2>1, <2>2, <2>3 DEF TwiAction
<1>6. CASE EndTransmissionCopies
  <2>. DEFINE data == [k \in 1 .. call.len |->
                         IF k <= Len(txBuffer) THEN txBuffer[k] ELSE call.data[k]]
  <2>1. Setup(data) /\ call.kind = "W" /\ pc = "setup"
    BY <1>6 DEF EndTransmissionCopies, Setup, Main
  <2>2. call.len = Len(call.data) /\ call.len \in Nat /\ call.data \in Seq(Byte)
    BY <2>1, CallFields DEF TwiInv, CallInv, InCall
  <2>3. txBuffer \in Seq(Byte)
    BY DEF WireTypeOK
  <2>4. data \in Seq(Byte)
    <3>1. \A k \in 1 .. call.len :
             (IF k <= Len(txBuffer) THEN txBuffer[k] ELSE call.data[k]) \in Byte
      BY <2>2, <2>3
    <3>2. data \in [1 .. call.len -> Byte]
      BY <3>1
    <3>. HIDE DEF data
    <3>. QED BY <2>2, <3>2, SeqDef
  <2>. QED BY <2>1, <2>4 DEF TwiAction
<1>7. CASE EndTransmissionReturns \/ RequestReturns \/ RequestCopies
  BY <1>7 DEF EndTransmissionReturns, RequestReturns, RequestCopies, TwiAction
<1>8. CASE RequestSetsUp
  BY <1>1, <1>8 DEF RequestSetsUp, TwiAction
<1>9. CASE PlainSteps \/ PlainHandlers \/ Bus
  BY <1>9 DEF TwiAction
<1>10. CASE Received
  BY <1>10 DEF Received, TwiAction
<1>11. CASE Requested
  <2>1. PICK reply \in Replies : onRequestService(reply)
    BY <1>11 DEF Requested
  <2>2. reply \in Seq(Byte)
    OBVIOUS
  <2>3. IsrSlaveRequested(<< >>) \/ IsrSlaveRequested(reply)
    BY <2>1 DEF onRequestService
  <2>. QED BY <1>1, <2>2, <2>3 DEF TwiAction
<1>12. CASE UNCHANGED allVars
  BY <1>12 DEF allVars, TwiAction
<1>. QED BY <1>2, <1>3, <1>4, <1>5, <1>6, <1>7, <1>8, <1>9, <1>10, <1>11, <1>12
     DEF WireNext, WireCalls, WireSteps, WireHandlers

(* The bytes requestFrom() got are where rxBufferIndex says, until the     *)
(* next requestFrom() begins; while it is under way, those it has copied   *)
(* are at the beginning of rxBuffer, unless a message has come over them.  *)
InRequest == call.kind = "R" /\ pc \in { "copy", "ret" }

UnreadInv == UnreadKept /\ ((pc # "idle" /\ call.kind = "R") => requested = None)

GotInv ==
  /\ rewound => pc = "ret" /\ call.kind = "R"
  /\ (pc = "ret" /\ call.kind = "R") => Len(got) = ret
  /\ (InRequest /\ ~crossed) => \A k \in 1 .. Len(got) : rxBuffer[k - 1] = got[k]
  /\ (rewound /\ ~crossed /\ got # << >>) => rxBufferIndex = 0

ReadInv == UnreadInv /\ GotInv

WireInv == WireTypeOK /\ TwiInv /\ ReadInv

(* The rest of what was requested, after one byte of it was read. *)
LEMMA TailOfWindow ==
  ASSUME NEW S, NEW g \in [0 .. BufLen - 1 -> S],
         NEW i \in Nat, NEW l \in 0 .. BufLen, i < l
  PROVE  LET w == [k \in 1 .. l - i |-> g[i + k - 1]]
         IN  /\ Tail(w) = [k \in 1 .. l - (i + 1) |-> g[(i + 1) + k - 1]]
             /\ Tail(w) \in Seq(S)
<1>. DEFINE w == [k \in 1 .. l - i |-> g[i + k - 1]]
            v == [k \in 1 .. l - (i + 1) |-> g[(i + 1) + k - 1]]
<1>. USE TwiAssumption
<1>1. /\ l - i \in Nat /\ l - i >= 1 /\ l - (i + 1) \in Nat
      /\ l - (i + 1) = (l - i) - 1
  OBVIOUS
<1>2. \A k \in 1 .. l - i : i + k - 1 \in 0 .. BufLen - 1 /\ g[i + k - 1] \in S
  OBVIOUS
<1>3. w \in Seq(S) /\ Len(w) = l - i
  BY <1>1, <1>2, SeqDef
<1>4. w # << >>
  BY <1>1, <1>3
<1>5. /\ Tail(w) \in Seq(S) /\ Len(Tail(w)) = Len(w) - 1
      /\ \A k \in 1 .. Len(Tail(w)) : Tail(w)[k] = w[k + 1]
  BY <1>3, <1>4, HeadTailProperties
<1>6. v \in Seq(S) /\ Len(v) = l - (i + 1)
  <2>1. \A k \in 1 .. l - (i + 1) : g[(i + 1) + k - 1] \in S
    OBVIOUS
  <2>. QED BY <1>1, <2>1, SeqDef
<1>7. \A k \in 1 .. l - (i + 1) : w[k + 1] = v[k]
  OBVIOUS
<1>. QED
  <2>1. Len(Tail(w)) = Len(v) /\ Len(v) = l - (i + 1)
    BY <1>1, <1>3, <1>5, <1>6
  <2>2. \A k \in 1 .. Len(Tail(w)) : Tail(w)[k] = v[k]
    BY <1>5, <1>7, <2>1
  <2>3. Tail(w) = v
    BY <1>5, <1>6, <2>1, <2>2, SeqEqual
  <2>. QED BY <1>5, <2>3

RxTypes ==
  /\ rxBuffer \in [0 .. BufLen - 1 -> Byte]
  /\ rxBufferIndex \in 0 .. BufLen /\ rxBufferLength \in 0 .. BufLen
  /\ requested \in Seq(Byte) \cup {None}
  /\ rewound \in BOOLEAN /\ crossed \in BOOLEAN

LEMMA WireRxStep ==
  ASSUME WireInv, [WireNext]_allVars
  PROVE  RxTypes' /\ UnreadInv'
<1>. DEFINE Good == RxTypes /\ UnreadInv
<1>0. BufLen \in 1 .. 255 /\ 0 \in 0 .. BufLen
  BY TwiAssumption
<1>. SUFFICES Good'
  OBVIOUS
<1>. USE DEF RxTypes
<1>1. Good
  BY DEF WireInv, WireTypeOK, ReadInv
<1>2. CASE UNCHANGED rxVars /\ (pc' = "idle" \/ (pc # "idle" /\ call' = call) \/ call'.kind = "W")
  <2>1. UnreadKept'
    BY <1>0, <1>1, <1>2 DEF rxVars, UnreadInv, UnreadKept
  <2>2. (pc' # "idle" /\ call'.kind = "R") => requested' = None
    BY <1>0, <1>1, <1>2 DEF rxVars, UnreadInv
  <2>. QED BY <1>0, <1>1, <1>2, <2>1, <2>2 DEF rxVars, UnreadInv
<1>3. CASE begin
  <2>1. /\ pc' = "idle" /\ rxBufferIndex' = 0 /\ rxBufferLength' = 0
        /\ rxBuffer' = rxBuffer /\ requested' = None /\ UNCHANGED << rewound, crossed >>
    BY <1>3 DEF begin, twi_init, Main, sketch
  <2>. QED BY <1>0, <1>1, <2>1 DEF UnreadInv, UnreadKept
<1>4. CASE read
  <2>1. /\ pc' = "idle" /\ rxBufferIndex < rxBufferLength
        /\ rxBufferIndex' = rxBufferIndex + 1
        /\ requested' = IF requested = None \/ crossed THEN None ELSE Tail(requested)
        /\ UNCHANGED << rxBuffer, rxBufferLength, rewound, crossed >>
    BY <1>4 DEF read, Main, vars, sketch, Unread
  <2>2. CASE requested = None \/ crossed
    BY <1>0, <1>1, <2>1, <2>2 DEF UnreadInv, UnreadKept
  <2>3. CASE requested # None /\ ~crossed
    <3>1. requested = [k \in 1 .. rxBufferLength - rxBufferIndex |->
                         rxBuffer[rxBufferIndex + k - 1]]
      BY <1>0, <1>1, <2>3 DEF UnreadInv, UnreadKept
    <3>2. /\ requested' = [k \in 1 .. rxBufferLength - (rxBufferIndex + 1) |->
                             rxBuffer[(rxBufferIndex + 1) + k - 1]]
          /\ requested' \in Seq(Byte)
      <4>1. /\ rxBuffer \in [0 .. BufLen - 1 -> Byte] /\ rxBufferIndex \in Nat
            /\ rxBufferLength \in 0 .. BufLen /\ rxBufferIndex < rxBufferLength
        BY <1>0, <1>1, <2>1
      <4>2. /\ Tail(requested) = [k \in 1 .. rxBufferLength - (rxBufferIndex + 1) |->
                                    rxBuffer[(rxBufferIndex + 1) + k - 1]]
            /\ Tail(requested) \in Seq(Byte)
        <5>1. /\ Tail([k \in 1 .. rxBufferLength - rxBufferIndex |->
                         rxBuffer[rxBufferIndex + k - 1]])
                  = [k \in 1 .. rxBufferLength - (rxBufferIndex + 1) |->
                         rxBuffer[(rxBufferIndex + 1) + k - 1]]
              /\ Tail([k \in 1 .. rxBufferLength - rxBufferIndex |->
                         rxBuffer[rxBufferIndex + k - 1]]) \in Seq(Byte)
          BY ONLY <4>1, TailOfWindow
        <5>. QED BY ONLY <3>1, <5>1
      <4>. QED BY <2>1, <2>3, <4>2
    <3>3. UnreadKept'
      BY <2>1, <3>2 DEF UnreadKept
    <3>. QED BY <1>0, <1>1, <2>1, <3>2, <3>3 DEF UnreadInv
  <2>. QED BY <2>2, <2>3
<1>5. ASSUME NEW stop \in Stops, NEW quantity \in ReadLengths, requestFrom(quantity, stop)
      PROVE  Good'
  <2>1. /\ requested' = None /\ crossed' = FALSE
        /\ UNCHANGED << rxBuffer, rxBufferIndex, rxBufferLength, rewound >>
    BY <1>5 DEF requestFrom
  <2>. QED BY <1>0, <1>1, <2>1 DEF UnreadInv, UnreadKept
<1>6. CASE RequestCopies
  <2>1. /\ pc = "copy" /\ Len(got) < n /\ pc' = pc /\ call' = call
        /\ rxBuffer' = [rxBuffer EXCEPT ![Len(got)] = mBuf[Len(got)]]
        /\ UNCHANGED << rxBufferIndex, rxBufferLength, rewound, requested, crossed >>
    BY <1>6 DEF RequestCopies, CopyByte, Main
  <2>2. /\ call.kind = "R" /\ Len(got) \in 0 .. BufLen - 1
        /\ mBuf \in [0 .. BufLen - 1 -> Byte]
    <3>1. /\ call.kind = "R" /\ n <= call.len /\ call.len <= BufLen
          /\ got \in Seq(Byte) /\ n \in 0 .. 255 /\ call.len \in Nat
          /\ mBuf \in [0 .. BufLen - 1 -> Byte]
      BY <2>1, CallFields DEF WireInv, TwiInv, TypeOK, CallInv, InCall
    <3>. QED BY <1>0, <2>1, <3>1
  <2>3. requested = None
    BY <2>1, <2>2 DEF WireInv, ReadInv, UnreadInv
  <2>4. rxBuffer' \in [0 .. BufLen - 1 -> Byte]
    BY <1>0, <1>1, <2>1, <2>2
  <2>. QED BY <1>0, <1>1, <2>1, <2>3, <2>4 DEF UnreadInv, UnreadKept
<1>7. CASE RequestReturns
  <2>1. /\ pc' = "idle" /\ rxBufferLength' = ret /\ requested' = got
        /\ pc = "ret" /\ rewound /\ rewound' = FALSE
        /\ UNCHANGED << rxBuffer, rxBufferIndex, crossed >>
    BY <1>7 DEF RequestReturns, Return, Main
  <2>2. /\ call.kind = "R" /\ Len(got) = ret
        /\ ~crossed => \A k \in 1 .. Len(got) : rxBuffer[k - 1] = got[k]
        /\ (~crossed /\ got # << >>) => rxBufferIndex = 0
    BY <2>1 DEF WireInv, ReadInv, GotInv, InRequest
  <2>3. ret \in 0 .. BufLen /\ got \in Seq(Byte)
    BY <1>0, <2>1, <2>2 DEF WireInv, TwiInv, TypeOK, CallInv
  <2>4. UnreadKept'
    <3>1. SUFFICES ASSUME ~crossed
                   PROVE  got = [k \in 1 .. ret - rxBufferIndex |-> rxBuffer[rxBufferIndex + k - 1]]
      BY <2>1 DEF UnreadKept
    <3>2. CASE got = << >>
      <4>1. Len(got) = 0
        BY <3>2
      <4>2. 1 .. ret - rxBufferIndex = {}
        BY <1>0, <1>1, <2>2, <4>1
      <4>. QED BY <3>2, <4>2
    <3>3. CASE got # << >>
      <4>1. rxBufferIndex = 0 /\ \A k \in 1 .. ret : rxBuffer[k - 1] = got[k]
        BY <2>2, <3>1, <3>3
      <4>2. ret - 0 = ret /\ \A k \in 1 .. ret : 0 + k - 1 = k - 1
        BY <2>3
      <4>3. got = [k \in 1 .. ret |-> got[k]]
        BY <2>2, <2>3
      <4>. QED BY <4>1, <4>2, <4>3
    <3>. QED BY <3>2, <3>3
  <2>. QED BY <1>0, <1>1, <2>1, <2>3, <2>4 DEF UnreadInv
<1>8. CASE Received
  <2>1. UNCHANGED << pc, call >> /\ onReceiveService
    BY <1>8 DEF Received, IsrSlaveStop, sketch
  <2>2. CASE UNCHANGED rxVars
    <3>1. pc' = "idle" \/ (pc # "idle" /\ call' = call)
      BY <2>1
    <3>. QED BY <1>2, <2>2, <3>1
  <2>3. CASE Listening /\ ~RxInUse
    <3>1. /\ ~(rxBufferIndex < rxBufferLength)
          /\ \/ UNCHANGED rxVars
             \/ /\ rxBuffer' = [k \in 0 .. BufLen - 1 |->
                                  IF k < Len(rxBuf) THEN rxBuf[k + 1] ELSE rxBuffer[k]]
                /\ rxBufferIndex' \in 0 .. Len(rxBuf)
                /\ rxBufferLength' = Len(rxBuf)
                /\ requested' = IF requested = << >> THEN None ELSE requested
                /\ crossed => crossed'
                /\ rewound' = rewound /\ crossed' \in BOOLEAN
      BY <2>1, <2>3 DEF onReceiveService, RxInUse, Unread
    <3>2. rxBuf \in Seq(Byte) /\ Len(rxBuf) <= BufLen
      BY DEF WireInv, TwiInv, TypeOK
    <3>3. SUFFICES ASSUME ~UNCHANGED rxVars PROVE Good'
      BY <2>2
    <3>4. requested # None /\ ~crossed => requested = << >>
      <4>1. rxBufferLength - rxBufferIndex \in Int /\ ~(1 <= rxBufferLength - rxBufferIndex)
        BY <1>0, <1>1, <3>1
      <4>2. 1 .. rxBufferLength - rxBufferIndex = {}
        BY <4>1
      <4>3. requested # None /\ ~crossed => requested = [k \in {} |-> rxBuffer[rxBufferIndex + k - 1]]
        BY <1>0, <1>1, <4>2 DEF UnreadInv, UnreadKept
      <4>. QED BY <4>3
    <3>5. \/ requested' = None
          \/ crossed' /\ requested' = requested
      BY <3>1, <3>3, <3>4
    <3>6. rxBuffer' \in [0 .. BufLen - 1 -> Byte]
      <4>1. \A k \in 0 .. BufLen - 1 :
              (IF k < Len(rxBuf) THEN rxBuf[k + 1] ELSE rxBuffer[k]) \in Byte
        BY <1>0, <1>1, <3>2
      <4>. QED BY <3>1, <3>3, <4>1
    <3>7. rxBufferIndex' \in 0 .. BufLen /\ rxBufferLength' \in 0 .. BufLen
      BY <1>0, <3>1, <3>2, <3>3
    <3>8. ((pc # "idle" /\ call.kind = "R") => requested' = None)
      BY <1>1, <3>1, <3>3, <3>4, <3>5 DEF UnreadInv
    <3>. QED BY <1>1, <2>1, <3>1, <3>3, <3>5, <3>6, <3>7, <3>8 DEF UnreadInv, UnreadKept
  <2>. QED BY <2>1, <2>2, <2>3 DEF onReceiveService
<1>9. CASE UNCHANGED allVars
  <2>1. UNCHANGED rxVars /\ (pc' = "idle" \/ (pc # "idle" /\ call' = call))
    BY <1>9 DEF allVars, wireVars, vars, sketch
  <2>. QED BY <1>2, <2>1
<1>10. CASE end \/ beginTransmission \/ (\E b : write(b)) \/ (\E stop : endTransmission(stop))
  <2>1. /\ UNCHANGED rxVars
        /\ pc' = "idle" \/ call'.kind = "W"
    BY <1>10 DEF end, twi_disable, beginTransmission, write, endTransmission, twi_writeTo,
       Call, WriteCall, Main, sketch, vars, wireVars
  <2>. QED BY <1>2, <2>1
<1>11. CASE EndTransmissionCopies \/ EndTransmissionReturns \/ RequestSetsUp
  <2>1. UNCHANGED rxVars /\ (pc' = "idle" \/ (pc # "idle" /\ call' = call))
    BY <1>11 DEF EndTransmissionCopies, EndTransmissionReturns, RequestSetsUp, Setup,
       Return, Main, wireVars
  <2>. QED BY <1>2, <2>1
<1>12. CASE (PlainSteps \/ PlainHandlers \/ Bus) /\ UNCHANGED wireVars
  <2>1. call' = call /\ (pc' = pc \/ pc # "idle")
    BY <1>12 DEF PlainSteps, Wait, Claim, Start, RepeatedStart, Poll, Result, Copied,
       PlainHandlers, IsrStart, IsrMasterSends, IsrRefused, IsrArbitrationLost,
       IsrMasterReceives, IsrMasterReceivesLast, IsrMasterReadRefused, IsrSlaveAddressed,
       IsrSlaveReceives, IsrSlaveRefuses, IsrSlaveSends, IsrSlaveSentAll,
       Bus, StartSent, AddressSent, DataSent, Addressed, ForeignStops,
       BusError, DataReceived, ForeignWrites, ForeignReads, Main, sketch
  <2>2. UNCHANGED rxVars
    BY <1>12 DEF wireVars
  <2>. QED BY <1>2, <2>1, <2>2
<1>13. CASE Requested
  <2>1. UNCHANGED rxVars /\ UNCHANGED << pc, call >>
    BY <1>13 DEF Requested, onRequestService, IsrSlaveRequested, sketch
  <2>. QED BY <1>2, <2>1
<1>14. CASE RequestRewinds
  <2>1. /\ UNCHANGED << pc, call, rxBuffer, rxBufferLength, requested, crossed >>
        /\ pc = "ret" /\ call.kind = "R" /\ rxBufferIndex' = 0 /\ rewound' = TRUE
    BY <1>14 DEF RequestRewinds, Main, vars, sketch
  <2>2. requested = None
    BY <1>1, <2>1 DEF UnreadInv
  <2>. QED BY <1>0, <1>1, <2>1, <2>2 DEF UnreadInv, UnreadKept
<1>. QED BY <1>3, <1>4, <1>5, <1>6, <1>7, <1>8, <1>9, <1>10, <1>11, <1>12, <1>13, <1>14
     DEF WireNext, WireCalls, WireSteps, WireHandlers

(* What requestFrom() has copied: by action. *)
LEMMA GotStep ==
  ASSUME WireInv, TwiInv', [WireNext]_allVars
  PROVE  GotInv'
<1>0. GotInv /\ BufLen \in 1 .. 255
  BY TwiAssumption DEF WireInv, ReadInv
<1>1. CASE UNCHANGED << rxBuffer, rxBufferIndex, rewound, crossed, pc, call, got, ret >>
  BY <1>0, <1>1 DEF GotInv, InRequest
<1>2. ASSUME pc' \notin { "copy", "ret" } \/ call'.kind # "R", rewound' = FALSE PROVE GotInv'
  BY <1>2 DEF GotInv, InRequest
<1>3. pc # "ret" => rewound = FALSE
  BY <1>0 DEF GotInv, WireInv, WireTypeOK
<1>4. CASE begin \/ end \/ read \/ beginTransmission \/ (\E b : write(b))
  <2>1. pc' = "idle" /\ pc = "idle" /\ rewound' = rewound
    BY <1>4 DEF begin, end, read, beginTransmission, write, twi_init, twi_disable, Main, vars, sketch,
       wireVars, rxVars
  <2>. QED BY <1>2, <1>3, <2>1
<1>5. ASSUME NEW stop, endTransmission(stop) PROVE GotInv'
  <2>1. pc = "idle" /\ call'.kind = "W" /\ rewound' = rewound
    BY <1>5 DEF endTransmission, twi_writeTo, Call, WriteCall, Main, wireVars, rxVars
  <2>. QED BY <1>2, <1>3, <2>1
<1>6. ASSUME NEW quantity, NEW stop, requestFrom(quantity, stop) PROVE GotInv'
  <2>1. /\ pc = "idle" /\ pc' \in { "wait", "ret" } /\ rewound' = rewound /\ got' = got
        /\ pc' = "ret" => ret' = 0
    BY <1>6 DEF requestFrom, twi_readFrom, Call, Main
  <2>2. got = << >>
    BY <2>1 DEF WireInv, TwiInv, CallInv
  <2>3. Len(got) = 0 /\ 1 .. Len(got) = {}
    BY <2>2
  <2>. QED BY <1>3, <2>1, <2>2, <2>3 DEF GotInv, InRequest
<1>7. CASE EndTransmissionCopies \/ RequestSetsUp
  <2>1. pc = "setup" /\ pc' \in { "rep", "start" } /\ rewound' = rewound
    BY <1>7 DEF EndTransmissionCopies, RequestSetsUp, Setup, Main, wireVars, rxVars
  <2>. QED BY <1>2, <1>3, <2>1
<1>8. CASE EndTransmissionReturns
  <2>1. pc' = "idle" /\ call.kind = "W" /\ rewound' = rewound
    BY <1>8 DEF EndTransmissionReturns, Return, rxVars
  <2>2. rewound = FALSE
    BY <1>0, <2>1 DEF GotInv, WireInv, WireTypeOK
  <2>. QED BY <1>2, <2>1, <2>2
<1>9. CASE RequestReturns
  <2>1. pc' = "idle" /\ rewound' = FALSE
    BY <1>9 DEF RequestReturns, Return
  <2>. QED BY <1>2, <2>1
<1>10. CASE RequestRewinds
  <2>1. /\ UNCHANGED << rxBuffer, pc, call, got, ret, crossed >>
        /\ pc = "ret" /\ call.kind = "R" /\ rxBufferIndex' = 0
    BY <1>10 DEF RequestRewinds, Main, vars, sketch
  <2>. QED BY <1>0, <2>1 DEF GotInv, InRequest
<1>11. CASE RequestCopies
  <2>1. /\ pc = "copy" /\ pc' = pc /\ call' = call /\ Len(got) < n
        /\ got' = Append(got, mBuf[Len(got)])
        /\ rxBuffer' = [rxBuffer EXCEPT ![Len(got)] = mBuf[Len(got)]]
        /\ UNCHANGED << rewound, crossed >>
    BY <1>11 DEF RequestCopies, CopyByte, Main
  <2>2. /\ Len(got) \in 0 .. BufLen - 1 /\ got \in Seq(Byte)
        /\ rxBuffer \in [0 .. BufLen - 1 -> Byte]
    <3>1. /\ call.kind = "R" /\ n <= call.len /\ call.len <= BufLen
          /\ got \in Seq(Byte) /\ n \in 0 .. 255 /\ call.len \in Nat
      BY <2>1, CallFields DEF WireInv, TwiInv, TypeOK, CallInv, InCall
    <3>. QED BY <1>0, <2>1, <3>1 DEF WireInv, WireTypeOK
  <2>3. Len(got') = Len(got) + 1 /\ got'[Len(got) + 1] = mBuf[Len(got)]
        /\ \A k \in 1 .. Len(got) : got'[k] = got[k]
    BY <2>1, <2>2, AppendProperties
  <2>4. ASSUME ~crossed, InRequest, NEW k \in 1 .. Len(got) + 1
        PROVE  rxBuffer'[k - 1] = got'[k]
    <3>1. CASE k = Len(got) + 1
      BY <2>1, <2>2, <2>3, <3>1
    <3>2. CASE k # Len(got) + 1
      <4>1. k \in 1 .. Len(got) /\ k - 1 \in 0 .. BufLen - 1 /\ k - 1 # Len(got)
        <5>1. \A l \in 0 .. BufLen - 1 : \A j \in 1 .. l + 1 :
                 j # l + 1 => j \in 1 .. l /\ j - 1 \in 0 .. BufLen - 1 /\ j - 1 # l
          BY ONLY <1>0
        <5>. QED BY ONLY <2>2, <2>4, <3>2, <5>1
      <4>2. rxBuffer[k - 1] = got[k]
        BY <1>0, <2>4, <4>1 DEF GotInv
      <4>. QED BY <2>1, <2>2, <2>3, <4>1, <4>2
    <3>. QED BY <3>1, <3>2
  <2>5. rewound = FALSE /\ (InRequest' <=> InRequest)
    BY <1>3, <2>1 DEF InRequest
  <2>. QED BY <2>1, <2>3, <2>4, <2>5 DEF GotInv
<1>12. CASE PlainSteps /\ UNCHANGED wireVars
  <2>1. UNCHANGED << rxBuffer, rxBufferIndex, rewound, crossed, call, got >> /\ pc # "ret"
    BY <1>12 DEF PlainSteps, Wait, Claim, Start, RepeatedStart, Poll, Result, Copied, Main, wireVars, rxVars
  <2>2. CASE Copied
    <3>1. pc' = "ret" /\ ret' = n /\ Len(got) = n /\ pc = "copy"
      BY <2>2 DEF Copied, Main
    <3>. QED BY <1>0, <1>3, <2>1, <3>1 DEF GotInv, InRequest
  <2>3. CASE Result /\ call.kind = "R"
    <3>1. pc' = "copy" /\ pc = "result"
      BY <2>3 DEF Result, Main
    <3>2. got = << >>
      BY <3>1 DEF WireInv, TwiInv, CallInv
    <3>3. 1 .. Len(got) = {}
      BY <3>2
    <3>. QED BY <1>3, <2>1, <3>1, <3>3 DEF GotInv, InRequest
  <2>4. CASE call.kind # "R" \/ ~(Copied \/ Result)
    <3>1. pc' \notin { "copy", "ret" } \/ call'.kind # "R"
      BY <1>12, <2>1, <2>4 DEF PlainSteps, Wait, Claim, Start, RepeatedStart, Poll
    <3>. QED BY <1>2, <1>3, <2>1, <3>1
  <2>. QED BY <2>2, <2>3, <2>4
<1>13. CASE (PlainHandlers \/ Bus) /\ UNCHANGED wireVars
  <2>1. UNCHANGED sketch
    BY <1>13 DEF PlainHandlers, IsrStart, IsrMasterSends, IsrRefused, IsrArbitrationLost,
       IsrMasterReceives, IsrMasterReceivesLast, IsrMasterReadRefused, IsrSlaveAddressed,
       IsrSlaveReceives, IsrSlaveRefuses, IsrSlaveSends, IsrSlaveSentAll,
       Bus, StartSent, AddressSent, DataSent, Addressed, ForeignStops,
       BusError, DataReceived, ForeignWrites, ForeignReads
  <2>. QED BY <1>1, <1>13, <2>1 DEF sketch, wireVars, rxVars
<1>14. CASE Requested
  <2>1. UNCHANGED << sketch, rxVars >>
    BY <1>14 DEF Requested, onRequestService, IsrSlaveRequested
  <2>. QED BY <1>1, <2>1 DEF sketch, rxVars
<1>15. CASE Received
  <2>1. UNCHANGED << pc, call, got, ret >> /\ onReceiveService
    BY <1>15 DEF Received, IsrSlaveStop, sketch
  <2>2. CASE UNCHANGED rxVars
    BY <1>1, <2>1, <2>2 DEF rxVars
  <2>3. CASE ~UNCHANGED rxVars
    <3>1. /\ rxBuffer' = [k \in 0 .. BufLen - 1 |->
                            IF k < Len(rxBuf) THEN rxBuf[k + 1] ELSE rxBuffer[k]]
          /\ rxBufferIndex' \in 0 .. Len(rxBuf) /\ rewound' = rewound
          /\ crossed' = (crossed \/ (call.kind = "R" /\ got # << >> /\ rxBuf # << >>))
      BY <2>1, <2>3 DEF onReceiveService
    <3>2. CASE got = << >>
      <4>1. 1 .. Len(got) = {}
        BY <3>2
      <4>. QED BY <1>0, <2>1, <3>1, <3>2, <4>1 DEF GotInv, InRequest
    <3>3. CASE rxBuf = << >>
      <4>1. Len(rxBuf) = 0
        BY <3>3
      <4>2. rxBufferIndex' = 0 /\ rxBuffer' = rxBuffer
        <5>1. \A k \in 0 .. BufLen - 1 : ~(k < Len(rxBuf))
          BY <4>1
        <5>. QED BY <3>1, <4>1, <5>1 DEF WireInv, WireTypeOK
      <4>. QED BY <1>0, <2>1, <3>1, <3>3, <4>2 DEF GotInv, InRequest
    <3>4. CASE got # << >> /\ rxBuf # << >>
      <4>1. crossed' = TRUE \/ call.kind # "R"
        BY <3>1, <3>4 DEF WireInv, WireTypeOK
      <4>. QED BY <1>0, <2>1, <3>1, <4>1 DEF GotInv, InRequest
    <3>. QED BY <3>2, <3>3, <3>4
  <2>. QED BY <2>2, <2>3
<1>16. CASE UNCHANGED allVars
  BY <1>1, <1>16 DEF allVars, vars, sketch, wireVars, rxVars
<1>. QED BY <1>4, <1>5, <1>6, <1>7, <1>8, <1>9, <1>10, <1>11, <1>12, <1>13, <1>14, <1>15, <1>16
     DEF WireNext, WireCalls, WireSteps, WireHandlers

TxTypes ==
  /\ txBuffer \in Seq(Byte) /\ Len(txBuffer) <= BufLen
  /\ transmitting \in BOOLEAN
  /\ accepted \in Seq(Byte)

LEMMA WireTxStep ==
  ASSUME WireInv, [WireNext]_allVars
  PROVE  TxTypes'
<1>1. /\ txBuffer \in Seq(Byte) /\ Len(txBuffer) <= BufLen
      /\ transmitting \in BOOLEAN /\ accepted \in Seq(Byte)
  BY DEF WireInv, WireTypeOK
<1>2. << >> \in Seq(Byte) /\ Len(<< >>) <= BufLen /\ BufLen \in Nat
  BY TwiAssumption
<1>3. CASE UNCHANGED txVars
  BY <1>1, <1>3 DEF txVars, TxTypes
<1>4. CASE begin \/ beginTransmission
  <2>1. txBuffer' = << >> /\ accepted' = << >> /\ transmitting' \in {transmitting, TRUE}
    BY <1>4 DEF begin, beginTransmission
  <2>. QED BY <1>1, <1>2, <2>1 DEF TxTypes
<1>5. ASSUME NEW m \in Messages, NEW k \in DOMAIN m, write(m[k]) PROVE TxTypes'
  <2>1. m[k] \in Byte
    BY TwiAssumption
  <2>2. Append(txBuffer, m[k]) \in Seq(Byte) /\ Append(accepted, m[k]) \in Seq(Byte)
    BY <1>1, <2>1
  <2>3. CASE TxHasRoom
    <3>1. /\ txBuffer' = Append(txBuffer, m[k]) /\ accepted' = Append(accepted, m[k])
          /\ transmitting' = transmitting /\ Len(txBuffer) < BufLen
      BY <1>5, <2>3 DEF write, TxHasRoom
    <3>2. Len(txBuffer') <= BufLen
      BY <1>1, <1>2, <3>1
    <3>. QED BY <1>1, <2>2, <3>1, <3>2 DEF TxTypes
  <2>4. CASE ~TxHasRoom
    BY <1>3, <1>5, <2>4 DEF write, txVars
  <2>. QED BY <2>3, <2>4
<1>6. CASE EndTransmissionReturns
  <2>1. txBuffer' = << >> /\ accepted' = accepted /\ transmitting' = FALSE
    BY <1>6 DEF EndTransmissionReturns
  <2>. QED BY <1>1, <1>2, <2>1 DEF TxTypes
<1>7. ASSUME NEW reply \in Replies, onRequestService(reply) PROVE TxTypes'
  <2>1. CASE UNCHANGED txVars
    BY <1>3, <2>1
  <2>2. CASE txBuffer' = << >> /\ UNCHANGED << transmitting, accepted >>
    BY <1>1, <1>2, <2>2 DEF TxTypes
  <2>3. ASSUME txBuffer' = SubSeq(reply, 1, IF Len(reply) < BufLen THEN Len(reply) ELSE BufLen),
               accepted' = txBuffer', transmitting' = transmitting
        PROVE  TxTypes'
    <3>. DEFINE l == IF Len(reply) < BufLen THEN Len(reply) ELSE BufLen
    <3>1. reply \in Seq(Byte) /\ Len(reply) \in Nat
      BY TwiAssumption
    <3>2. l \in Nat /\ l <= Len(reply) /\ l <= BufLen
      BY <1>2, <3>1
    <3>3. SubSeq(reply, 1, l) \in Seq(Byte) /\ Len(SubSeq(reply, 1, l)) = l
      BY <3>1, <3>2, SubSeqProperties
    <3>. QED BY <1>1, <2>3, <3>2, <3>3 DEF TxTypes
  <2>. QED BY <1>7, <2>1, <2>2, <2>3 DEF onRequestService
<1>8. CASE UNCHANGED allVars
  BY <1>3, <1>8 DEF allVars, wireVars
<1>9. CASE end \/ read \/ (\E stop : endTransmission(stop))
           \/ \E quantity, stop : requestFrom(quantity, stop)
  BY <1>3, <1>9 DEF end, read, endTransmission, requestFrom, wireVars
<1>10. CASE EndTransmissionCopies \/ RequestSetsUp \/ RequestCopies \/ RequestRewinds \/ RequestReturns
            \/ Received
  BY <1>3, <1>10 DEF EndTransmissionCopies, RequestSetsUp, RequestCopies, RequestRewinds, RequestReturns,
     Received, wireVars
<1>11. CASE UNCHANGED wireVars
  BY <1>3, <1>11 DEF wireVars
<1>. QED BY <1>4, <1>5, <1>6, <1>7, <1>8, <1>9, <1>10, <1>11
     DEF WireNext, WireCalls, WireSteps, WireHandlers, Requested

LEMMA WireStep ==
  ASSUME AsksForBytes, WireInv, [WireNext]_allVars
  PROVE  WireInv'
<1>1. TwiAction
  BY WireIsTwi DEF WireInv
<1>2. TwiInv'
  BY <1>1, TwiStep DEF WireInv
<1>3. RxTypes' /\ ReadInv' /\ TxTypes'
  BY <1>2, WireRxStep, GotStep, WireTxStep DEF ReadInv
<1>4. WireTypeOK'
  BY <1>2, <1>3 DEF TwiInv, WireTypeOK, RxTypes, TxTypes
<1>. QED BY <1>2, <1>3, <1>4 DEF WireInv

LEMMA WireStart == WireInit => WireInv /\ HeardInv /\ SpokenInv /\ StateInv
<1>. SUFFICES ASSUME WireInit PROVE WireInv /\ HeardInv /\ SpokenInv /\ StateInv
  OBVIOUS
<1>1. TwiInv
  BY TwiInit DEF WireInit
<1>2. WireTypeOK
  <2>1. << >> \in Seq(Byte) /\ Len(<< >>) = 0 /\ BufLen \in Nat /\ 0 \in 0 .. BufLen
    BY TwiAssumption
  <2>2. rxBuffer \in [0 .. BufLen - 1 -> Byte]
    BY TwiAssumption DEF WireInit
  <2>3. RxTypes /\ TxTypes
    <3>1. RxTypes
      BY <2>1, <2>2 DEF WireInit, RxTypes
    <3>2. txBuffer = << >> /\ accepted = << >> /\ transmitting = FALSE
      BY DEF WireInit
    <3>3. Len(txBuffer) <= BufLen /\ txBuffer \in Seq(Byte) /\ accepted \in Seq(Byte)
      <4>1. 0 <= BufLen
        BY <2>1
      <4>. QED BY ONLY <2>1, <3>2, <4>1
    <3>4. TxTypes
      BY <3>2, <3>3 DEF TxTypes
    <3>. QED BY <3>1, <3>4
  <2>. QED BY <1>1, <2>3 DEF TwiInv, WireTypeOK, RxTypes, TxTypes
<1>3. ReadInv
  BY DEF WireInit, Init, ReadInv, UnreadInv, GotInv, InRequest, UnreadKept
<1>4. HeardInv /\ SpokenInv /\ StateInv
  BY TwiAssumption DEF WireInit, Init, HeardInv, SpokenInv, StateInv, SlaveSpeaks, Status
<1>. QED BY <1>1, <1>2, <1>3, <1>4 DEF WireInv

LEMMA NodeStep ==
  ASSUME AsksForBytes, WireInv, HeardInv, SpokenInv, StateInv, [WireNext]_allVars
  PROVE  HeardInv' /\ SpokenInv' /\ StateInv'
<1>1. TwiInv /\ TwiAction
  BY WireIsTwi DEF WireInv
<1>. QED BY <1>1, HeardStep, SpokenStep, StateStep

LEMMA WireInvariant ==
  AsksForBytes /\ WireSpec => [](WireInv /\ HeardInv /\ SpokenInv /\ StateInv)
<1>. DEFINE Inv == WireInv /\ HeardInv /\ SpokenInv /\ StateInv
<1>1. AsksForBytes => AsksForBytes'
  BY DEF AsksForBytes
<1>2. AsksForBytes /\ Inv /\ [WireNext]_allVars => Inv'
  BY WireStep, NodeStep
<1>. QED BY <1>1, <1>2, WireStart, PTL DEF WireSpec

(* Every variable of the object and its driver keeps its type: no index    *)
(* leaves its buffer, also when other masters talk to the node while the   *)
(* sketch is inside a call of its own.                                     *)
THEOREM WireIsTyped == AsksForBytes /\ WireSpec => []WireTypeOK
<1>1. WireInv => WireTypeOK
  BY DEF WireInv
<1>. QED BY <1>1, WireInvariant, PTL

(* The bytes of a requestFrom() are there until they are read, each once   *)
(* and in order: onReceiveService leaves a buffer with unread bytes alone. *)
THEOREM WhatWasRequestedStays == AsksForBytes /\ WireSpec => []UnreadKept
<1>1. WireInv => UnreadKept
  BY DEF WireInv, ReadInv, UnreadInv
<1>. QED BY <1>1, WireInvariant, PTL

(* What another master sent is what onReceive gets, and what onRequest     *)
(* answered is what the other master reads, for every pattern of refused   *)
(* bytes, lost arbitrations and broken transactions.                       *)
THEOREM SlaveSideIsFaithful == AsksForBytes /\ WireSpec => []SlaveDialogSound
<1>1. HeardInv => SlavePrefix
  BY DEF HeardInv, SlavePrefix, Taken, IsPrefixOf
<1>2. HeardInv /\ SpokenInv => SlaveDialogSound
  BY <1>1 DEF SpokenInv, SlaveDialogSound
<1>. QED BY <1>2, WireInvariant, PTL

(* Between two messages of other masters the driver stands where the bus   *)
(* does and answers to its address, unless the last message did not fit.   *)
THEOREM NodeComesBack == AsksForBytes /\ WireSpec => []NodeIsReady
<1>1. pc = "idle" => ~Claimed
  BY DEF Claimed
<1>2. StateInv => NodeIsReady
  BY <1>1 DEF StateInv, NodeIsReady, Listens, StateFollowsBus
<1>. QED BY <1>2, WireInvariant, PTL

-----------------------------------------------------------------------------
(* A bus of one master: what a call reports is what happened.  With other  *)
(* masters it is not so, and TLC shows it: the wait for the driver and its *)
(* claim are two accesses, and the node may be addressed between them.     *)

QuietInv ==
  /\ phase \notin { "sr", "st" }
  /\ status \notin { "SR_SLA_ACK", "SR_DATA_ACK", "SR_DATA_NACK", "SR_STOP",
                     "ST_SLA_ACK", "ST_DATA_ACK", "ST_DATA_NACK", "ST_LAST_DATA" }

(* The call has the bus, or waits for it. *)
Busy == pc = "poll" /\ state = Own

HeldStart == ~twie /\ \/ phase = "rep" /\ status = None
                      \/ phase = "addr" /\ status = "START"
FreeBus   == phase = "none" /\ status = None /\ ~twsta
Closed    == phase = "off" /\ status = None /\ ~twie /\ ~twsta

(* Between two transactions the bus is free or held by a repeated START.   *)
RestInv ==
  /\ pc = "start" => state = Own /\ FreeBus /\ ~inRepStart
  /\ pc = "rep" => state = Own /\ HeldStart /\ ~inRepStart
  /\ pc = "setup" => state = Own
  /\ (pc = "poll" /\ ~Busy) => state = "READY"
  /\ pc \notin { "setup", "start", "rep", "poll" } => state = "READY"
  /\ (pc \notin { "start", "rep" } /\ ~Busy) =>
       \/ Closed /\ pc = "idle"
       \/ inRepStart /\ HeldStart
       \/ ~inRepStart /\ FreeBus

BusyInv ==
  Busy =>
    /\ twie /\ ~inRepStart
    /\ \/ phase = "none" /\ (status = None \/ status = "ARB_LOST")
       \/ phase \in MasterPhase
    /\ (phase = "addr" /\ status = None) => twdr = slarw
    /\ (phase = "addr" \/ (phase = "none" /\ status = None)) => dialog = << >> /\ mIdx = 0

(* What the call has set up for the handler. *)
SetInv ==
  /\ pc \in { "wait", "claim", "setup", "start", "rep" } => dialog = << >>
  /\ pc \in { "start", "rep" } => mIdx = 0
  /\ (pc \in { "start", "rep" } \/ Busy) =>
       /\ slarw = call.kind /\ error = None
       /\ call.kind = "W" => /\ mLen = call.len
                             /\ \A k \in 1 .. call.len : mBuf[k - 1] = call.data[k]
       /\ call.kind = "R" => mLen = call.len - 1

(* Of the bytes to send the first mIdx have been given to the hardware, and *)
(* all but the one under way are acknowledged.                              *)
SentInv ==
  (Busy /\ call.kind = "W") =>
    /\ phase # "mr" /\ status # "MR_SLA_NACK"
    /\ phase = "mt" =>
         /\ mIdx <= mLen
         /\ IsPrefixOf(dialog, call.data)
         /\ status \in { "MT_SLA_ACK", "MT_DATA_ACK" } => Len(dialog) = mIdx
         /\ status = None => Len(dialog) + 1 = mIdx /\ twdr = call.data[mIdx]

(* The bytes received are in the buffer, but for the one just come. *)
Stored ==
  /\ mIdx <= Len(dialog)
  /\ \A k \in 1 .. mIdx : mBuf[k - 1] = dialog[k]

ReceivedInv ==
  (Busy /\ call.kind = "R") =>
    /\ phase # "mt"
    /\ phase # "mr" => dialog = << >> /\ mIdx = 0
    /\ phase = "mr" =>
         /\ mIdx <= mLen /\ Stored
         /\ status = "MR_SLA_ACK" => dialog = << >>
         /\ status = None => Len(dialog) = mIdx /\ twea = (mIdx < mLen)
         /\ status \in { "MR_DATA_ACK", "MR_DATA_NACK" } =>
              Len(dialog) = mIdx + 1 /\ dialog[mIdx + 1] = twdr
         /\ status = "MR_DATA_ACK" => mIdx < mLen

DoneInv ==
  /\ (pc = "result" \/ (pc = "poll" /\ ~Busy)) =>
       /\ (call.kind = "W" /\ error = None) => dialog = call.data
       /\ call.kind = "R" => Stored /\ mIdx <= BufLen
  /\ pc = "copy" => Stored /\ n <= mIdx
  /\ (pc = "ret" /\ call.kind = "W" /\ ret = 0) => dialog = call.data

MasterInv ==
  QuietInv /\ RestInv /\ BusyInv /\ SetInv /\ SentInv /\ ReceivedInv /\ DoneInv

(* The bus gives this node a status only while a call has it, or a START.  *)
LEMMA BusWhen ==
  ASSUME TwiInv, MasterInv, ~OtherMasters, Bus
  PROVE  /\ status = None /\ status' # None
         /\ UNCHANGED << state, slarw, sendStop, inRepStart, error, mBuf, mIdx, mLen,
                         twea, twie, twsta, pc, call, got, n, ret >>
         /\ \/ Busy /\ pc \notin { "start", "rep" }
            \/ /\ ~Busy /\ phase = "rep" /\ phase' = "addr" /\ status' = "START"
               /\ dialog' = dialog /\ ~twie
<1>. USE TwiAssumption
<1>1. status = None /\ status' # None
  BY DEF Bus, StartSent, AddressSent, DataSent, Addressed, ForeignStops,
     BusError, DataReceived, ForeignWrites, ForeignReads, Raise, Status
<1>2. UNCHANGED << state, slarw, sendStop, inRepStart, error, mBuf, mIdx, mLen,
                   twea, twie, twsta, pc, call, got, n, ret >>
  BY DEF Bus, StartSent, AddressSent, DataSent, Addressed, ForeignStops,
     BusError, DataReceived, ForeignWrites, ForeignReads, driver, twcr, sketch
<1>3. CASE Busy
  BY <1>1, <1>2, <1>3 DEF Busy
<1>4. CASE ~Busy
  <2>1. \/ phase \in { "off", "none" } /\ ~twsta
        \/ HeldStart
    BY <1>1, <1>4 DEF MasterInv, RestInv, FreeBus, Closed
  <2>2. CASE phase \in { "off", "none" } /\ ~twsta
    BY <2>2 DEF Bus, StartSent, AddressSent, DataSent, Addressed, ForeignStops,
       BusError, DataReceived, ForeignWrites, ForeignReads, MasterPhase
  <2>3. CASE phase = "rep" /\ ~twie
    <3>1. StartSent
      BY <2>3 DEF Bus, AddressSent, DataSent, Addressed, ForeignStops,
         BusError, DataReceived, ForeignWrites, ForeignReads, MasterPhase
    <3>. QED BY <1>1, <1>2, <1>4, <2>3, <3>1 DEF StartSent, Raise, asMaster
  <2>. QED BY <1>1, <2>1, <2>2, <2>3, <1>2 DEF HeldStart, Status
<1>. QED BY <1>3, <1>4

LEMMA MasterBusIdle ==
  ASSUME TwiInv, MasterInv, ~OtherMasters, Bus, ~Busy
  PROVE  MasterInv'
<1>1. /\ status = None /\ phase = "rep" /\ phase' = "addr" /\ status' = "START"
      /\ dialog' = dialog /\ ~twie
      /\ UNCHANGED << state, slarw, sendStop, inRepStart, error, mBuf, mIdx, mLen,
                      twea, twie, twsta, pc, call, got, n, ret >>
  BY BusWhen
<1>2. ~Busy' /\ (Stored' <=> Stored)
  BY <1>1 DEF Busy, Own, Stored
<1>3. QuietInv'
  BY <1>1 DEF QuietInv
<1>4. RestInv'
  BY <1>1, <1>2 DEF MasterInv, RestInv, HeldStart, FreeBus, Closed, Own
<1>5. SetInv' /\ BusyInv' /\ SentInv' /\ ReceivedInv'
  BY <1>1, <1>2 DEF MasterInv, SetInv, BusyInv, SentInv, ReceivedInv
<1>6. DoneInv'
  BY <1>1, <1>2 DEF MasterInv, DoneInv
<1>. QED BY <1>3, <1>4, <1>5, <1>6 DEF MasterInv

LEMMA MasterBusBusy ==
  ASSUME TwiInv, MasterInv, ~OtherMasters, Bus, Busy
  PROVE  MasterInv'
<1>1. /\ status = None /\ status' # None
      /\ UNCHANGED << state, slarw, sendStop, inRepStart, error, mBuf, mIdx, mLen,
                      twea, twie, twsta, pc, call, got, n, ret >>
  BY BusWhen
<1>2. pc = "poll" /\ Busy'
  BY <1>1 DEF Busy, Own
<1>3. RestInv' /\ SetInv' /\ DoneInv'
  BY <1>1, <1>2 DEF MasterInv, RestInv, SetInv, DoneInv, Own
<1>4. /\ call.kind \in { "R", "W" } /\ call.data \in Seq(Byte)
      /\ call.len \in Nat
      /\ call.kind = "W" => call.len = Len(call.data)
      /\ call.kind = "R" => call.len >= 1
  BY <1>2, CallFields DEF TwiInv, CallInv, InCall
<1>5. /\ dialog \in Seq(Byte) /\ mIdx \in Nat /\ mLen \in Nat
  BY DEF TwiInv, TypeOK
<1>6. /\ slarw = call.kind
      /\ call.kind = "W" => mLen = call.len
  BY DEF MasterInv, SetInv
<1>7. /\ twie /\ ~inRepStart
      /\ phase = "none" \/ phase \in MasterPhase
      /\ phase = "addr" => twdr = slarw
      /\ phase \in { "addr", "none" } => dialog = << >> /\ mIdx = 0
  BY <1>1 DEF MasterInv, BusyInv
<1>. DEFINE Sound == BusyInv /\ QuietInv /\ SentInv /\ ReceivedInv
<1>. SUFFICES Sound'
  BY <1>3 DEF MasterInv
<1>8. CASE StartSent
  <2>1. /\ phase \in { "none", "rep" } /\ phase' = "addr" /\ status' = "START"
        /\ dialog' = dialog
    BY <1>8 DEF StartSent, Raise, asMaster
  <2>2. phase = "none"
    BY <1>7, <2>1 DEF MasterPhase
  <2>3. BusyInv' /\ QuietInv'
    BY <1>1, <1>7, <2>1, <2>2 DEF BusyInv, QuietInv, MasterPhase
  <2>4. SentInv' /\ ReceivedInv'
    BY <1>1, <1>7, <2>1, <2>2 DEF SentInv, ReceivedInv
  <2>. QED BY <2>3, <2>4
<1>9. CASE AddressSent
  <2>1. /\ phase = "addr" /\ dialog' = dialog /\ twdr' = twdr
        /\ \/ status' = "MR_SLA_ACK" /\ phase' = "mr" /\ twdr = "R"
           \/ status' = "MT_SLA_ACK" /\ phase' = "mt" /\ twdr # "R"
           \/ status' = "MR_SLA_NACK" /\ phase' = "addr" /\ twdr = "R"
           \/ status' = "MT_SLA_NACK" /\ phase' = "addr" /\ twdr # "R"
           \/ status' = "ARB_LOST" /\ phase' = "none"
    BY <1>9 DEF AddressSent, Raise
  <2>2. twdr = call.kind /\ dialog' = << >> /\ mIdx' = 0
    BY <1>1, <1>6, <1>7, <2>1
  <2>3. BusyInv' /\ QuietInv'
    BY <1>1, <1>7, <2>1, <2>2, TwiAssumption DEF BusyInv, QuietInv, MasterPhase, Status
  <2>4. SentInv'
    <3>1. IsPrefixOf(dialog', call.data) /\ Len(dialog') = 0
      BY <1>4, <2>2 DEF IsPrefixOf
    <3>. QED BY <1>1, <1>5, <2>1, <2>2, <3>1 DEF SentInv
  <2>5. ReceivedInv'
    <3>1. Stored'
      BY <2>2 DEF Stored
    <3>. QED BY <1>1, <1>5, <2>1, <2>2, <3>1 DEF ReceivedInv
  <2>. QED BY <2>3, <2>4, <2>5
<1>10. CASE DataSent
  <2>1. /\ phase = "mt" /\ twdr' = twdr
        /\ \/ status' = "MT_DATA_ACK" /\ phase' = "mt" /\ dialog' = Append(dialog, twdr)
           \/ status' = "MT_DATA_NACK" /\ phase' = "mt" /\ dialog' = dialog
           \/ status' = "ARB_LOST" /\ phase' = "none" /\ dialog' = dialog
    BY <1>10 DEF DataSent, Raise
  <2>2. call.kind = "W"
    BY <1>4, <2>1 DEF MasterInv, ReceivedInv
  <2>3. /\ mIdx <= mLen /\ IsPrefixOf(dialog, call.data)
        /\ Len(dialog) + 1 = mIdx /\ twdr = call.data[mIdx]
    BY <1>1, <2>1, <2>2 DEF MasterInv, SentInv
  <2>4. status' = "MT_DATA_ACK" =>
           IsPrefixOf(dialog', call.data) /\ Len(dialog') = mIdx
    <3>. SUFFICES ASSUME dialog' = Append(dialog, twdr)
                  PROVE  IsPrefixOf(dialog', call.data) /\ Len(dialog') = mIdx
      BY <2>1
    <3>1. twdr \in Byte
      BY <1>1, <2>1 DEF TwiInv, TwdrInv
    <3>2. /\ Len(dialog') = Len(dialog) + 1 /\ dialog'[Len(dialog) + 1] = twdr
          /\ \A k \in 1 .. Len(dialog) : dialog'[k] = dialog[k]
      BY <1>5, <3>1, AppendProperties
    <3>3. mIdx <= Len(call.data)
      <4>1. mLen = Len(call.data)
        BY <1>4, <1>6, <2>2
      <4>. QED BY <2>3, <4>1
    <3>4. Len(dialog') = mIdx
      BY <2>3, <3>2
    <3>5. \A k \in 1 .. mIdx : dialog'[k] = call.data[k]
      <4>1. \A k \in 1 .. mIdx : k \in 1 .. Len(dialog) \/ k = mIdx
        BY <1>5, <2>3
      <4>2. \A k \in 1 .. Len(dialog) : dialog[k] = call.data[k]
        BY <2>3 DEF IsPrefixOf
      <4>. QED BY <2>3, <3>2, <4>1, <4>2
    <3>. QED BY <3>3, <3>4, <3>5 DEF IsPrefixOf
  <2>5. BusyInv' /\ QuietInv'
    BY <1>1, <1>7, <2>1, TwiAssumption DEF BusyInv, QuietInv, MasterPhase, Status
  <2>6. SentInv'
    BY <1>1, <2>1, <2>3, <2>4, TwiAssumption DEF SentInv, Status
  <2>7. ReceivedInv'
    BY <1>1, <2>2 DEF ReceivedInv
  <2>. QED BY <2>5, <2>6, <2>7
<1>11. ASSUME NEW b \in Answers, DataReceived(b) PROVE Sound'
  <2>1. /\ phase = "mr" /\ phase' = "mr" /\ twdr' = b /\ dialog' = Append(dialog, b)
        /\ \/ status' = "MR_DATA_ACK" /\ twea
           \/ status' = "MR_DATA_NACK" /\ ~twea
    BY <1>11 DEF DataReceived, Raise
  <2>2. call.kind = "R"
    BY <1>4, <2>1 DEF MasterInv, SentInv
  <2>3. mIdx <= mLen /\ Stored /\ Len(dialog) = mIdx /\ twea = (mIdx < mLen)
    BY <1>1, <2>1, <2>2 DEF MasterInv, ReceivedInv
  <2>4. b \in Byte
    BY TwiAssumption
  <2>5. /\ Len(dialog') = mIdx + 1 /\ dialog'[mIdx + 1] = b
        /\ \A k \in 1 .. mIdx : dialog'[k] = dialog[k]
    BY <1>5, <2>1, <2>3, <2>4, AppendProperties
  <2>6. Stored'
    <3>1. mIdx <= Len(dialog') /\ \A k \in 1 .. mIdx : mBuf[k - 1] = dialog[k]
      BY <1>5, <2>3, <2>5 DEF Stored
    <3>. QED BY <1>1, <2>5, <3>1 DEF Stored
  <2>7. BusyInv' /\ QuietInv'
    BY <1>1, <1>7, <2>1 DEF BusyInv, QuietInv, MasterPhase
  <2>8. SentInv'
    BY <1>1, <2>2 DEF SentInv
  <2>9. ReceivedInv'
    <3>1. status' = "MR_DATA_ACK" => mIdx < mLen
      BY <2>1, <2>3
    <3>. QED BY <1>1, <2>1, <2>3, <2>5, <2>6, <3>1 DEF ReceivedInv
  <2>. QED BY <2>7, <2>8, <2>9
<1>12. CASE BusError
  <2>1. /\ phase \in MasterPhase /\ phase' = phase /\ status' = "BUS_ERROR"
        /\ dialog' = dialog /\ twdr' = twdr
    BY <1>12 DEF BusError, Raise, asMaster, MasterInv, QuietInv
  <2>2. Stored' <=> Stored
    BY <1>1, <2>1 DEF Stored
  <2>3. BusyInv' /\ QuietInv'
    BY <1>1, <1>7, <2>1 DEF BusyInv, QuietInv, MasterPhase, MasterInv
  <2>4. SentInv' /\ ReceivedInv'
    BY <1>1, <2>1, <2>2, TwiAssumption DEF MasterInv, SentInv, ReceivedInv, Status
  <2>. QED BY <2>3, <2>4
<1>13. ~Addressed /\ ~ForeignStops /\ ~(\E b \in Foreign : ForeignWrites(b))
       /\ ~(\E ack \in BOOLEAN : ForeignReads(ack))
  BY DEF MasterInv, QuietInv, Addressed, ForeignStops, ForeignWrites, ForeignReads
<1>. QED BY <1>8, <1>9, <1>10, <1>11, <1>12, <1>13 DEF Bus

(* The handler runs only for a call that has the bus. *)
LEMMA HandlerWhen ==
  ASSUME TwiInv, MasterInv,
         PlainHandlers \/ IsrSlaveStop \/ \E reply \in Seq(Byte) : IsrSlaveRequested(reply)
  PROVE  /\ Busy /\ pc = "poll" /\ PlainHandlers
         /\ ~IsrSlaveAddressed /\ ~IsrSlaveReceives /\ ~IsrSlaveRefuses
         /\ ~IsrSlaveSends /\ ~IsrSlaveSentAll
         /\ status' = None
         /\ UNCHANGED << slarw, sendStop, mLen, pc, call, got, n, ret, dialog >>
<1>0. twie /\ status # None
  <2>0. None \notin Status
    BY TwiAssumption
  <2>1. CASE IsrStart
    BY <2>0, <2>1 DEF IsrStart, Isr, Status
  <2>2. CASE IsrMasterSends
    BY <2>0, <2>2 DEF IsrMasterSends, Isr, Status
  <2>3. CASE IsrRefused
    BY <2>0, <2>3 DEF IsrRefused, Isr, Status
  <2>4. CASE IsrArbitrationLost
    BY <2>0, <2>4 DEF IsrArbitrationLost, Isr, Status
  <2>5. CASE IsrMasterReceives
    BY <2>0, <2>5 DEF IsrMasterReceives, Isr, Status
  <2>6. CASE IsrMasterReceivesLast
    BY <2>0, <2>6 DEF IsrMasterReceivesLast, Isr, Status
  <2>7. CASE IsrMasterReadRefused
    BY <2>0, <2>7 DEF IsrMasterReadRefused, Isr, Status
  <2>8. CASE IsrSlaveAddressed
    BY <2>0, <2>8 DEF IsrSlaveAddressed, Isr, Status
  <2>9. CASE IsrSlaveReceives
    BY <2>0, <2>9 DEF IsrSlaveReceives, Isr, Status
  <2>10. CASE IsrSlaveRefuses
    BY <2>0, <2>10 DEF IsrSlaveRefuses, Isr, Status
  <2>11. CASE IsrSlaveSends
    BY <2>0, <2>11 DEF IsrSlaveSends, Isr, Status
  <2>12. CASE IsrSlaveSentAll
    BY <2>0, <2>12 DEF IsrSlaveSentAll, Isr, Status
  <2>13. CASE IsrSlaveStop
    BY <2>0, <2>13 DEF IsrSlaveStop, Isr, Status
  <2>14. CASE \E reply \in Seq(Byte) : IsrSlaveRequested(reply)
    BY <2>0, <2>14 DEF IsrSlaveRequested, Isr, Status
  <2>. QED BY <2>1, <2>2, <2>3, <2>4, <2>5, <2>6, <2>7,
       <2>8, <2>9, <2>10, <2>11, <2>12, <2>13, <2>14 DEF PlainHandlers
<1>1. /\ status' = None
      /\ UNCHANGED << slarw, sendStop, mLen, pc, call, got, n, ret, dialog >>
  BY DEF PlainHandlers, IsrStart, IsrMasterSends, IsrRefused, IsrArbitrationLost,
     IsrMasterReceives, IsrMasterReceivesLast, IsrMasterReadRefused, IsrSlaveAddressed,
     IsrSlaveReceives, IsrSlaveRefuses, IsrSlaveSends, IsrSlaveSentAll, IsrSlaveStop,
     IsrSlaveRequested, LoadNext, driver, sketch, asMaster, SetTwcr, twi_reply,
     twi_stop, twi_releaseBus, Finish
<1>2. Busy
  BY <1>0 DEF MasterInv, RestInv, HeldStart, FreeBus, Closed
<1>3. /\ ~IsrSlaveAddressed /\ ~IsrSlaveReceives /\ ~IsrSlaveRefuses
      /\ ~IsrSlaveSends /\ ~IsrSlaveSentAll /\ ~IsrSlaveStop
      /\ ~\E reply \in Seq(Byte) : IsrSlaveRequested(reply)
  BY DEF MasterInv, QuietInv, Isr, IsrSlaveAddressed, IsrSlaveReceives, IsrSlaveRefuses,
     IsrSlaveSends, IsrSlaveSentAll, IsrSlaveStop, IsrSlaveRequested
<1>. QED BY <1>1, <1>2, <1>3 DEF Busy

(* A handler that ends the transaction leaves the bus as RestInv says. *)
LEMMA MasterEnds ==
  ASSUME TwiInv, MasterInv, pc = "poll", Busy,
         state' = "READY", pc' = pc, call' = call, ret' = ret, got' = got, n' = n,
         \/ FreeBus' /\ inRepStart' = inRepStart
         \/ HeldStart' /\ inRepStart' = TRUE /\ phase' = "rep" /\ status' = None,
         (call.kind = "W" /\ error' = None) => dialog' = call.data,
         call.kind = "R" => Stored' /\ mIdx' <= BufLen
  PROVE  MasterInv'
<1>1. ~Busy'
  BY DEF Busy, Own
<1>2. ~inRepStart
  BY DEF MasterInv, BusyInv
<1>3. RestInv'
  BY <1>1, <1>2 DEF RestInv
<1>4. BusyInv' /\ SetInv' /\ SentInv' /\ ReceivedInv'
  BY <1>1 DEF BusyInv, SetInv, SentInv, ReceivedInv
<1>5. DoneInv'
  BY DEF DoneInv
<1>6. QuietInv'
  BY TwiAssumption DEF QuietInv, FreeBus, Status
<1>. QED BY <1>3, <1>4, <1>5, <1>6 DEF MasterInv

(* A handler that carries the transaction on. *)
LEMMA MasterGoesOn ==
  ASSUME TwiInv, MasterInv, pc = "poll", Busy, status' = None,
         UNCHANGED << state, pc, call, slarw, error, mLen, inRepStart, dialog, phase >>,
         twie', phase \in MasterPhase,
         \A k \in 1 .. call.len : call.kind = "W" => mBuf'[k - 1] = mBuf[k - 1],
         phase = "addr" => twdr' = slarw /\ mIdx' = mIdx,
         SentInv', ReceivedInv'
  PROVE  MasterInv'
<1>1. Busy'
  BY DEF Busy, Own
<1>2. RestInv' /\ DoneInv'
  BY <1>1 DEF MasterInv, RestInv, DoneInv, Own
<1>3. BusyInv'
  BY <1>1 DEF MasterInv, BusyInv, MasterPhase
<1>4. SetInv'
  BY <1>1 DEF MasterInv, SetInv
<1>5. QuietInv'
  BY TwiAssumption DEF MasterInv, QuietInv, Status
<1>. QED BY <1>2, <1>3, <1>4, <1>5 DEF MasterInv

LEMMA LastIndex ==
  ASSUME NEW m \in 0 .. 255
  PROVE  /\ \A k \in 1 .. m + 1 : (k \in 1 .. m /\ k - 1 # m) \/ (k = m + 1 /\ k - 1 = m)
         /\ m < 255 => (m + 1) % 256 = m + 1
  OBVIOUS

LEMMA MasterHandler ==
  ASSUME TwiInv, MasterInv,
         PlainHandlers \/ IsrSlaveStop \/ \E reply \in Seq(Byte) : IsrSlaveRequested(reply)
  PROVE  MasterInv'
<1>1. /\ Busy /\ pc = "poll" /\ PlainHandlers
      /\ ~IsrSlaveAddressed /\ ~IsrSlaveReceives /\ ~IsrSlaveRefuses
      /\ ~IsrSlaveSends /\ ~IsrSlaveSentAll
      /\ status' = None
      /\ UNCHANGED << slarw, sendStop, mLen, pc, call, got, n, ret, dialog >>
  BY HandlerWhen
<1>2. /\ call.kind \in { "R", "W" } /\ call.data \in Seq(Byte)
      /\ call.len \in Nat /\ call.len <= BufLen
      /\ call.kind = "W" => call.len = Len(call.data)
      /\ call.kind = "R" => call.len >= 1
  BY <1>1, CallFields DEF TwiInv, CallInv, InCall
<1>3. /\ dialog \in Seq(Byte) /\ mIdx \in 0 .. 255 /\ mLen \in 0 .. 255 /\ mLen <= BufLen
      /\ Len(dialog) \in Nat
      /\ mBuf \in [0 .. BufLen - 1 -> Byte] /\ BufLen \in 1 .. 255
  BY TwiAssumption DEF TwiInv, TypeOK, CallInv
<1>4. /\ slarw = call.kind /\ error = None
      /\ call.kind = "W" => /\ mLen = call.len
                            /\ \A k \in 1 .. call.len : mBuf[k - 1] = call.data[k]
      /\ call.kind = "R" => mLen = call.len - 1
  BY <1>1 DEF MasterInv, SetInv
<1>5. /\ twie /\ ~inRepStart
      /\ phase = "addr" => dialog = << >> /\ mIdx = 0
  BY <1>1 DEF MasterInv, BusyInv
<1>6. CASE IsrStart
  <2>1. /\ phase = "addr" /\ phase' = "addr" /\ twdr' = slarw /\ twie'
        /\ UNCHANGED << state, error, mBuf, mIdx, inRepStart >>
    BY <1>6 DEF IsrStart, Isr, twi_reply, SetTwcr, driver, TwiInv, BusInv
  <2>2. SentInv' /\ ReceivedInv'
    BY <1>1, <1>5, <2>1, TwiAssumption DEF SentInv, ReceivedInv, Status
  <2>. QED BY <1>1, <2>1, <2>2, MasterGoesOn DEF MasterPhase
<1>7. CASE IsrMasterSends
  <2>1. phase = "mt" /\ status \in { "MT_SLA_ACK", "MT_DATA_ACK" }
    BY <1>7 DEF IsrMasterSends, Isr, TwiInv, BusInv
  <2>2. call.kind = "W"
    BY <1>1, <1>2, <2>1 DEF MasterInv, ReceivedInv
  <2>3. mIdx <= mLen /\ IsPrefixOf(dialog, call.data) /\ Len(dialog) = mIdx
    BY <1>1, <2>1, <2>2 DEF MasterInv, SentInv
  <2>4. CASE mIdx < mLen
    <3>1. /\ twdr' = mBuf[mIdx] /\ mIdx' = mIdx + 1 /\ phase' = phase /\ twie'
          /\ UNCHANGED << state, error, mBuf, inRepStart >>
      <4>1. ~(mIdx >= mLen)
        BY <1>3, <2>4
      <4>. QED BY <1>7, <4>1 DEF IsrMasterSends, twi_reply, SetTwcr
    <3>2. twdr' = call.data[mIdx + 1]
      <4>1. /\ mIdx + 1 \in 1 .. call.len /\ (mIdx + 1) - 1 = mIdx
        BY <1>2, <1>3, <1>4, <2>2, <2>4
      <4>2. mBuf[(mIdx + 1) - 1] = call.data[mIdx + 1]
        BY <1>4, <2>2, <4>1
      <4>. QED BY <3>1, <4>1, <4>2
    <3>3. mIdx + 1 <= mLen
      BY <1>3, <2>4
    <3>4. SentInv'
      BY <1>1, <2>1, <2>2, <2>3, <3>1, <3>2, <3>3, TwiAssumption DEF SentInv, Status
    <3>5. ReceivedInv'
      BY <1>1, <2>2 DEF ReceivedInv
    <3>. QED BY <1>1, <2>1, <3>1, <3>4, <3>5, MasterGoesOn DEF MasterPhase
  <2>5. CASE ~(mIdx < mLen)
    <3>1. Finish /\ error' = error
      BY <1>3, <1>7, <2>5 DEF IsrMasterSends
    <3>2. dialog = call.data
      <4>1. Len(dialog) = Len(call.data)
        BY <1>2, <1>3, <1>4, <2>2, <2>3, <2>5
      <4>2. \A k \in 1 .. Len(dialog) : dialog[k] = call.data[k]
        BY <2>3 DEF IsPrefixOf
      <4>. QED BY <1>2, <1>3, <4>1, <4>2, SeqEqual
    <3>3. /\ state' = "READY"
          /\ \/ FreeBus' /\ inRepStart' = inRepStart
             \/ HeldStart' /\ inRepStart' = TRUE /\ phase' = "rep" /\ status' = None
      BY <3>1 DEF Finish, twi_stop, SetTwcr, FreeBus, HeldStart
    <3>. QED BY <1>1, <2>2, <3>2, <3>3, MasterEnds
  <2>. QED BY <2>4, <2>5
<1>8. CASE IsrRefused \/ IsrArbitrationLost
  <2>1. /\ state' = "READY" /\ FreeBus' /\ error' # None
        /\ UNCHANGED << inRepStart, mBuf, mIdx >>
    <3>1. CASE IsrRefused
      BY <3>1, TwiAssumption DEF IsrRefused, Isr, twi_stop, SetTwcr, FreeBus, Status
    <3>2. CASE IsrArbitrationLost
      <4>1. phase = "none" /\ phase' = phase
        BY <3>2 DEF IsrArbitrationLost, Isr, twi_releaseBus, TwiInv, BusInv
      <4>. QED BY <3>2, <4>1, TwiAssumption DEF IsrArbitrationLost, Isr, twi_releaseBus,
               SetTwcr, FreeBus, Status
    <3>. QED BY <1>8, <3>1, <3>2
  <2>2. call.kind = "R" => Stored /\ mIdx <= BufLen
    <3>1. CASE phase = "mr"
      BY <1>1, <1>3, <3>1 DEF MasterInv, ReceivedInv
    <3>2. CASE phase # "mr"
      BY <1>1, <1>3, <3>2 DEF MasterInv, ReceivedInv, Stored
    <3>. QED BY <3>1, <3>2
  <2>3. call.kind = "R" => Stored' /\ mIdx' <= BufLen
    BY <1>1, <2>1, <2>2 DEF Stored
  <2>. QED BY <1>1, <2>1, <2>3, MasterEnds
<1>9. CASE IsrMasterReceives
  <2>1. phase = "mr" /\ status \in { "MR_SLA_ACK", "MR_DATA_ACK" }
    BY <1>9 DEF IsrMasterReceives, Isr, TwiInv, BusInv
  <2>2. call.kind = "R"
    BY <1>1, <1>2, <2>1 DEF MasterInv, SentInv
  <2>3. /\ mIdx <= mLen /\ Stored
        /\ status = "MR_SLA_ACK" => dialog = << >>
        /\ status = "MR_DATA_ACK" =>
             Len(dialog) = mIdx + 1 /\ dialog[mIdx + 1] = twdr /\ mIdx < mLen
    BY <1>1, <2>1, <2>2 DEF MasterInv, ReceivedInv
  <2>4. /\ phase' = phase /\ twie' /\ twea' = (mIdx' < mLen)
        /\ UNCHANGED << state, error, inRepStart, twdr >>
        /\ status = "MR_DATA_ACK" => StoreReceived
        /\ status = "MR_SLA_ACK" => UNCHANGED << mBuf, mIdx >>
    BY <1>9 DEF IsrMasterReceives, twi_reply, SetTwcr, WantsMore
  <2>5. Stored' /\ mIdx' <= mLen /\ Len(dialog) = mIdx'
    <3>1. CASE status = "MR_SLA_ACK"
      <4>1. Len(dialog) = 0 /\ mIdx = 0
        BY <1>3, <2>3, <3>1 DEF Stored
      <4>. QED BY <1>1, <1>3, <2>4, <3>1, <4>1 DEF Stored
    <3>2. CASE status = "MR_DATA_ACK"
      <4>1. mIdx' = mIdx + 1
        BY <1>3, <2>3, <2>4, <3>2 DEF StoreReceived
      <4>2. \A k \in 1 .. mIdx + 1 : mBuf'[k - 1] = dialog[k]
        <5>1. /\ \A k \in 0 .. BufLen - 1 :
                   mBuf'[k] = IF k = mIdx THEN twdr ELSE mBuf[k]
              /\ \A k \in 1 .. mIdx : mBuf[k - 1] = dialog[k]
          BY <2>3, <2>4, <3>2 DEF StoreReceived, Stored
        <5>2. \A k \in 1 .. mIdx + 1 : k - 1 \in 0 .. BufLen - 1
          BY <1>3, <2>3, <3>2
        <5>3. \A k \in 1 .. mIdx + 1 : (k \in 1 .. mIdx /\ k - 1 # mIdx)
                                       \/ (k = mIdx + 1 /\ k - 1 = mIdx)
          BY <1>3, LastIndex
        <5>. QED BY <2>3, <3>2, <5>1, <5>2, <5>3
      <4>3. mIdx + 1 <= mLen
        BY <1>3, <2>3, <3>2
      <4>. QED BY <1>1, <1>3, <2>3, <3>2, <4>1, <4>2, <4>3 DEF Stored
    <3>. QED BY <2>1, <3>1, <3>2
  <2>6. ReceivedInv'
    BY <1>1, <2>1, <2>2, <2>4, <2>5, TwiAssumption DEF ReceivedInv, Status
  <2>7. SentInv'
    BY <1>1, <2>2 DEF SentInv
  <2>. QED BY <1>1, <2>1, <2>2, <2>4, <2>6, <2>7, MasterGoesOn DEF MasterPhase
<1>10. CASE IsrMasterReceivesLast
  <2>1. phase = "mr" /\ status = "MR_DATA_NACK"
    BY <1>10 DEF IsrMasterReceivesLast, Isr, TwiInv, BusInv
  <2>2. call.kind = "R"
    BY <1>1, <1>2, <2>1 DEF MasterInv, SentInv
  <2>3. /\ mIdx <= mLen /\ Stored
        /\ Len(dialog) = mIdx + 1 /\ dialog[mIdx + 1] = twdr
    BY <1>1, <2>1, <2>2 DEF MasterInv, ReceivedInv
  <2>4. mIdx <= BufLen - 1
    BY <1>2, <1>3, <1>4, <2>2, <2>3
  <2>5. /\ StoreReceived /\ Finish /\ error' = error
    BY <1>10 DEF IsrMasterReceivesLast
  <2>6. Stored' /\ mIdx' <= BufLen
    <3>1. mIdx' = mIdx + 1
      <4>1. mIdx < 255
        BY <1>3, <2>4
      <4>2. (mIdx + 1) % 256 = mIdx + 1
        BY <1>3, <4>1, LastIndex
      <4>. QED BY <2>5, <4>2 DEF StoreReceived
    <3>2. \A k \in 1 .. mIdx + 1 : mBuf'[k - 1] = dialog[k]
      <4>1. /\ \A k \in 0 .. BufLen - 1 :
                 mBuf'[k] = IF k = mIdx THEN twdr ELSE mBuf[k]
            /\ \A k \in 1 .. mIdx : mBuf[k - 1] = dialog[k]
        BY <2>3, <2>5 DEF StoreReceived, Stored
      <4>2. \A k \in 1 .. mIdx + 1 : k - 1 \in 0 .. BufLen - 1
        BY <1>3, <2>4
      <4>3. \A k \in 1 .. mIdx + 1 : (k \in 1 .. mIdx /\ k - 1 # mIdx)
                                     \/ (k = mIdx + 1 /\ k - 1 = mIdx)
        BY <1>3, LastIndex
      <4>. QED BY <2>3, <4>1, <4>2, <4>3
    <3>3. mIdx + 1 <= BufLen
      BY <1>3, <2>4
    <3>4. mIdx' <= Len(dialog)
      BY <1>3, <2>3, <3>1
    <3>. QED BY <1>1, <3>1, <3>2, <3>3, <3>4 DEF Stored
  <2>7. /\ state' = "READY"
        /\ \/ FreeBus' /\ inRepStart' = inRepStart
           \/ HeldStart' /\ inRepStart' = TRUE /\ phase' = "rep" /\ status' = None
    BY <2>5 DEF Finish, twi_stop, SetTwcr, FreeBus, HeldStart
  <2>. QED BY <1>1, <2>2, <2>6, <2>7, MasterEnds
<1>11. CASE IsrMasterReadRefused
  <2>1. /\ state' = "READY" /\ FreeBus' /\ status = "MR_SLA_NACK" /\ phase = "addr"
        /\ UNCHANGED << inRepStart, mBuf, mIdx >>
    BY <1>11 DEF IsrMasterReadRefused, Isr, twi_stop, SetTwcr, FreeBus, driver, TwiInv, BusInv
  <2>2. call.kind = "R"
    BY <1>1, <1>2, <2>1 DEF MasterInv, SentInv
  <2>3. mIdx' = 0 /\ Stored' /\ mIdx' <= BufLen
    BY <1>1, <1>3, <1>5, <2>1 DEF Stored
  <2>. QED BY <1>1, <2>1, <2>2, <2>3, MasterEnds
<1>. QED BY <1>1, <1>6, <1>7, <1>8, <1>9, <1>10, <1>11 DEF PlainHandlers

MasterSetup ==
  \/ call.kind = "W" /\ Setup(call.data)
  \/ call.kind = "R" /\ Setup(<< >>)

LEMMA MasterSetupStep ==
  ASSUME TwiInv, MasterInv, MasterSetup
  PROVE  MasterInv'
<1>1. /\ pc = "setup" /\ pc' = IF inRepStart THEN "rep" ELSE "start"
      /\ error' = None /\ mIdx' = 0 /\ mLen' = LengthOf(call) /\ slarw' = call.kind
      /\ inRepStart' = FALSE
      /\ call.kind = "W" =>
           mBuf' = [k \in 0 .. BufLen - 1 |->
                      IF k < Len(call.data) THEN call.data[k + 1] ELSE mBuf[k]]
      /\ UNCHANGED << state, phase, status, twdr, twea, twie, twsta, call, got, n, ret, dialog >>
  BY DEF MasterSetup, Setup, Main, hardware, twcr, ghosts, asMaster
<1>2. /\ call.kind \in { "R", "W" } /\ call.data \in Seq(Byte)
      /\ call.len \in Nat /\ call.len <= BufLen /\ BufLen \in 1 .. 255
      /\ call.kind = "W" => call.len = Len(call.data)
  BY <1>1, CallFields, TwiAssumption DEF TwiInv, CallInv, InCall
<1>3. mLen' = IF call.kind = "R" THEN call.len - 1 ELSE call.len
  BY <1>1, LengthFits
<1>4. \/ inRepStart /\ HeldStart
      \/ ~inRepStart /\ FreeBus
  BY <1>1 DEF MasterInv, RestInv, Busy
<1>5. ~Busy' /\ state = Own /\ Own' = Own
  BY <1>1 DEF MasterInv, RestInv, Busy, Own
<1>6. RestInv'
  BY <1>1, <1>4, <1>5 DEF RestInv, HeldStart, FreeBus
<1>7. call.kind = "W" => \A k \in 1 .. call.len : mBuf'[k - 1] = call.data[k]
  <2>. SUFFICES ASSUME call.kind = "W", NEW k \in 1 .. call.len
                PROVE  mBuf'[k - 1] = call.data[k]
    OBVIOUS
  <2>1. /\ k - 1 \in 0 .. BufLen - 1 /\ k - 1 < Len(call.data) /\ (k - 1) + 1 = k
    BY <1>2
  <2>. QED BY <1>1, <2>1
<1>8. SetInv'
  <2>1. dialog' = << >>
    BY <1>1 DEF MasterInv, SetInv
  <2>. QED BY <1>1, <1>3, <1>5, <1>7, <2>1 DEF SetInv
<1>9. BusyInv' /\ SentInv' /\ ReceivedInv'
  BY <1>5 DEF BusyInv, SentInv, ReceivedInv
<1>10. DoneInv' /\ QuietInv'
  BY <1>1 DEF MasterInv, DoneInv, QuietInv
<1>. QED BY <1>6, <1>8, <1>9, <1>10 DEF MasterInv

LEMMA MasterSketch ==
  ASSUME TwiInv, MasterInv,
         \/ twi_init \/ twi_disable
         \/ \E stop \in BOOLEAN :
              \/ \E length \in 1 .. BufLen : twi_readFrom(length, stop)
              \/ \E data \in Seq(Byte) : Len(data) <= BufLen /\ twi_writeTo(data, stop)
         \/ PlainSteps \/ CopyByte \/ Return
  PROVE  MasterInv'
<1>1. CASE twi_init \/ twi_disable
  <2>1. /\ pc = "idle" /\ pc' = "idle" /\ phase' \in { "off", "none" } /\ status' = None
        /\ twsta' = FALSE
        /\ \/ phase' = "off" /\ twie' = FALSE /\ state' = state
           \/ phase' = "none" /\ inRepStart' = FALSE /\ state' = "READY"
    BY <1>1 DEF twi_init, twi_disable, Main, sketch, driver
  <2>2. state = "READY"
    BY <2>1 DEF MasterInv, RestInv
  <2>3. RestInv' /\ ~Busy'
    BY <2>1, <2>2 DEF RestInv, Busy, FreeBus, Closed
  <2>4. QuietInv'
    BY <2>1, TwiAssumption DEF QuietInv, Status
  <2>. QED BY <2>1, <2>3, <2>4 DEF MasterInv, BusyInv, SetInv, SentInv, ReceivedInv, DoneInv
<1>2. ASSUME NEW c, NEW refusal, Call(c, refusal), ~(BufLen < c.len)
      PROVE  MasterInv'
  <2>1. /\ pc = "idle" /\ pc' = "wait" /\ dialog' = << >> /\ phase # "off"
        /\ UNCHANGED << state, inRepStart, phase, status, twea, twie, twsta >>
    BY <1>2 DEF Call, Main, hardware, twcr, driver
  <2>2. RestInv' /\ ~Busy' /\ QuietInv'
    BY <2>1 DEF MasterInv, RestInv, QuietInv, Busy, FreeBus, HeldStart, Closed
  <2>. QED BY <2>1, <2>2 DEF MasterInv, BusyInv, SetInv, SentInv, ReceivedInv, DoneInv
<1>3. CASE Wait \/ Claim
  <2>1. /\ pc \in { "wait", "claim" } /\ pc' \in { "claim", "setup" }
        /\ pc' = "setup" => state' = Own'
        /\ pc' = "claim" => state' = state
        /\ UNCHANGED << inRepStart, phase, status, twea, twie, twsta, dialog >>
    BY <1>3 DEF Wait, Claim, Main, hardware, twcr, driver, ghosts, asMaster, Own
  <2>2. RestInv' /\ ~Busy' /\ QuietInv'
    BY <2>1 DEF MasterInv, RestInv, QuietInv, Busy, FreeBus, HeldStart, Closed
  <2>3. dialog = << >>
    BY <2>1 DEF MasterInv, SetInv
  <2>. QED BY <2>1, <2>2, <2>3 DEF MasterInv, BusyInv, SetInv, SentInv, ReceivedInv, DoneInv
<1>4. CASE Start
  <2>1. /\ pc = "start" /\ pc' = "poll" /\ status' = None /\ twie' /\ phase' = phase
        /\ UNCHANGED << state, slarw, inRepStart, error, mBuf, mIdx, mLen, call, dialog >>
    BY <1>4 DEF Start, Main, SetTwcr, driver, ghosts, asMaster
  <2>2. state = Own /\ phase = "none" /\ ~inRepStart /\ dialog = << >> /\ mIdx = 0
    BY <2>1 DEF MasterInv, RestInv, SetInv, FreeBus
  <2>3. Busy' /\ Own' = Own
    BY <2>1, <2>2 DEF Busy, Own
  <2>4. RestInv' /\ BusyInv'
    BY <2>1, <2>2, <2>3 DEF RestInv, BusyInv
  <2>5. SetInv'
    BY <2>1 DEF MasterInv, SetInv
  <2>6. SentInv' /\ ReceivedInv'
    BY <2>1, <2>2, TwiAssumption DEF SentInv, ReceivedInv, Status
  <2>7. QuietInv' /\ DoneInv'
    BY <2>1, <2>2, <2>3, TwiAssumption DEF QuietInv, DoneInv, Status
  <2>. QED BY <2>4, <2>5, <2>6, <2>7 DEF MasterInv
<1>5. CASE RepeatedStart
  <2>1. /\ pc = "rep" /\ pc' = "poll" /\ status # None /\ status' = None /\ twie'
        /\ phase' = phase /\ twdr' = slarw
        /\ UNCHANGED << state, slarw, inRepStart, error, mBuf, mIdx, mLen, call, dialog >>
    BY <1>5 DEF RepeatedStart, Main, SetTwcr, driver, ghosts, asMaster
  <2>2. /\ state = Own /\ HeldStart /\ ~inRepStart /\ dialog = << >> /\ mIdx = 0
    BY <2>1 DEF MasterInv, RestInv, SetInv
  <2>3. Busy' /\ Own' = Own
    BY <2>1, <2>2 DEF Busy, Own
  <2>4. status # None
    BY <2>1
  <2>5. phase = "addr"
    BY <2>2, <2>4 DEF HeldStart
  <2>6. RestInv' /\ BusyInv'
    BY <2>1, <2>2, <2>3, <2>5 DEF RestInv, BusyInv, MasterPhase
  <2>7. SetInv'
    BY <2>1 DEF MasterInv, SetInv
  <2>8. SentInv' /\ ReceivedInv'
    BY <2>1, <2>2, <2>5, TwiAssumption DEF SentInv, ReceivedInv, Status
  <2>9. QuietInv' /\ DoneInv'
    BY <2>1, <2>3, <2>5, TwiAssumption DEF QuietInv, DoneInv, Status
  <2>. QED BY <2>6, <2>7, <2>8, <2>9 DEF MasterInv
<1>6. CASE Poll
  <2>1. /\ pc = "poll" /\ state # Own /\ pc' = "result"
        /\ UNCHANGED << state, inRepStart, phase, status, twie, twsta, error, mBuf, mIdx,
                        call, dialog >>
    BY <1>6 DEF Poll, Main, hardware, twcr, driver, ghosts, asMaster
  <2>2. ~Busy /\ ~Busy' /\ state = "READY"
    BY <2>1 DEF MasterInv, RestInv, Busy
  <2>3. RestInv' /\ QuietInv'
    BY <2>1, <2>2 DEF MasterInv, RestInv, QuietInv, FreeBus, HeldStart, Closed
  <2>4. DoneInv'
    BY <2>1, <2>2 DEF MasterInv, DoneInv, Stored
  <2>. QED BY <2>1, <2>2, <2>3, <2>4 DEF MasterInv, BusyInv, SetInv, SentInv, ReceivedInv
<1>7. CASE Result \/ CopyByte \/ Copied
  <2>1. /\ pc \in { "result", "copy" } /\ pc' \in { "copy", "ret" }
        /\ UNCHANGED << state, inRepStart, phase, status, twie, twsta, error, mBuf, mIdx,
                        call, dialog >>
    BY <1>7 DEF Result, CopyByte, Copied, Main, hardware, twcr, driver, ghosts, asMaster
  <2>2. ~Busy /\ ~Busy' /\ state = "READY"
    BY <2>1 DEF MasterInv, RestInv, Busy
  <2>3. RestInv' /\ QuietInv'
    BY <2>1, <2>2 DEF MasterInv, RestInv, QuietInv, FreeBus, HeldStart, Closed
  <2>4. DoneInv'
    <3>1. CASE Result
      <4>1. CASE call.kind = "W"
        <5>1. pc = "result" /\ pc' = "ret" /\ (ret' = 0 => error = None)
          BY <3>1, <4>1, <2>1 DEF Result, Code, Main
        <5>. QED BY <2>1, <4>1, <5>1 DEF MasterInv, DoneInv
      <4>2. CASE call.kind # "W"
        <5>1. /\ pc = "result" /\ pc' = "copy"
              /\ n' = IF mIdx < call.len THEN mIdx ELSE call.len
          BY <3>1, <4>2 DEF Result, Main
        <5>2. call.kind = "R"
          BY <4>2, <5>1 DEF TwiInv, CallInv, InCall
        <5>3. n' <= mIdx
          <6>1. mIdx \in Nat /\ call.len \in Nat
            BY CallFields DEF TwiInv, TypeOK
          <6>. QED BY <5>1, <6>1
        <5>. QED BY <2>1, <5>1, <5>2, <5>3 DEF MasterInv, DoneInv, Stored
      <4>. QED BY <4>1, <4>2
    <3>2. CASE CopyByte
      <4>1. pc = "copy" /\ pc' = pc /\ n' = n
        BY <3>2 DEF CopyByte, Main
      <4>. QED BY <2>1, <4>1 DEF MasterInv, DoneInv, Stored
    <3>3. CASE Copied
      <4>1. pc = "copy" /\ pc' = "ret" /\ call.kind = "R"
        BY <3>3 DEF Copied, Main, TwiInv, CallInv
      <4>. QED BY <2>1, <4>1 DEF DoneInv
    <3>. QED BY <1>7, <3>1, <3>2, <3>3
  <2>. QED BY <2>1, <2>2, <2>3, <2>4 DEF MasterInv, BusyInv, SetInv, SentInv, ReceivedInv
<1>8. CASE Return
  <2>1. /\ pc = "ret" /\ pc' = "idle"
        /\ UNCHANGED << state, inRepStart, phase, status, twie, twsta >>
    BY <1>8 DEF Return, Main, hardware, twcr, driver
  <2>2. RestInv' /\ QuietInv' /\ ~Busy'
    BY <2>1 DEF MasterInv, RestInv, QuietInv, Busy, FreeBus, HeldStart, Closed
  <2>. QED BY <2>1, <2>2 DEF MasterInv, BusyInv, SetInv, SentInv, ReceivedInv, DoneInv
<1>9. ASSUME NEW stop \in BOOLEAN, NEW length \in 1 .. BufLen, twi_readFrom(length, stop)
      PROVE  MasterInv'
  <2>1. ~(BufLen < ReadCall(length, stop).len)
    BY TwiAssumption DEF ReadCall
  <2>. QED BY <1>2, <1>9, <2>1 DEF twi_readFrom
<1>10. ASSUME NEW stop \in BOOLEAN, NEW data \in Seq(Byte), Len(data) <= BufLen,
              twi_writeTo(data, stop)
       PROVE  MasterInv'
  <2>1. ~(BufLen < WriteCall(data, stop).len)
    BY <1>10, TwiAssumption DEF WriteCall
  <2>. QED BY <1>2, <1>10, <2>1 DEF twi_writeTo
<1>. QED BY <1>1, <1>3, <1>4, <1>5, <1>6, <1>7, <1>8, <1>9, <1>10 DEF PlainSteps

(* The bytes copied so far are those received. *)
CopyInv ==
  /\ pc = "copy" => \A k \in 1 .. Len(got) : rxBuffer[k - 1] = dialog[k]
  /\ RequestIntact

(* The buffer stays as write() left it until the transmission is over. *)
OwnTxInv ==
  /\ transmitting => txBuffer = accepted
  /\ (pc # "idle" /\ call.kind = "W") => transmitting /\ call.data = txBuffer

LEMMA SetupIs ==
  ASSUME [WireNext]_allVars, pc = "setup", pc' # "setup"
  PROVE  EndTransmissionCopies \/ RequestSetsUp
<1>1. ~UNCHANGED allVars
  BY DEF allVars, vars, sketch
<1>2. ~WireCalls
  BY DEF WireCalls, begin, end, read, beginTransmission, write, endTransmission,
     requestFrom, twi_init, twi_disable, twi_writeTo, twi_readFrom, Call, Main
<1>3. ~WireHandlers
  BY DEF WireHandlers, Received, Requested, onRequestService, PlainHandlers, IsrStart,
     IsrMasterSends, IsrRefused, IsrArbitrationLost, IsrMasterReceives,
     IsrMasterReceivesLast, IsrMasterReadRefused, IsrSlaveAddressed, IsrSlaveReceives,
     IsrSlaveRefuses, IsrSlaveSends, IsrSlaveSentAll, IsrSlaveStop, IsrSlaveRequested, sketch
<1>4. ~Bus
  BY DEF Bus, StartSent, AddressSent, DataSent, Addressed, ForeignStops,
     BusError, DataReceived, ForeignWrites, ForeignReads, sketch
<1>5. WireSteps
  BY <1>1, <1>2, <1>3, <1>4 DEF WireNext
<1>. QED BY <1>5 DEF WireSteps, EndTransmissionReturns, RequestCopies, RequestRewinds, RequestReturns, PlainSteps,
            Wait, Claim, Start, RepeatedStart, Poll, Result, Copied, CopyByte, Return, Main

LEMMA MasterStep ==
  ASSUME AsksForBytes, ~OtherMasters, WireInv, MasterInv, OwnTxInv, [WireNext]_allVars
  PROVE  MasterInv'
<1>1. TwiInv /\ TwiAction
  BY WireIsTwi DEF WireInv
<1>2. CASE Bus
  BY <1>1, <1>2, MasterBusIdle, MasterBusBusy
<1>3. CASE PlainHandlers \/ IsrSlaveStop \/ \E reply \in Seq(Byte) : IsrSlaveRequested(reply)
  BY <1>1, <1>3, MasterHandler
<1>4. ASSUME NEW data \in Seq(Byte), Setup(data) PROVE MasterInv'
  <2>1. pc = "setup" /\ pc' # "setup"
    BY <1>4 DEF Setup, Main
  <2>2. CASE EndTransmissionCopies
    <3>1. /\ call.kind = "W" /\ call.data = txBuffer
          /\ call.len = Len(call.data) /\ call.data \in Seq(Byte)
      BY <1>1, <2>1, <2>2, CallFields DEF EndTransmissionCopies, OwnTxInv, TwiInv,
         CallInv, InCall
    <3>. DEFINE sent == [k \in 1 .. call.len |->
                           IF k <= Len(txBuffer) THEN txBuffer[k] ELSE call.data[k]]
    <3>2. Setup(sent)
      BY <2>2 DEF EndTransmissionCopies
    <3>3. sent = call.data
      <4>1. \A k \in 1 .. call.len :
               (IF k <= Len(txBuffer) THEN txBuffer[k] ELSE call.data[k]) = call.data[k]
        BY <3>1
      <4>2. sent = [k \in 1 .. Len(call.data) |-> call.data[k]]
        BY <3>1, <4>1
      <4>. QED BY ONLY <3>1, <4>2
    <3>. HIDE DEF sent
    <3>. QED BY <1>1, <3>1, <3>2, <3>3, MasterSetupStep DEF MasterSetup
  <2>3. CASE RequestSetsUp
    BY <1>1, <2>3, MasterSetupStep DEF RequestSetsUp, MasterSetup
  <2>. QED BY <2>1, <2>2, <2>3, SetupIs
<1>5. CASE \/ twi_init \/ twi_disable
           \/ \E stop \in BOOLEAN :
                \/ \E length \in 1 .. BufLen : twi_readFrom(length, stop)
                \/ \E data \in Seq(Byte) : Len(data) <= BufLen /\ twi_writeTo(data, stop)
           \/ PlainSteps \/ CopyByte \/ Return
  BY <1>1, <1>5, MasterSketch
<1>6. CASE UNCHANGED vars
  BY <1>6 DEF MasterInv, QuietInv, RestInv, BusyInv, SetInv, SentInv, ReceivedInv, DoneInv,
     Busy, HeldStart, FreeBus, Closed, Stored, Own,
     vars, driver, slave, twcr, sketch, asMaster, asSlave
<1>. QED BY <1>1, <1>2, <1>3, <1>4, <1>5, <1>6 DEF TwiAction

LEMMA OwnTxStep ==
  ASSUME WireInv, MasterInv, OwnTxInv, [WireNext]_allVars
  PROVE  OwnTxInv'
<1>1. CASE UNCHANGED txVars /\ (pc' = "idle" \/ (pc # "idle" /\ call' = call) \/ call'.kind # "W")
  BY <1>1 DEF OwnTxInv, txVars
<1>2. CASE begin \/ beginTransmission
  BY <1>2 DEF begin, beginTransmission, twi_init, Main, sketch, vars, OwnTxInv
<1>3. ASSUME NEW b, write(b) PROVE OwnTxInv'
  BY <1>3 DEF write, Main, vars, sketch, OwnTxInv
<1>4. ASSUME NEW stop, endTransmission(stop) PROVE OwnTxInv'
  BY <1>4 DEF endTransmission, twi_writeTo, Call, WriteCall, OwnTxInv, wireVars, txVars
<1>5. ASSUME NEW quantity, NEW stop, requestFrom(quantity, stop) PROVE OwnTxInv'
  BY <1>1, <1>5 DEF requestFrom, twi_readFrom, Call, ReadCall
<1>6. CASE end \/ read
  BY <1>1, <1>6 DEF end, read, twi_disable, Main, sketch, vars, wireVars
<1>7. CASE EndTransmissionReturns
  BY <1>7 DEF EndTransmissionReturns, Return, OwnTxInv
<1>8. CASE EndTransmissionCopies \/ RequestSetsUp \/ RequestCopies \/ RequestRewinds \/ RequestReturns
           \/ (PlainSteps /\ UNCHANGED wireVars)
  BY <1>1, <1>8 DEF EndTransmissionCopies, RequestSetsUp, RequestCopies, RequestRewinds, RequestReturns,
     vars, sketch,
     Setup, CopyByte, Return, PlainSteps, Wait, Claim, Start, RepeatedStart, Poll, Result,
     Copied, Main, wireVars
<1>9. CASE WireHandlers
  <2>1. ~Requested
    BY DEF MasterInv, QuietInv, Requested, onRequestService, IsrSlaveRequested, Isr
  <2>2. UNCHANGED txVars /\ UNCHANGED << pc, call >>
    BY <1>9, <2>1 DEF WireHandlers, Received, PlainHandlers, IsrStart, IsrMasterSends,
       IsrRefused, IsrArbitrationLost, IsrMasterReceives, IsrMasterReceivesLast,
       IsrMasterReadRefused, IsrSlaveAddressed, IsrSlaveReceives, IsrSlaveRefuses,
       IsrSlaveSends, IsrSlaveSentAll, IsrSlaveStop, sketch, wireVars
  <2>. QED BY <1>1, <2>2
<1>10. CASE Bus /\ UNCHANGED wireVars
  <2>1. UNCHANGED txVars /\ UNCHANGED << pc, call >>
    BY <1>10 DEF Bus, StartSent, AddressSent, DataSent, Addressed, ForeignStops,
       BusError, DataReceived, ForeignWrites, ForeignReads, sketch, wireVars
  <2>. QED BY <1>1, <2>1
<1>11. CASE UNCHANGED allVars
  <2>1. UNCHANGED txVars /\ UNCHANGED << pc, call >>
    BY <1>11 DEF allVars, vars, sketch, wireVars
  <2>. QED BY <1>1, <2>1
<1>. QED BY <1>2, <1>3, <1>4, <1>5, <1>6, <1>7, <1>8, <1>9, <1>10, <1>11
     DEF WireNext, WireCalls, WireSteps

LEMMA IndexIsByte ==
  ASSUME NEW b \in 1 .. 255, NEW x \in 0 .. b - 1
  PROVE  x \in 0 .. 255
  OBVIOUS

LEMMA CopyStep ==
  ASSUME AsksForBytes, ~OtherMasters, WireInv, MasterInv, CopyInv, [WireNext]_allVars
  PROVE  CopyInv'
<1>1. CASE pc' \notin { "copy", "ret" } \/ (pc' = "ret" /\ call'.kind # "R")
  BY <1>1 DEF CopyInv, RequestIntact
<1>2. CASE UNCHANGED << pc, call, got, ret, dialog, rxBuffer >>
  BY <1>2 DEF CopyInv, RequestIntact
<1>3. CASE WireCalls
  <2>1. pc = "idle" /\ pc' \in { "idle", "wait" }
    <3>1. ASSUME NEW stop, NEW quantity \in ReadLengths, requestFrom(quantity, stop)
          PROVE  pc = "idle" /\ pc' \in { "idle", "wait" }
      <4>1. ~(BufLen < Clamped(quantity))
        BY TwiAssumption DEF Clamped
      <4>. QED BY <3>1, <4>1 DEF requestFrom, twi_readFrom, Call, ReadCall, Main
    <3>2. ASSUME NEW stop, endTransmission(stop)
          PROVE  pc = "idle" /\ pc' \in { "idle", "wait" }
      <4>1. ~(BufLen < Len(txBuffer))
        BY TwiAssumption DEF WireInv, WireTypeOK
      <4>. QED BY <3>2, <4>1 DEF endTransmission, twi_writeTo, Call, WriteCall, Main
    <3>3. CASE begin \/ end \/ read \/ beginTransmission \/ \E b : write(b)
      BY <3>3 DEF begin, end, read, beginTransmission, write, twi_init, twi_disable, Main,
         sketch, vars
    <3>. QED BY <1>3, <3>1, <3>2, <3>3 DEF WireCalls
  <2>. QED BY <1>1, <2>1
<1>4. CASE RequestCopies
  <2>1. /\ pc = "copy" /\ pc' = "copy" /\ Len(got) < n /\ got' = Append(got, mBuf[Len(got)])
        /\ dialog' = dialog
        /\ rxBuffer' = [rxBuffer EXCEPT ![Len(got)] = mBuf[Len(got)]]
    BY <1>4 DEF RequestCopies, CopyByte, Main, ghosts, asMaster
  <2>2. /\ Stored /\ n <= mIdx /\ n <= call.len /\ call.len <= BufLen
    BY <2>1 DEF MasterInv, DoneInv, WireInv, TwiInv, CallInv, InCall
  <2>3. /\ got \in Seq(Byte) /\ n \in 0 .. 255 /\ mIdx \in 0 .. 255 /\ call.len \in Nat
        /\ mBuf \in [0 .. BufLen - 1 -> Byte] /\ rxBuffer \in [0 .. BufLen - 1 -> Byte]
        /\ BufLen \in 1 .. 255
    BY CallFields, TwiAssumption DEF WireInv, WireTypeOK, TwiInv, TypeOK
  <2>4. /\ Len(got) \in 0 .. BufLen - 1 /\ Len(got) + 1 \in 1 .. mIdx
        /\ (Len(got) + 1) - 1 = Len(got)
    BY <2>1, <2>2, <2>3
  <2>5. mBuf[Len(got)] = dialog[Len(got) + 1] /\ mBuf[Len(got)] \in Byte
    BY <2>2, <2>3, <2>4 DEF Stored
  <2>6. Len(got') = Len(got) + 1
    BY <2>1, <2>3, <2>5, AppendProperties
  <2>7. \A k \in 1 .. Len(got) + 1 : rxBuffer'[k - 1] = dialog[k]
    <3>1. \A k \in 1 .. Len(got) + 1 : \/ (k \in 1 .. Len(got) /\ k - 1 # Len(got))
                                       \/ (k = Len(got) + 1 /\ k - 1 = Len(got))
      <4>1. Len(got) \in 0 .. 255
        BY <2>3, <2>4, IndexIsByte
      <4>. QED BY <4>1, LastIndex
    <3>2. \A k \in 1 .. Len(got) : rxBuffer[k - 1] = dialog[k]
      BY <2>1 DEF CopyInv
    <3>3. rxBuffer'[Len(got)] = mBuf[Len(got)]
          /\ \A j \in 0 .. BufLen - 1 : j # Len(got) => rxBuffer'[j] = rxBuffer[j]
      BY <2>1, <2>3, <2>4
    <3>4. \A k \in 1 .. Len(got) : k - 1 \in 0 .. BufLen - 1
      BY <2>3, <2>4
    <3>. QED BY <2>4, <2>5, <3>1, <3>2, <3>3, <3>4
  <2>. QED BY <2>1, <2>6, <2>7 DEF CopyInv, RequestIntact
<1>5. CASE RequestReturns \/ EndTransmissionReturns
  BY <1>1, <1>5 DEF RequestReturns, EndTransmissionReturns, Return
<1>6. CASE EndTransmissionCopies \/ RequestSetsUp
  BY <1>1, <1>6 DEF EndTransmissionCopies, RequestSetsUp, Setup
<1>7. CASE PlainSteps /\ UNCHANGED wireVars
  <2>1. CASE Wait \/ Claim \/ Start \/ RepeatedStart \/ Poll
    BY <1>1, <2>1 DEF Wait, Claim, Start, RepeatedStart, Poll
  <2>2. CASE Result
    <3>1. /\ pc = "result" /\ got' = got /\ call' = call
          /\ (pc' = "copy" \/ (pc' = "ret" /\ call.kind = "W"))
      BY <2>2 DEF Result, Main
    <3>2. Len(got) = 0
      BY <3>1 DEF WireInv, TwiInv, CallInv
    <3>. QED BY <1>1, <3>1, <3>2 DEF CopyInv, RequestIntact
  <2>3. CASE Copied
    <3>1. /\ pc = "copy" /\ pc' = "ret" /\ Len(got) = n /\ ret' = n
          /\ UNCHANGED << rxBuffer, dialog >>
      BY <1>7, <2>3 DEF Copied, Main, ghosts, asMaster, wireVars, rxVars
    <3>. QED BY <3>1 DEF CopyInv, RequestIntact
  <2>. QED BY <1>7, <2>1, <2>2, <2>3 DEF PlainSteps
<1>8. CASE WireHandlers
  <2>1. PlainHandlers \/ IsrSlaveStop \/ \E reply \in Seq(Byte) : IsrSlaveRequested(reply)
    <3>1. << >> \in Seq(Byte) /\ Replies \subseteq Seq(Byte)
      BY TwiAssumption
    <3>. QED BY <1>8, <3>1 DEF WireHandlers, Received, Requested, onRequestService
  <2>2. pc = "poll" /\ pc' = pc
    BY <2>1, HandlerWhen DEF WireInv
  <2>. QED BY <1>1, <2>2
<1>9. CASE Bus /\ UNCHANGED wireVars
  <2>1. /\ UNCHANGED << pc, call, got, ret, rxBuffer >>
        /\ (Busy \/ dialog' = dialog)
    BY <1>9, BusWhen DEF WireInv, wireVars, rxVars
  <2>2. CASE Busy
    BY <1>1, <2>1, <2>2 DEF Busy
  <2>. QED BY <1>2, <2>1, <2>2
<1>10. CASE UNCHANGED allVars
  BY <1>2, <1>10 DEF allVars, vars, sketch, asMaster, wireVars, rxVars
<1>11. CASE RequestRewinds
  BY <1>2, <1>11 DEF RequestRewinds, vars, sketch, asMaster
<1>. QED BY <1>3, <1>4, <1>5, <1>6, <1>7, <1>8, <1>9, <1>10, <1>11 DEF WireNext, WireSteps

LEMMA MasterStart == WireInit => MasterInv /\ CopyInv /\ OwnTxInv
<1>. SUFFICES ASSUME WireInit PROVE MasterInv /\ CopyInv /\ OwnTxInv
  OBVIOUS
<1>. USE TwiAssumption DEF WireInit, Init
<1>1. QuietInv /\ RestInv
  BY DEF QuietInv, RestInv, Busy, Closed, Status
<1>2. BusyInv /\ SetInv /\ SentInv /\ ReceivedInv
  BY DEF BusyInv, SetInv, SentInv, ReceivedInv, Busy
<1>3. DoneInv /\ CopyInv /\ OwnTxInv
  BY DEF DoneInv, CopyInv, RequestIntact, OwnTxInv
<1>. QED BY <1>1, <1>2, <1>3 DEF MasterInv

LEMMA MasterInvariant ==
  AsksForBytes /\ ~OtherMasters /\ WireSpec => [](MasterInv /\ CopyInv /\ OwnTxInv)
<1>. DEFINE Hyp == AsksForBytes /\ ~OtherMasters
            Inv == WireInv /\ MasterInv /\ CopyInv /\ OwnTxInv
<1>1. Hyp => Hyp'
  BY DEF AsksForBytes
<1>2. Hyp /\ Inv /\ [WireNext]_allVars => Inv'
  BY WireStep, MasterStep, CopyStep, OwnTxStep
<1>3. WireInit => Inv
  BY WireStart, MasterStart
<1>. QED BY <1>1, <1>2, <1>3, PTL DEF WireSpec

(* endTransmission() reports success only of what write() accepted, whole  *)
(* and in order, whatever the bus did to it on the way.                    *)
THEOREM SuccessMeansSent ==
  AsksForBytes /\ ~OtherMasters /\ WireSpec => []SentWhatWasAccepted
<1>1. DoneInv /\ OwnTxInv => SentWhatWasAccepted
  BY DEF DoneInv, OwnTxInv, SentWhatWasAccepted
<1>2. MasterInv => DoneInv
  BY DEF MasterInv
<1>. QED BY <1>1, <1>2, MasterInvariant, PTL

(* The bytes requestFrom() counts are those the slave sent, in order.      *)
THEOREM WhatIsReadWasSent ==
  AsksForBytes /\ ~OtherMasters /\ WireSpec => []RequestIntact
<1>1. CopyInv => RequestIntact
  BY DEF CopyInv
<1>. QED BY <1>1, MasterInvariant, PTL

-----------------------------------------------------------------------------
(* The driver by itself, whose calls may also be refused, on a bus of one  *)
(* master: all that it returns is what happened, and the bus is left.      *)

(* A slave has answered its address once bytes are on their way; what came *)
(* is in the buffer but for the byte just come, and all came when the last *)
(* was refused.                                                            *)
AnsweredInv ==
  /\ pc \in { "wait", "claim", "setup", "start", "rep" } => ~answered
  /\ Busy =>
       /\ (phase = "addr" \/ (phase = "none" /\ status = None)) => ~answered
       /\ phase \in { "mt", "mr" } => answered
       /\ status = "MT_DATA_NACK" => Len(dialog) + 1 = mIdx
       /\ (phase = "mr" /\ status = "BUS_ERROR") => Len(dialog) = mIdx
       /\ status = "MR_DATA_NACK" => mIdx = mLen

(* What the handler leaves for the call to return. *)
Refused == answered /\ IsPrefixOf(dialog, call.data) /\ dialog # call.data
EndInv ==
  (pc = "result" \/ (pc = "poll" /\ ~Busy)) =>
    /\ error = "MT_SLA_NACK" => ~answered
    /\ call.kind = "W" => /\ error = None => answered
                          /\ error = "MT_DATA_NACK" => Refused
    /\ call.kind = "R" => /\ Len(dialog) = mIdx /\ mIdx <= call.len
                          /\ (answered /\ error = None) => mIdx = call.len

CopiedInv ==
  pc = "copy" =>
    /\ n = Len(dialog) /\ ((answered /\ error = None) => n = call.len)
    /\ \A k \in 1 .. Len(got) : got[k] = dialog[k]

ReturnInv == AnsweredInv /\ EndInv /\ CopiedInv /\ WriteResultSound /\ ReadResultSound

LEMMA ReturnBus ==
  ASSUME TwiInv, MasterInv, MasterInv', ReturnInv, ~OtherMasters, Bus
  PROVE  ReturnInv'
<1>1. /\ status = None /\ status' # None
      /\ UNCHANGED << state, slarw, sendStop, inRepStart, error, mBuf, mIdx, mLen,
                      twea, twie, twsta, pc, call, got, n, ret >>
      /\ \/ Busy /\ pc \notin { "start", "rep" }
         \/ /\ ~Busy /\ phase = "rep" /\ phase' = "addr" /\ status' = "START"
            /\ dialog' = dialog /\ ~twie
  BY BusWhen
<1>2. CASE ~Busy
  <2>1. phase = "rep" /\ dialog' = dialog /\ ~Busy'
    BY <1>1, <1>2 DEF Busy, Own
  <2>2. answered' = answered
    BY <2>1 DEF Bus, StartSent, AddressSent, DataSent, Addressed, ForeignStops,
       BusError, DataReceived, ForeignWrites, ForeignReads, asMaster
  <2>3. AnsweredInv' /\ EndInv' /\ CopiedInv'
    BY <1>1, <1>2, <2>1, <2>2 DEF ReturnInv, AnsweredInv, EndInv, CopiedInv, Refused
  <2>4. WriteResultSound' /\ ReadResultSound'
    BY <1>1, <2>1, <2>2 DEF ReturnInv, WriteResultSound, ReadResultSound
  <2>. QED BY <2>3, <2>4 DEF ReturnInv
<1>3. CASE Busy
  <2>1. pc = "poll" /\ Busy'
    BY <1>1, <1>3 DEF Busy, Own
  <2>2. EndInv' /\ CopiedInv' /\ WriteResultSound' /\ ReadResultSound'
    BY <1>1, <2>1 DEF EndInv, CopiedInv, WriteResultSound, ReadResultSound
  <2>3. /\ call.kind \in { "R", "W" }
        /\ dialog \in Seq(Byte) /\ mIdx \in Nat /\ mLen \in Nat
    BY <2>1, CallFields DEF TwiInv, CallInv, InCall, TypeOK
  <2>. SUFFICES AnsweredInv'
    BY <2>2 DEF ReturnInv
  <2>4. /\ (phase = "addr" \/ phase = "none") => ~answered
        /\ phase \in { "mt", "mr" } => answered
    BY <1>1, <1>3 DEF ReturnInv, AnsweredInv
  <2>5. CASE StartSent
    BY <1>1, <2>1, <2>4, <2>5 DEF StartSent, Raise, asMaster, AnsweredInv, MasterInv, BusyInv,
       MasterPhase
  <2>6. CASE AddressSent
    <3>1. /\ phase = "addr"
          /\ \/ status' \in { "MR_SLA_ACK", "MT_SLA_ACK" } /\ phase' \in { "mr", "mt" } /\ answered'
             \/ /\ status' \in { "MR_SLA_NACK", "MT_SLA_NACK" } /\ phase' = "addr"
                /\ answered' = answered
             \/ status' = "ARB_LOST" /\ phase' = "none" /\ answered' = answered
      BY <2>6 DEF AddressSent, Raise
    <3>. QED BY <1>1, <2>1, <2>4, <3>1 DEF AnsweredInv
  <2>7. CASE DataSent
    <3>1. /\ phase = "mt" /\ answered' = answered
          /\ \/ status' = "MT_DATA_ACK" /\ phase' = "mt"
             \/ status' = "MT_DATA_NACK" /\ phase' = "mt" /\ dialog' = dialog
             \/ status' = "ARB_LOST" /\ phase' = "none"
      BY <2>7 DEF DataSent, Raise, asMaster
    <3>2. call.kind = "W"
      BY <1>3, <2>3, <3>1 DEF MasterInv, ReceivedInv
    <3>3. Len(dialog) + 1 = mIdx
      BY <1>1, <1>3, <3>1, <3>2 DEF MasterInv, SentInv
    <3>. QED BY <1>1, <2>1, <2>4, <3>1, <3>3 DEF AnsweredInv
  <2>8. ASSUME NEW b \in Answers, DataReceived(b) PROVE AnsweredInv'
    <3>1. /\ phase = "mr" /\ phase' = "mr" /\ answered' = answered
          /\ \/ status' = "MR_DATA_ACK" /\ twea
             \/ status' = "MR_DATA_NACK" /\ ~twea
      BY <2>8 DEF DataReceived, Raise
    <3>2. call.kind = "R"
      BY <1>3, <2>3, <3>1 DEF MasterInv, SentInv
    <3>3. mIdx <= mLen /\ twea = (mIdx < mLen)
      BY <1>1, <1>3, <3>1, <3>2 DEF MasterInv, ReceivedInv
    <3>4. status' = "MR_DATA_NACK" => mIdx = mLen
      <4>. SUFFICES ASSUME status' = "MR_DATA_NACK" PROVE mIdx = mLen
        OBVIOUS
      <4>1. ~twea
        BY <3>1
      <4>2. ~(mIdx < mLen)
        BY <3>3, <4>1, Zenon
      <4>. QED BY <2>3, <3>3, <4>2
    <3>. QED BY <1>1, <2>1, <2>4, <3>1, <3>4 DEF AnsweredInv
  <2>9. CASE BusError
    <3>1. /\ phase \in MasterPhase /\ phase' = phase /\ status' = "BUS_ERROR"
          /\ dialog' = dialog /\ answered' = answered
      BY <2>9 DEF BusError, Raise, asMaster, MasterInv, QuietInv
    <3>2. phase = "mr" => Len(dialog) = mIdx
      <4>1. phase = "mr" => call.kind = "R"
        BY <1>3, <2>3 DEF MasterInv, SentInv
      <4>. QED BY <1>1, <1>3, <4>1 DEF MasterInv, ReceivedInv
    <3>. QED BY <1>1, <2>1, <2>4, <3>1, <3>2 DEF AnsweredInv, MasterPhase
  <2>10. ~Addressed /\ ~ForeignStops /\ ~(\E b \in Foreign : ForeignWrites(b))
         /\ ~(\E ack \in BOOLEAN : ForeignReads(ack))
    BY DEF MasterInv, QuietInv, Addressed, ForeignStops, ForeignWrites, ForeignReads
  <2>. QED BY <2>5, <2>6, <2>7, <2>8, <2>9, <2>10 DEF Bus
<1>. QED BY <1>2, <1>3

LEMMA ReturnHandler ==
  ASSUME TwiInv, MasterInv, MasterInv', ReturnInv,
         PlainHandlers \/ IsrSlaveStop \/ \E reply \in Seq(Byte) : IsrSlaveRequested(reply)
  PROVE  ReturnInv'
<1>1. /\ Busy /\ pc = "poll" /\ PlainHandlers
      /\ ~IsrSlaveAddressed /\ ~IsrSlaveReceives /\ ~IsrSlaveRefuses
      /\ ~IsrSlaveSends /\ ~IsrSlaveSentAll
      /\ status' = None
      /\ UNCHANGED << slarw, sendStop, mLen, pc, call, got, n, ret, dialog >>
  BY HandlerWhen
<1>2. answered' = answered
  BY <1>1 DEF PlainHandlers, IsrStart, IsrMasterSends, IsrRefused, IsrArbitrationLost,
     IsrMasterReceives, IsrMasterReceivesLast, IsrMasterReadRefused, asMaster
<1>3. CopiedInv' /\ WriteResultSound' /\ ReadResultSound'
  BY <1>1 DEF CopiedInv, WriteResultSound, ReadResultSound
<1>4. /\ call.kind \in { "R", "W" } /\ call.data \in Seq(Byte)
      /\ call.len \in Nat /\ call.len <= BufLen
      /\ call.kind = "W" => call.len = Len(call.data)
      /\ call.kind = "R" => call.len >= 1
  BY <1>1, CallFields DEF TwiInv, CallInv, InCall
<1>5. /\ dialog \in Seq(Byte) /\ Len(dialog) \in Nat /\ mIdx \in 0 .. 255 /\ mLen \in 0 .. 255
      /\ BufLen \in 1 .. 255
  BY TwiAssumption DEF TwiInv, TypeOK
<1>6. /\ error = None
      /\ call.kind = "W" => mLen = call.len
      /\ call.kind = "R" => mLen = call.len - 1
  BY <1>1 DEF MasterInv, SetInv
<1>7. /\ phase = "addr" => ~answered
      /\ phase \in { "mt", "mr" } => answered
      /\ status = "MT_DATA_NACK" => Len(dialog) + 1 = mIdx
      /\ (phase = "mr" /\ status = "BUS_ERROR") => Len(dialog) = mIdx
      /\ status = "MR_DATA_NACK" => mIdx = mLen
  BY <1>1 DEF ReturnInv, AnsweredInv
<1>8. ASSUME phase' = phase, phase \in MasterPhase, state' = state PROVE ReturnInv'
  <2>1. Busy'
    BY <1>1, <1>8 DEF Busy, Own
  <2>2. AnsweredInv' /\ EndInv'
    BY <1>1, <1>2, <1>7, <1>8, <2>1, TwiAssumption DEF AnsweredInv, EndInv, MasterPhase, Status
  <2>. QED BY <1>3, <2>2 DEF ReturnInv
<1>9. ASSUME state' = "READY",
             error' = "MT_SLA_NACK" => ~answered,
             call.kind = "W" /\ error' = None => answered,
             call.kind = "W" /\ error' = "MT_DATA_NACK" => Refused,
             call.kind = "R" => Len(dialog) = mIdx' /\ mIdx' <= call.len,
             call.kind = "R" /\ answered /\ error' = None => mIdx' = call.len
      PROVE  ReturnInv'
  <2>1. ~Busy'
    BY <1>9 DEF Busy, Own
  <2>2. AnsweredInv'
    BY <1>1, <2>1 DEF AnsweredInv
  <2>3. EndInv'
    BY <1>1, <1>2, <1>9 DEF EndInv, Refused
  <2>. QED BY <1>3, <2>2, <2>3 DEF ReturnInv
<1>10. CASE IsrStart
  BY <1>8, <1>10 DEF IsrStart, Isr, twi_reply, TwiInv, BusInv, MasterPhase
<1>11. CASE IsrMasterSends
  <2>1. phase = "mt" /\ answered
    BY <1>7, <1>11 DEF IsrMasterSends, Isr, TwiInv, BusInv
  <2>2. call.kind = "W"
    BY <1>1, <1>4, <2>1 DEF MasterInv, ReceivedInv
  <2>3. CASE mIdx < mLen
    <3>1. ~(mIdx >= mLen)
      BY <1>5, <2>3
    <3>2. phase' = phase /\ state' = state
      BY <1>11, <3>1 DEF IsrMasterSends, twi_reply
    <3>. QED BY <1>8, <2>1, <3>2 DEF MasterPhase
  <2>4. CASE ~(mIdx < mLen)
    <3>1. Finish /\ error' = error
      BY <1>11, <2>4 DEF IsrMasterSends
    <3>2. state' = "READY" /\ error' = None
      BY <1>6, <3>1 DEF Finish, twi_stop
    <3>. QED BY <1>9, <2>1, <2>2, <3>2, TwiAssumption DEF Status
  <2>. QED BY <2>3, <2>4
<1>12. CASE IsrRefused \/ IsrArbitrationLost
  <2>1. /\ state' = "READY" /\ error' = status /\ mIdx' = mIdx /\ error' # None
        /\ status \in { "MT_SLA_NACK", "MT_DATA_NACK", "BUS_ERROR", "ARB_LOST" }
    BY <1>12, TwiAssumption DEF IsrRefused, IsrArbitrationLost, Isr, twi_stop, twi_releaseBus,
       Status
  <2>2. error' = "MT_SLA_NACK" => ~answered
    BY <1>7, <2>1 DEF TwiInv, BusInv
  <2>3. call.kind = "W" /\ error' = "MT_DATA_NACK" => Refused
    <3>. SUFFICES ASSUME call.kind = "W", status = "MT_DATA_NACK" PROVE Refused
      BY <2>1
    <3>1. phase = "mt" /\ answered
      BY <1>7 DEF TwiInv, BusInv
    <3>2. IsPrefixOf(dialog, call.data) /\ mIdx <= mLen
      BY <1>1, <3>1 DEF MasterInv, SentInv
    <3>3. Len(dialog) # Len(call.data)
      BY <1>4, <1>5, <1>6, <1>7, <3>2
    <3>. QED BY <3>1, <3>2, <3>3 DEF Refused
  <2>4. call.kind = "R" => Len(dialog) = mIdx /\ mIdx <= call.len
    <3>. SUFFICES ASSUME call.kind = "R" PROVE Len(dialog) = mIdx /\ mIdx <= call.len
      OBVIOUS
    <3>1. CASE phase = "mr"
      <4>1. status = "BUS_ERROR"
        BY <2>1, <3>1 DEF TwiInv, BusInv
      <4>2. mIdx <= mLen
        BY <1>1, <3>1 DEF MasterInv, ReceivedInv
      <4>. QED BY <1>4, <1>5, <1>6, <1>7, <3>1, <4>1, <4>2
    <3>2. CASE phase # "mr"
      <4>1. dialog = << >> /\ mIdx = 0
        BY <1>1, <3>2 DEF MasterInv, ReceivedInv
      <4>. QED BY <1>4, <4>1
    <3>. QED BY <3>1, <3>2
  <2>. QED BY <1>9, <2>1, <2>2, <2>3, <2>4
<1>13. CASE IsrMasterReceives
  BY <1>8, <1>13 DEF IsrMasterReceives, Isr, twi_reply, TwiInv, BusInv, MasterPhase
<1>14. CASE IsrMasterReceivesLast
  <2>1. phase = "mr" /\ status = "MR_DATA_NACK" /\ mIdx = mLen
    BY <1>7, <1>14 DEF IsrMasterReceivesLast, Isr, TwiInv, BusInv
  <2>2. call.kind = "R"
    BY <1>1, <1>4, <2>1 DEF MasterInv, SentInv
  <2>3. Len(dialog) = mIdx + 1
    BY <1>1, <2>1, <2>2 DEF MasterInv, ReceivedInv
  <2>4. StoreReceived /\ Finish /\ error' = error
    BY <1>14 DEF IsrMasterReceivesLast
  <2>5. mIdx' = mIdx + 1
    <3>1. mIdx < 255
      BY SMTT(30), <1>4, <1>5, <1>6, <2>1, <2>2
    <3>2. (mIdx + 1) % 256 = mIdx + 1
      BY <1>5, <3>1, LastIndex
    <3>. QED BY <2>4, <3>2 DEF StoreReceived
  <2>6. mIdx' = call.len
    BY <1>4, <1>6, <2>1, <2>2, <2>5
  <2>7. state' = "READY" /\ error' = None
    BY <1>6, <2>4 DEF Finish, twi_stop
  <2>8. Len(dialog) = mIdx' /\ mIdx' <= call.len
    BY <1>4, <2>3, <2>5, <2>6
  <2>. QED BY <1>9, <2>2, <2>6, <2>7, <2>8, TwiAssumption DEF Status
<1>15. CASE IsrMasterReadRefused
  <2>1. /\ state' = "READY" /\ status = "MR_SLA_NACK" /\ phase = "addr" /\ ~answered
        /\ mIdx' = mIdx /\ error' = None
    BY <1>6, <1>7, <1>15 DEF IsrMasterReadRefused, Isr, twi_stop, driver, TwiInv, BusInv
  <2>2. call.kind = "R"
    BY <1>1, <1>4, <2>1 DEF MasterInv, SentInv
  <2>3. dialog = << >> /\ mIdx = 0
    BY <1>1, <2>1, <2>2 DEF MasterInv, ReceivedInv
  <2>4. Len(dialog) = mIdx' /\ mIdx' <= call.len
    BY <1>4, <2>1, <2>3
  <2>. QED BY <1>9, <2>1, <2>2, <2>4, TwiAssumption DEF Status
<1>. QED BY <1>1, <1>10, <1>11, <1>12, <1>13, <1>14, <1>15 DEF PlainHandlers

LEMMA ReturnSketch ==
  ASSUME TwiInv, MasterInv, ReturnInv,
         \/ twi_init \/ twi_disable \/ (\E c, refusal : Call(c, refusal) /\ ~(BufLen < c.len))
         \/ PlainSteps \/ CopyByte \/ Return \/ \E data : Setup(data)
  PROVE  ReturnInv'
<1>. DEFINE Quiet == pc \in { "idle", "wait", "claim", "setup", "start", "rep" }
<1>1. ASSUME Quiet', pc' = "idle" \/ ~answered' PROVE ReturnInv'
  BY <1>1 DEF ReturnInv, AnsweredInv, EndInv, CopiedInv, WriteResultSound, ReadResultSound, Busy
<1>2. CASE twi_init \/ twi_disable \/ Return
  BY <1>1, <1>2 DEF twi_init, twi_disable, Return, Main, sketch
<1>3. ASSUME NEW c, NEW refusal, Call(c, refusal), ~(BufLen < c.len) PROVE ReturnInv'
  BY <1>1, <1>3 DEF Call
<1>4. CASE Wait \/ Claim \/ \E data : Setup(data)
  <2>1. pc \in { "wait", "claim", "setup" } /\ Quiet' /\ answered' = answered
    BY <1>4 DEF Wait, Claim, Setup, Main, ghosts, asMaster
  <2>. QED BY <1>1, <2>1 DEF ReturnInv, AnsweredInv
<1>5. CASE Start \/ RepeatedStart
  <2>1. /\ pc \in { "start", "rep" } /\ pc' = "poll" /\ status' = None /\ phase' = phase
        /\ state' = state /\ call' = call /\ answered' = answered
    BY <1>5 DEF Start, RepeatedStart, Main, SetTwcr, ghosts, asMaster
  <2>2. state = Own /\ ~answered
    BY <2>1 DEF MasterInv, RestInv, ReturnInv, AnsweredInv
  <2>3. Busy'
    BY <2>1, <2>2 DEF Busy, Own
  <2>4. phase \in { "none", "addr" }
    <3>1. CASE Start
      BY <3>1 DEF Start, Main, MasterInv, RestInv, FreeBus
    <3>2. CASE RepeatedStart
      BY <3>2 DEF RepeatedStart, Main, MasterInv, RestInv, HeldStart
    <3>. QED BY <1>5, <3>1, <3>2
  <2>5. AnsweredInv'
    BY <2>1, <2>2, <2>3, <2>4, TwiAssumption DEF AnsweredInv, Status
  <2>. QED BY <2>1, <2>3, <2>5 DEF ReturnInv, EndInv, CopiedInv, WriteResultSound, ReadResultSound
<1>6. CASE Poll
  <2>1. /\ pc = "poll" /\ pc' = "result" /\ ~Busy
        /\ UNCHANGED << error, mIdx, call, dialog, answered >>
    BY <1>6 DEF Poll, Main, Busy, driver, ghosts, asMaster
  <2>2. EndInv'
    BY <2>1 DEF ReturnInv, EndInv, Refused
  <2>. QED BY <2>1, <2>2 DEF ReturnInv, AnsweredInv, CopiedInv, WriteResultSound, ReadResultSound, Busy
<1>7. CASE Result
  <2>1. /\ pc = "result" /\ got' = got
        /\ UNCHANGED << error, mIdx, call, dialog, answered >>
    BY <1>7 DEF Result, Main, driver, ghosts, asMaster
  <2>2. call.kind \in { "R", "W" } /\ call.len \in Nat /\ got = << >>
    BY <2>1, CallFields DEF TwiInv, CallInv, InCall
  <2>3. CASE call.kind = "W"
    <3>1. pc' = "ret" /\ ret' = Code
      BY <1>7, <2>3 DEF Result
    <3>2. /\ error = None => answered /\ dialog = call.data
          /\ error = "MT_SLA_NACK" => ~answered
          /\ error = "MT_DATA_NACK" => Refused
      BY <2>1, <2>3 DEF ReturnInv, EndInv, MasterInv, DoneInv
    <3>3. /\ ret' = 0 => error = None
          /\ ret' # 1
          /\ ret' = 2 => error = "MT_SLA_NACK"
          /\ ret' = 3 => error = "MT_DATA_NACK"
      BY <3>1 DEF Code
    <3>4. WriteResultSound'
      BY <2>1, <3>2, <3>3 DEF WriteResultSound, Refused
    <3>. QED BY <2>1, <2>3, <3>1, <3>4 DEF ReturnInv, AnsweredInv, EndInv, CopiedInv,
             ReadResultSound, Busy
  <2>4. CASE call.kind = "R"
    <3>1. pc' = "copy" /\ n' = IF mIdx < call.len THEN mIdx ELSE call.len
      BY <1>7, <2>4 DEF Result
    <3>2. Len(dialog) = mIdx /\ mIdx <= call.len /\ (answered /\ error = None => mIdx = call.len)
      BY <2>1, <2>4 DEF ReturnInv, EndInv
    <3>3. mIdx \in Nat
      BY DEF TwiInv, TypeOK
    <3>4. n' = mIdx
      BY <2>2, <3>1, <3>2, <3>3
    <3>5. CopiedInv'
      <4>1. Len(got') = 0
        BY <2>1, <2>2
      <4>. QED BY <2>1, <3>2, <3>4, <4>1 DEF CopiedInv
    <3>. QED BY <3>1, <3>5 DEF ReturnInv, AnsweredInv, EndInv, WriteResultSound, ReadResultSound, Busy
  <2>. QED BY <2>2, <2>3, <2>4
<1>8. CASE CopyByte
  <2>1. /\ pc = "copy" /\ pc' = "copy" /\ Len(got) < n /\ got' = Append(got, mBuf[Len(got)])
        /\ UNCHANGED << error, mIdx, call, dialog, answered, n >>
    BY <1>8 DEF CopyByte, Main, driver, ghosts, asMaster
  <2>2. /\ n = Len(dialog) /\ ((answered /\ error = None) => n = call.len)
        /\ \A k \in 1 .. Len(got) : got[k] = dialog[k]
    BY <2>1 DEF ReturnInv, CopiedInv
  <2>3. Stored /\ n <= mIdx /\ n <= call.len /\ call.len <= BufLen
    BY <2>1 DEF MasterInv, DoneInv, TwiInv, CallInv, InCall
  <2>4. /\ got \in Seq(Byte) /\ Len(got) \in Nat /\ n \in Nat /\ mIdx \in Nat /\ call.len \in Nat
        /\ mBuf \in [0 .. BufLen - 1 -> Byte] /\ BufLen \in 1 .. 255
    BY SMTT(30), CallFields, TwiAssumption DEF TwiInv, TypeOK
  <2>5. /\ Len(got) \in 0 .. BufLen - 1 /\ Len(got) + 1 \in 1 .. mIdx
        /\ (Len(got) + 1) - 1 = Len(got)
    BY <2>1, <2>3, <2>4
  <2>6. mBuf[Len(got)] = dialog[Len(got) + 1] /\ mBuf[Len(got)] \in Byte
    BY <2>3, <2>4, <2>5 DEF Stored
  <2>7. /\ Len(got') = Len(got) + 1 /\ got'[Len(got) + 1] = mBuf[Len(got)]
        /\ \A k \in 1 .. Len(got) : got'[k] = got[k]
    BY <2>1, <2>4, <2>6, AppendProperties
  <2>8. \A k \in 1 .. Len(got') : got'[k] = dialog[k]
    <3>1. \A k \in 1 .. Len(got) + 1 : k \in 1 .. Len(got) \/ k = Len(got) + 1
      BY <2>4
    <3>. QED BY <2>2, <2>6, <2>7, <3>1
  <2>9. CopiedInv'
    BY <2>1, <2>2, <2>8 DEF CopiedInv
  <2>. QED BY <2>1, <2>9 DEF ReturnInv, AnsweredInv, EndInv, WriteResultSound, ReadResultSound, Busy
<1>9. CASE Copied
  <2>1. /\ pc = "copy" /\ pc' = "ret" /\ Len(got) = n /\ ret' = n
        /\ UNCHANGED << error, call, dialog, answered, got >>
    BY <1>9 DEF Copied, Main, driver, ghosts, asMaster
  <2>2. /\ n = Len(dialog) /\ ((answered /\ error = None) => n = call.len)
        /\ \A k \in 1 .. Len(got) : got[k] = dialog[k]
    BY <2>1 DEF ReturnInv, CopiedInv
  <2>3. call.kind = "R" /\ n <= call.len /\ got \in Seq(Byte) /\ dialog \in Seq(Byte)
    BY <2>1 DEF TwiInv, CallInv, TypeOK
  <2>4. got = dialog
    BY <2>1, <2>2, <2>3, SeqEqual
  <2>5. ReadResultSound' /\ WriteResultSound'
    BY <2>1, <2>2, <2>3, <2>4 DEF ReadResultSound, WriteResultSound
  <2>. QED BY <2>1, <2>5 DEF ReturnInv, AnsweredInv, EndInv, CopiedInv, Busy
<1>. QED BY <1>2, <1>3, <1>4, <1>5, <1>6, <1>7, <1>8, <1>9 DEF PlainSteps

(* A call with too much for the buffers returns at once.                   *)
Refusal ==
  /\ Main("idle") /\ phase # "off" /\ pc' = "ret"
  /\ BufLen < call'.len /\ call'.len \in Nat
  /\ \/ call'.kind = "R" /\ call'.data = << >> /\ ret' = 0
     \/ call'.kind = "W" /\ call'.data \in Seq(Byte) /\ ret' = 1
  /\ call' \in [kind : { "none", "R", "W" }, data : Seq(Byte), len : Nat, stop : BOOLEAN]
  /\ answered' = FALSE /\ dialog' = << >>
  /\ UNCHANGED << state, driver, slave, hardware, got, n, asSlave >>

(* A call to read brings no data. *)
BringsData == call.kind # "W" => call.data = << >>

CallSteps ==
  \/ twi_init \/ twi_disable
  \/ \E stop \in BOOLEAN :
       \/ \E length \in 1 .. BufLen : twi_readFrom(length, stop)
       \/ \E data \in Seq(Byte) : Len(data) <= BufLen /\ twi_writeTo(data, stop)
  \/ PlainSteps \/ CopyByte \/ Return

HandlerSteps ==
  PlainHandlers \/ IsrSlaveStop \/ \E reply \in Seq(Byte) : IsrSlaveRequested(reply)

OwnAction == CallSteps \/ MasterSetup \/ HandlerSteps \/ Bus \/ UNCHANGED vars

LEMMA OwnIsTwi ==
  ASSUME TwiInv, OwnAction
  PROVE  TwiAction
<1>1. CASE CallSteps \/ HandlerSteps \/ Bus \/ UNCHANGED vars
  BY <1>1 DEF CallSteps, HandlerSteps, TwiAction
<1>2. CASE MasterSetup
  <2>1. call.data \in Seq(Byte) /\ << >> \in Seq(Byte)
    BY CallFields DEF TwiInv
  <2>. QED BY <1>2, <2>1 DEF MasterSetup, TwiAction
<1>. QED BY <1>1, <1>2 DEF OwnAction

LEMMA SpecIsTwi ==
  ASSUME TwiInv, AsksForBytes, BringsData, [Next]_vars
  PROVE  BringsData' /\ (Refusal \/ OwnAction)
<1>. USE TwiAssumption
<1>1. ASSUME NEW stop \in Stops, NEW length \in ReadLengths, twi_readFrom(length, stop)
      PROVE  BringsData' /\ (Refusal \/ OwnAction)
  <2>1. length \in Nat /\ length # 0 /\ stop \in BOOLEAN
    BY DEF AsksForBytes
  <2>2. /\ call' = ReadCall(length, stop) /\ call'.len = length /\ call'.kind = "R"
        /\ call'.data = << >>
        /\ call' \in [kind : { "none", "R", "W" }, data : Seq(Byte), len : Nat, stop : BOOLEAN]
    BY <1>1, <2>1 DEF twi_readFrom, Call, ReadCall
  <2>3. CASE BufLen < length
    BY <1>1, <2>1, <2>2, <2>3 DEF twi_readFrom, Call, Refusal, BringsData, ReadCall
  <2>4. CASE ~(BufLen < length)
    <3>1. length \in 1 .. BufLen
      BY <2>1, <2>4
    <3>2. OwnAction
      BY <1>1, <2>1, <3>1 DEF CallSteps, OwnAction
    <3>. QED BY <2>2, <3>2 DEF BringsData
  <2>. QED BY <2>3, <2>4
<1>2. ASSUME NEW stop \in Stops, NEW data \in Messages, twi_writeTo(data, stop)
      PROVE  BringsData' /\ (Refusal \/ OwnAction)
  <2>1. data \in Seq(Byte) /\ Len(data) \in Nat /\ stop \in BOOLEAN
    OBVIOUS
  <2>2. /\ call' = WriteCall(data, stop) /\ call'.len = Len(data) /\ call'.kind = "W"
        /\ call'.data = data
        /\ call' \in [kind : { "none", "R", "W" }, data : Seq(Byte), len : Nat, stop : BOOLEAN]
    BY <1>2, <2>1 DEF twi_writeTo, Call, WriteCall
  <2>3. CASE BufLen < Len(data)
    BY <1>2, <2>1, <2>2, <2>3 DEF twi_writeTo, Call, Refusal, BringsData, WriteCall
  <2>4. CASE ~(BufLen < Len(data))
    <3>1. Len(data) <= BufLen
      BY <2>1, <2>4
    <3>2. OwnAction
      BY <1>2, <2>1, <3>1 DEF CallSteps, OwnAction
    <3>. QED BY <2>2, <3>2 DEF BringsData
  <2>. QED BY <2>3, <2>4
<1>3. CASE twi_init \/ twi_disable \/ PlainSteps \/ CopyByte
  <2>1. call' = call
    BY <1>3 DEF twi_init, twi_disable, PlainSteps, Wait, Claim, Start, RepeatedStart, Poll,
       Result, Copied, CopyByte, sketch
  <2>. QED BY <1>3, <2>1 DEF BringsData, CallSteps, OwnAction
<1>4. CASE Return
  <2>1. call'.data = << >>
    BY <1>4 DEF Return, NoCall
  <2>. QED BY <1>4, <2>1 DEF BringsData, CallSteps, OwnAction
<1>5. CASE Setup(call.data)
  <2>1. pc = "setup" /\ call' = call
    BY <1>5 DEF Setup, Main
  <2>2. call.kind \in { "R", "W" }
    BY <2>1 DEF TwiInv, CallInv, InCall
  <2>3. MasterSetup
    BY <1>5, <2>2 DEF MasterSetup, BringsData
  <2>. QED BY <2>1, <2>3 DEF BringsData, OwnAction
<1>6. CASE Handlers
  <2>1. call' = call
    BY <1>6 DEF Handlers, PlainHandlers, IsrStart, IsrMasterSends, IsrRefused,
       IsrArbitrationLost, IsrMasterReceives, IsrMasterReceivesLast, IsrMasterReadRefused,
       IsrSlaveAddressed, IsrSlaveReceives, IsrSlaveRefuses, IsrSlaveSends,
       IsrSlaveSentAll, IsrSlaveStop, IsrSlaveRequested, sketch
  <2>2. HandlerSteps
    BY <1>6 DEF Handlers, HandlerSteps
  <2>. QED BY <2>1, <2>2 DEF BringsData, OwnAction
<1>7. CASE Bus
  <2>1. call' = call
    BY <1>7 DEF Bus, StartSent, AddressSent, DataSent, Addressed, ForeignStops,
       BusError, DataReceived, ForeignWrites, ForeignReads, sketch
  <2>. QED BY <1>7, <2>1 DEF BringsData, OwnAction
<1>8. CASE UNCHANGED vars
  BY <1>8 DEF vars, sketch, BringsData, OwnAction
<1>. QED BY <1>1, <1>2, <1>3, <1>4, <1>5, <1>6, <1>7, <1>8 DEF Next, Calls, Proceed

(* The refused call touches nothing but the sketch.                        *)
LEMMA RefusalStep ==
  ASSUME TwiInv, HeardInv, SpokenInv, StateInv, MasterInv, ReturnInv, Refusal
  PROVE  TwiInv' /\ HeardInv' /\ SpokenInv' /\ StateInv' /\ MasterInv' /\ ReturnInv'
<1>. USE TwiAssumption
<1>1. /\ pc = "idle" /\ pc' = "ret" /\ phase # "off"
      /\ BufLen < call'.len /\ call'.len \in Nat
      /\ \/ call'.kind = "R" /\ call'.data = << >> /\ ret' = 0
         \/ call'.kind = "W" /\ call'.data \in Seq(Byte) /\ ret' = 1
      /\ call' \in [kind : { "none", "R", "W" }, data : Seq(Byte), len : Nat, stop : BOOLEAN]
      /\ answered' = FALSE /\ dialog' = << >>
      /\ UNCHANGED << state, slarw, sendStop, inRepStart, error, mBuf, mIdx, mLen,
                      txBuf, txIdx, rxBuf, phase, status, twdr, twea, twie, twsta, got, n,
                      heard, spoken >>
  BY DEF Refusal, Main, driver, slave, hardware, twcr, asSlave
<1>2. ~Busy /\ ~Busy' /\ ~Claimed /\ ~Claimed'
  BY <1>1 DEF Busy, Claimed
<1>3. TwiInv'
  <2>1. << >> \in Seq(Byte)
    OBVIOUS
  <2>2. TypeOK'
    <3>1. ret' \in 0 .. 255
      BY ONLY <1>1
    <3>2. pc' \in { "idle", "wait", "claim", "setup", "start", "rep", "poll",
                    "result", "copy", "ret" }
      BY ONLY <1>1
    <3>3. answered' \in BOOLEAN /\ dialog' \in Seq(Byte)
      BY ONLY <1>1, <2>1
    <3>4. /\ state' \in { "READY", "MRX", "MTX", "SRX", "STX" }
          /\ slarw' \in { "R", "W" } /\ sendStop' \in BOOLEAN /\ inRepStart' \in BOOLEAN
          /\ error' \in Status \cup {None}
          /\ mBuf' \in [0 .. BufLen - 1 -> Byte] /\ mIdx' \in 0 .. 255 /\ mLen' \in 0 .. 255
      BY ONLY <1>1, TwiInv, Zenon DEF TwiInv, TypeOK
    <3>5. /\ txBuf' \in Seq(Byte) /\ Len(txBuf') <= BufLen /\ txIdx' \in Nat
          /\ rxBuf' \in Seq(Byte) /\ Len(rxBuf') <= BufLen
      BY ONLY <1>1, TwiInv, Zenon DEF TwiInv, TypeOK
    <3>6. /\ phase' \in MasterPhase \cup { "off", "none", "rep", "sr", "st" }
          /\ status' \in Status \cup {None} /\ twdr' \in Byte \cup { "R", "W" }
          /\ twea' \in BOOLEAN /\ twie' \in BOOLEAN /\ twsta' \in BOOLEAN
      BY ONLY <1>1, TwiInv, Zenon DEF TwiInv, TypeOK
    <3>7. /\ got' \in Seq(Byte) /\ n' \in 0 .. 255
          /\ heard' \in Seq(Byte) /\ spoken' \in Seq(Byte \cup { "R", "W" })
      BY ONLY <1>1, TwiInv, Zenon DEF TwiInv, TypeOK
    <3>. QED BY ONLY <1>1, <3>1, <3>2, <3>3, <3>4, <3>5, <3>6, <3>7 DEF TypeOK
  <2>3. CallInv'
    BY <1>1 DEF TwiInv, CallInv, InCall
  <2>4. BusInv' /\ TwdrInv'
    BY <1>1 DEF TwiInv, BusInv, TwdrInv
  <2>. QED BY <2>2, <2>3, <2>4 DEF TwiInv
<1>4. HeardInv' /\ SpokenInv'
  BY <1>1 DEF HeardInv, Taken, Overlong, SpokenInv, SlaveSpeaks
<1>5. StateInv'
  BY <1>1, <1>2 DEF StateInv, Overlong
<1>6. QuietInv' /\ RestInv'
  BY <1>1, <1>2 DEF MasterInv, QuietInv, RestInv, HeldStart, FreeBus, Closed
<1>7. BusyInv' /\ SetInv' /\ SentInv' /\ ReceivedInv' /\ DoneInv'
  BY <1>1, <1>2 DEF BusyInv, SetInv, SentInv, ReceivedInv, DoneInv
<1>8. AnsweredInv' /\ EndInv' /\ CopiedInv'
  BY <1>1, <1>2 DEF AnsweredInv, EndInv, CopiedInv
<1>9. WriteResultSound' /\ ReadResultSound'
  BY <1>1 DEF WriteResultSound, ReadResultSound
<1>. QED BY <1>3, <1>4, <1>5, <1>6, <1>7, <1>8, <1>9 DEF MasterInv, ReturnInv

DriverInv ==
  TwiInv /\ BringsData /\ HeardInv /\ SpokenInv /\ StateInv /\ MasterInv /\ ReturnInv

LEMMA DriverStep ==
  ASSUME AsksForBytes, ~OtherMasters, DriverInv, [Next]_vars
  PROVE  DriverInv'
<1>1. BringsData' /\ (Refusal \/ OwnAction)
  BY SpecIsTwi DEF DriverInv
<1>2. CASE Refusal
  BY <1>1, <1>2, RefusalStep DEF DriverInv
<1>3. CASE OwnAction
  <2>1. TwiAction
    BY <1>3, OwnIsTwi DEF DriverInv
  <2>2. TwiInv' /\ HeardInv' /\ SpokenInv' /\ StateInv'
    BY <2>1, TwiStep, HeardStep, SpokenStep, StateStep DEF DriverInv
  <2>3. TwiInv /\ MasterInv /\ ReturnInv
    BY DEF DriverInv
  <2>4. MasterInv' /\ ReturnInv'
    <3>1. CASE Bus
      <4>1. MasterInv'
        BY <2>3, <3>1, MasterBusIdle, MasterBusBusy
      <4>. QED BY <2>3, <3>1, <4>1, ReturnBus
    <3>2. CASE HandlerSteps
      <4>1. MasterInv'
        BY <2>3, <3>2, MasterHandler DEF HandlerSteps
      <4>. QED BY <2>3, <3>2, <4>1, ReturnHandler DEF HandlerSteps
    <3>3. CASE MasterSetup
      <4>1. MasterInv'
        BY <2>3, <3>3, MasterSetupStep
      <4>2. \E data : Setup(data)
        BY <3>3 DEF MasterSetup
      <4>. QED BY <2>3, <4>1, <4>2, ReturnSketch
    <3>4. CASE CallSteps
      <4>1. MasterInv'
        BY <2>3, <3>4, MasterSketch DEF CallSteps
      <4>2. \/ twi_init \/ twi_disable
            \/ \E c, refusal : Call(c, refusal) /\ ~(BufLen < c.len)
            \/ PlainSteps \/ CopyByte \/ Return
        <5>1. ASSUME NEW stop \in BOOLEAN, NEW length \in 1 .. BufLen, twi_readFrom(length, stop)
              PROVE  \E c, refusal : Call(c, refusal) /\ ~(BufLen < c.len)
          <6>1. ~(BufLen < ReadCall(length, stop).len)
            BY TwiAssumption DEF ReadCall
          <6>. QED BY <5>1, <6>1 DEF twi_readFrom
        <5>2. ASSUME NEW stop \in BOOLEAN, NEW data \in Seq(Byte), Len(data) <= BufLen,
                     twi_writeTo(data, stop)
              PROVE  \E c, refusal : Call(c, refusal) /\ ~(BufLen < c.len)
          <6>1. ~(BufLen < WriteCall(data, stop).len)
            BY <5>2, TwiAssumption DEF WriteCall
          <6>. QED BY <5>2, <6>1 DEF twi_writeTo
        <5>. QED BY <3>4, <5>1, <5>2 DEF CallSteps
      <4>. QED BY <2>3, <4>1, <4>2, ReturnSketch
    <3>5. CASE UNCHANGED vars
      <4>1. UNCHANGED << state, slarw, inRepStart, error, mBuf, mIdx, mLen, phase, status,
                         twdr, twea, twie, twsta, pc, call, got, n, ret, answered, dialog >>
        BY <3>5 DEF vars, driver, twcr, sketch, asMaster
      <4>2. MasterInv'
        BY <2>3, <4>1 DEF MasterInv, QuietInv, RestInv, BusyInv, SetInv, SentInv, ReceivedInv,
           DoneInv, Busy, HeldStart, FreeBus, Closed, Stored, Own
      <4>. QED BY <2>3, <4>1, <4>2 DEF ReturnInv, AnsweredInv, EndInv, CopiedInv, Refused,
               WriteResultSound, ReadResultSound, Busy, Own
    <3>. QED BY <1>3, <3>1, <3>2, <3>3, <3>4, <3>5 DEF OwnAction
  <2>. QED BY <1>1, <2>2, <2>4 DEF DriverInv
<1>. QED BY <1>1, <1>2, <1>3

LEMMA DriverStart == Init => DriverInv
<1>. SUFFICES ASSUME Init PROVE DriverInv
  OBVIOUS
<1>. USE TwiAssumption DEF Init
<1>1. TwiInv
  BY TwiInit
<1>2. HeardInv /\ SpokenInv /\ StateInv
  BY DEF HeardInv, SpokenInv, StateInv, SlaveSpeaks, Status
<1>3. QuietInv /\ RestInv
  BY DEF QuietInv, RestInv, Busy, Closed, Status
<1>4. BusyInv /\ SetInv /\ SentInv /\ ReceivedInv /\ DoneInv
  BY DEF BusyInv, SetInv, SentInv, ReceivedInv, DoneInv, Busy
<1>5. ReturnInv
  BY DEF ReturnInv, AnsweredInv, EndInv, CopiedInv, WriteResultSound, ReadResultSound, Busy
<1>6. BringsData
  BY DEF BringsData, NoCall
<1>. QED BY <1>1, <1>2, <1>3, <1>4, <1>5, <1>6 DEF DriverInv, MasterInv

(* All of it holds of the driver on a bus of one master, for buffers of    *)
(* any length, any calls and any faults of the bus: a call returns what    *)
(* happened and leaves the bus alone or held.  With other masters TLC      *)
(* finds the call that returns what did not happen.                        *)
THEOREM TransfersAreSound ==
  AsksForBytes /\ ~OtherMasters /\ Spec => []TwiIsSound
<1>. DEFINE Hyp == AsksForBytes /\ ~OtherMasters
<1>1. Hyp => Hyp'
  BY DEF AsksForBytes
<1>2. Hyp /\ DriverInv /\ [Next]_vars => DriverInv'
  BY DriverStep
<1>3. DriverInv => TwiIsSound
  <2>. SUFFICES ASSUME DriverInv PROVE TwiIsSound
    OBVIOUS
  <2>1. WriteResultSound /\ ReadResultSound
    BY DEF DriverInv, ReturnInv
  <2>2. BusLeft
    <3>. SUFFICES ASSUME pc \in { "idle", "result", "copy", "ret" }
                  PROVE  IF inRepStart
                           THEN state = "READY" /\ ~twie /\ phase \in { "off", "rep", "addr" }
                           ELSE phase \notin MasterPhase \cup { "rep" }
      BY DEF BusLeft
    <3>1. RestInv /\ ~Busy
      BY DEF DriverInv, MasterInv, Busy
    <3>2. /\ state = "READY"
          /\ Closed \/ (inRepStart /\ HeldStart) \/ (~inRepStart /\ FreeBus)
      BY <3>1 DEF RestInv
    <3>. QED BY <3>2 DEF Closed, HeldStart, FreeBus, MasterPhase
  <2>3. SlavePrefix
    BY DEF DriverInv, HeardInv, SlavePrefix, Taken, IsPrefixOf
  <2>4. SlaveDialogSound
    BY <2>3 DEF DriverInv, SpokenInv, SlaveDialogSound
  <2>5. NodeIsReady
    <3>1. pc = "idle" => ~Claimed
      BY DEF Claimed
    <3>. QED BY <3>1 DEF DriverInv, StateInv, NodeIsReady, Listens, StateFollowsBus
  <2>. QED BY <2>1, <2>2, <2>4, <2>5 DEF TwiIsSound
<1>. QED BY <1>1, <1>2, <1>3, DriverStart, PTL DEF Spec

=============================================================================
