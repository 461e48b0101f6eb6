-------------------------------- MODULE Twi --------------------------------
(***************************************************************************)
(* The two-wire driver of one node: twi_readFrom and twi_writeTo, called   *)
(* by the sketch, the interrupt handler that carries them and the slave    *)
(* side out, and the bus.                                                  *)
(*                                                                         *)
(* The handler is one atomic step per status: interrupts are off inside    *)
(* it.  The sketch is one process; pc names its next access to what it     *)
(* shares with the handler.  The bus is external: it decides what the      *)
(* other nodes answer, whether they address this one, and what fails.      *)
(***************************************************************************)
EXTENDS Integers, Sequences

CONSTANTS
  Byte, Zero,     \* the values of a byte; the one static storage starts with
  None,           \* no status pending, no error, no byte
  BufLen,         \* TWI_BUFFER_LENGTH
  Messages,       \* what the sketch writes: sequences of bytes
  ReadLengths,    \* how many bytes it asks for in one read
  Replies,        \* what the slave callback passes to twi_transmit, << >> if
                  \* it passes nothing
  Stops,          \* the values of sendStop the sketch uses
  OtherMasters,   \* TRUE: other masters share the bus and address this node
  Faults,         \* what may go wrong on the bus
  ForeignBytes,   \* how many bytes another master writes at most at a time
  Foreign,        \* the bytes it writes
  Answers         \* the bytes slaves send to this node

(* TW_STATUS. *)
Status ==
  { "START", "MT_SLA_ACK", "MT_SLA_NACK", "MT_DATA_ACK", "MT_DATA_NACK",
    "ARB_LOST", "MR_SLA_ACK", "MR_SLA_NACK", "MR_DATA_ACK", "MR_DATA_NACK",
    "SR_SLA_ACK", "SR_DATA_ACK", "SR_DATA_NACK", "SR_STOP",
    "ST_SLA_ACK", "ST_DATA_ACK", "ST_DATA_NACK", "ST_LAST_DATA", "BUS_ERROR" }

ASSUME TwiAssumption ==
  /\ Zero \in Byte /\ None \notin Byte \cup Status
  /\ BufLen \in 1 .. 255
  /\ Messages \subseteq Seq(Byte) /\ Replies \subseteq Seq(Byte)
  /\ ReadLengths \subseteq 0 .. 255
  /\ Stops \subseteq BOOLEAN
  /\ OtherMasters \in BOOLEAN
  /\ Faults \subseteq { "nack", "arbitration", "error" }
  /\ ForeignBytes \in Nat
  /\ Foreign \subseteq Byte /\ Answers \subseteq Byte

VARIABLES
  state,          \* twi_state
  slarw,          \* twi_slarw, without the address: "R" or "W"
  sendStop, inRepStart, error,
  mBuf, mIdx, mLen,   \* twi_masterBuffer, its index and length
  txBuf, txIdx,   \* twi_txBuffer up to twi_txBufferLength, and its index
  rxBuf,          \* twi_rxBuffer up to twi_rxBufferIndex
  phase,          \* what the node is doing on the bus
  status,         \* TW_STATUS while TWINT is set, else None
  twdr,           \* the data register
  twea, twie, twsta,  \* those bits of TWCR
  pc,             \* the sketch's next access
  call,           \* the call it is in
  got, n, ret,    \* its locals: bytes copied, bytes to copy, the result
  answered,       \* a slave has acknowledged an address since the call began
  dialog,         \* data acknowledged or received since, as bus master
  heard, spoken   \* data received and sent, as a slave addressed by others

driver == << slarw, sendStop, inRepStart, error, mBuf, mIdx, mLen >>
slave  == << txBuf, txIdx, rxBuf >>
twcr   == << twea, twie, twsta >>
sketch == << pc, call, got, n, ret >>
asMaster == << answered, dialog >>
asSlave  == << heard, spoken >>
vars == << state, driver, slave, phase, status, twdr, twcr, sketch, asMaster, asSlave >>

NoCall == [kind |-> "none", data |-> << >>, len |-> 0, stop |-> TRUE]
ReadCall(length, stop)  == [kind |-> "R", data |-> << >>, len |-> length, stop |-> stop]
WriteCall(data, stop)   == [kind |-> "W", data |-> data, len |-> Len(data), stop |-> stop]

MasterPhase == { "addr", "mt", "mr" }

TypeOK ==
  /\ state \in { "READY", "MRX", "MTX", "SRX", "STX" }
  /\ slarw \in { "R", "W" } /\ sendStop \in BOOLEAN /\ inRepStart \in BOOLEAN
  /\ error \in Status \cup {None}
  /\ mBuf \in [0 .. BufLen - 1 -> Byte] /\ mIdx \in 0 .. 255 /\ mLen \in 0 .. 255
  /\ txBuf \in Seq(Byte) /\ Len(txBuf) <= BufLen /\ txIdx \in Nat
  /\ rxBuf \in Seq(Byte) /\ Len(rxBuf) <= BufLen
  /\ phase \in MasterPhase \cup { "off", "none", "rep", "sr", "st" }
  /\ status \in Status \cup {None} /\ twdr \in Byte \cup { "R", "W" }
  /\ twea \in BOOLEAN /\ twie \in BOOLEAN /\ twsta \in BOOLEAN
  /\ pc \in { "idle", "wait", "claim", "setup", "start", "rep", "poll",
              "result", "copy", "ret" }
  /\ call \in [kind : { "none", "R", "W" }, data : Seq(Byte), len : Nat, stop : BOOLEAN]
  /\ got \in Seq(Byte) /\ n \in 0 .. 255 /\ ret \in 0 .. 255
  /\ answered \in BOOLEAN /\ dialog \in Seq(Byte)
  /\ heard \in Seq(Byte) /\ spoken \in Seq(Byte \cup { "R", "W" })

Init ==
  /\ state = "READY" /\ slarw = "W" /\ sendStop = FALSE /\ inRepStart = FALSE
  /\ error = None
  /\ mBuf = [k \in 0 .. BufLen - 1 |-> Zero] /\ mIdx = 0 /\ mLen = 0
  /\ txBuf = << >> /\ txIdx = 0 /\ rxBuf = << >>
  /\ phase = "off" /\ status = None /\ twdr = Zero
  /\ twea = FALSE /\ twie = FALSE /\ twsta = FALSE
  /\ pc = "idle" /\ call = NoCall /\ got = << >> /\ n = 0 /\ ret = 0
  /\ answered = FALSE /\ dialog = << >> /\ heard = << >> /\ spoken = << >>

-----------------------------------------------------------------------------
(* The bus. *)

Raise(s, ph) == status' = s /\ phase' = ph

(* START goes out when the bus is free, a repeated START at once. *)
StartSent ==
  /\ status = None /\ twsta /\ phase \in { "none", "rep" }
  /\ Raise("START", "addr")
  /\ UNCHANGED << state, driver, slave, twdr, twcr, sketch, asMaster, asSlave >>

(* What comes back for the address byte. *)
AddressSent ==
  /\ status = None /\ phase = "addr"
  /\ \/ /\ IF twdr = "R" THEN Raise("MR_SLA_ACK", "mr") ELSE Raise("MT_SLA_ACK", "mt")
        /\ answered' = TRUE
        /\ UNCHANGED asSlave
     \/ /\ "nack" \in Faults
        /\ Raise(IF twdr = "R" THEN "MR_SLA_NACK" ELSE "MT_SLA_NACK", "addr")
        /\ UNCHANGED << answered, asSlave >>
     \/ /\ "arbitration" \in Faults
        /\ Raise("ARB_LOST", "none")
        /\ UNCHANGED << answered, asSlave >>
     \/ /\ "arbitration" \in Faults /\ OtherMasters /\ twea
        /\ Raise("SR_SLA_ACK", "sr") \/ Raise("ST_SLA_ACK", "st")
        /\ heard' = << >> /\ spoken' = << >>
        /\ UNCHANGED answered
  /\ UNCHANGED << state, driver, slave, twdr, twcr, sketch, dialog >>

DataSent ==
  /\ status = None /\ phase = "mt"
  /\ \/ /\ Raise("MT_DATA_ACK", "mt")
        /\ dialog' = Append(dialog, twdr)
     \/ "nack" \in Faults /\ Raise("MT_DATA_NACK", "mt") /\ UNCHANGED dialog
     \/ "arbitration" \in Faults /\ Raise("ARB_LOST", "none") /\ UNCHANGED dialog
  /\ UNCHANGED << state, driver, slave, twdr, twcr, sketch, answered, asSlave >>

DataReceived(b) ==
  /\ status = None /\ phase = "mr"
  /\ Raise(IF twea THEN "MR_DATA_ACK" ELSE "MR_DATA_NACK", "mr")
  /\ twdr' = b
  /\ dialog' = Append(dialog, b)
  /\ UNCHANGED << state, driver, slave, twcr, sketch, answered, asSlave >>

(* Another master addresses this node, which answers while TWEA is set. *)
Addressed ==
  /\ OtherMasters
  /\ status = None /\ phase = "none" /\ twea
  /\ Raise("SR_SLA_ACK", "sr") \/ Raise("ST_SLA_ACK", "st")
  /\ heard' = << >> /\ spoken' = << >>
  /\ UNCHANGED << state, driver, slave, twdr, twcr, sketch, asMaster >>

(* Without TWEA the byte is refused and the node is no longer addressed. *)
ForeignWrites(b) ==
  /\ status = None /\ phase = "sr" /\ Len(heard) < ForeignBytes
  /\ IF twea THEN Raise("SR_DATA_ACK", "sr") ELSE Raise("SR_DATA_NACK", "none")
  /\ twdr' = b
  /\ heard' = Append(heard, b)
  /\ UNCHANGED << state, driver, slave, twcr, sketch, asMaster, spoken >>

ForeignStops ==
  /\ status = None /\ phase = "sr"
  /\ Raise("SR_STOP", "none")
  /\ UNCHANGED << state, driver, slave, twdr, twcr, sketch, asMaster, asSlave >>

ForeignReads(ack) ==
  /\ status = None /\ phase = "st"
  /\ IF ack /\ twea THEN Raise("ST_DATA_ACK", "st")
     ELSE Raise(IF ack THEN "ST_LAST_DATA" ELSE "ST_DATA_NACK", "none")
  /\ spoken' = Append(spoken, twdr)
  /\ UNCHANGED << state, driver, slave, twdr, twcr, sketch, asMaster, heard >>

BusError ==
  /\ "error" \in Faults
  /\ status = None /\ phase \in MasterPhase \cup { "sr", "st" }
  /\ Raise("BUS_ERROR", phase)
  /\ UNCHANGED << state, driver, slave, twdr, twcr, sketch, asMaster, asSlave >>

Bus ==
  \/ StartSent \/ AddressSent \/ DataSent \/ Addressed \/ ForeignStops \/ BusError
  \/ \E b \in Answers : DataReceived(b)
  \/ \E b \in Foreign : ForeignWrites(b)
  \/ \E ack \in BOOLEAN : ForeignReads(ack)

-----------------------------------------------------------------------------
(* Writing TWCR.  TWINT is among the bits of every write: the pending      *)
(* status is given up.                                                     *)

SetTwcr(ea, ie, sta) ==
  /\ status' = None
  /\ twea' = ea /\ twie' = ie /\ twsta' = sta

twi_reply(ack) ==
  /\ SetTwcr(ack, TRUE, FALSE)
  /\ phase' = phase

(* The STOP is over when twi_stop returns. *)
twi_stop ==
  /\ SetTwcr(TRUE, TRUE, FALSE)
  /\ phase' = "none"
  /\ state' = "READY"

twi_releaseBusKeepsState ==
  /\ SetTwcr(TRUE, TRUE, FALSE)
  /\ phase' = phase
  /\ state' = state

twi_releaseBus ==
  /\ SetTwcr(TRUE, TRUE, FALSE)
  /\ phase' = phase
  /\ state' = "READY"

(* The end of a transaction: a STOP, or a START whose interrupt waits for  *)
(* the next call.                                                          *)
Finish ==
  \/ sendStop /\ twi_stop /\ UNCHANGED inRepStart
  \/ /\ ~sendStop
     /\ inRepStart' = TRUE
     /\ SetTwcr(FALSE, FALSE, TRUE)
     /\ phase' = "rep"
     /\ state' = "READY"

-----------------------------------------------------------------------------
(* The interrupt handler, by status. *)

Isr(statuses) == twie /\ status \in statuses

IsrStart ==
  /\ Isr({ "START" })
  /\ twdr' = slarw
  /\ twi_reply(TRUE)
  /\ UNCHANGED << state, driver, slave, sketch, asMaster, asSlave >>

IsrMasterSends ==
  /\ Isr({ "MT_SLA_ACK", "MT_DATA_ACK" })
  /\ \/ /\ mIdx < mLen
        /\ twdr' = mBuf[mIdx]
        /\ mIdx' = mIdx + 1
        /\ twi_reply(TRUE)
        /\ UNCHANGED << state, inRepStart >>
     \/ /\ mIdx >= mLen
        /\ Finish
        /\ UNCHANGED << twdr, mIdx >>
  /\ UNCHANGED << slarw, sendStop, error, mBuf, mLen, slave, sketch, asMaster, asSlave >>

IsrRefused ==
  /\ Isr({ "MT_SLA_NACK", "MT_DATA_NACK", "BUS_ERROR" })
  /\ error' = status
  /\ twi_stop
  /\ UNCHANGED << slarw, sendStop, inRepStart, mBuf, mIdx, mLen, slave, twdr, sketch,
                  asMaster, asSlave >>

IsrArbitrationLost ==
  /\ Isr({ "ARB_LOST" })
  /\ error' = status
  /\ twi_releaseBus
  /\ UNCHANGED << slarw, sendStop, inRepStart, mBuf, mIdx, mLen, slave, twdr, sketch,
                  asMaster, asSlave >>

(* The index is a byte; a store past the buffer hits memory that is not    *)
(* modelled.                                                               *)
StoreReceived ==
  /\ mBuf' = [k \in 0 .. BufLen - 1 |-> IF k = mIdx THEN twdr ELSE mBuf[k]]
  /\ mIdx' = (mIdx + 1) % 256

WantsMore(index) == index < mLen

IsrMasterReceives ==
  /\ Isr({ "MR_SLA_ACK", "MR_DATA_ACK" })
  /\ IF status = "MR_DATA_ACK" THEN StoreReceived ELSE UNCHANGED << mBuf, mIdx >>
  /\ twi_reply(WantsMore(mIdx'))
  /\ UNCHANGED << state, slarw, sendStop, inRepStart, error, mLen, slave, twdr, sketch,
                  asMaster, asSlave >>

IsrMasterReceivesLast ==
  /\ Isr({ "MR_DATA_NACK" })
  /\ StoreReceived
  /\ Finish
  /\ UNCHANGED << slarw, sendStop, error, mLen, slave, twdr, sketch, asMaster, asSlave >>

IsrMasterReadRefused ==
  /\ Isr({ "MR_SLA_NACK" })
  /\ twi_stop
  /\ UNCHANGED << driver, slave, twdr, sketch, asMaster, asSlave >>

IsrSlaveAddressed ==
  /\ Isr({ "SR_SLA_ACK" })
  /\ state' = "SRX"
  /\ rxBuf' = << >>
  /\ twi_reply(TRUE)
  /\ UNCHANGED << driver, txBuf, txIdx, twdr, sketch, asMaster, asSlave >>

HasRoomOneTooMany == Len(rxBuf) <= BufLen
HasRoom == Len(rxBuf) < BufLen

IsrSlaveReceives ==
  /\ Isr({ "SR_DATA_ACK" })
  /\ rxBuf' = IF HasRoom THEN Append(rxBuf, twdr) ELSE rxBuf
  /\ twi_reply(HasRoom)
  /\ UNCHANGED << state, driver, txBuf, txIdx, twdr, sketch, asMaster, asSlave >>

IsrSlaveRefuses ==
  /\ Isr({ "SR_DATA_NACK" })
  /\ twi_reply(FALSE)
  /\ UNCHANGED << state, driver, slave, twdr, sketch, asMaster, asSlave >>

(* The callback is given rxBuf as it was. *)
IsrSlaveStop ==
  /\ Isr({ "SR_STOP" })
  /\ twi_releaseBus
  /\ rxBuf' = << >>
  /\ UNCHANGED << driver, txBuf, txIdx, twdr, sketch, asMaster, asSlave >>

(* What twi_transmit leaves of the callback's reply; a zero byte if nothing. *)
Reply(reply) ==
  IF reply = << >> \/ Len(reply) > BufLen THEN << Zero >> ELSE reply

LoadNextStuck(buffer, index) ==
  /\ twdr' = IF index < Len(buffer) THEN buffer[index + 1] ELSE Zero
  /\ txIdx' = index
  /\ twi_reply(index + 1 < Len(buffer))

LoadNext(buffer, index) ==
  /\ twdr' = IF index < Len(buffer) THEN buffer[index + 1] ELSE Zero
  /\ txIdx' = index + 1
  /\ twi_reply(index + 1 < Len(buffer))

IsrSlaveRequested(reply) ==
  /\ Isr({ "ST_SLA_ACK" })
  /\ state' = "STX"
  /\ txBuf' = Reply(reply)
  /\ LoadNext(Reply(reply), 0)
  /\ UNCHANGED << driver, rxBuf, sketch, asMaster, asSlave >>

IsrSlaveSends ==
  /\ Isr({ "ST_DATA_ACK" })
  /\ LoadNext(txBuf, txIdx)
  /\ UNCHANGED << state, driver, txBuf, rxBuf, sketch, asMaster, asSlave >>

IsrSlaveSentAllDeaf ==
  /\ Isr({ "ST_DATA_NACK", "ST_LAST_DATA" })
  /\ twi_reply(FALSE)
  /\ state' = "READY"
  /\ UNCHANGED << driver, slave, twdr, sketch, asMaster, asSlave >>

IsrSlaveSentAll ==
  /\ Isr({ "ST_DATA_NACK", "ST_LAST_DATA" })
  /\ twi_reply(TRUE)
  /\ state' = "READY"
  /\ UNCHANGED << driver, slave, twdr, sketch, asMaster, asSlave >>

(* The handlers that call nothing of the layer above. *)
PlainHandlers ==
  \/ IsrStart \/ IsrMasterSends \/ IsrRefused \/ IsrArbitrationLost
  \/ IsrMasterReceives \/ IsrMasterReceivesLast \/ IsrMasterReadRefused
  \/ IsrSlaveAddressed \/ IsrSlaveReceives \/ IsrSlaveRefuses
  \/ IsrSlaveSends \/ IsrSlaveSentAll

Handlers ==
  PlainHandlers \/ IsrSlaveStop \/ \E reply \in Replies : IsrSlaveRequested(reply)

-----------------------------------------------------------------------------
(* The sketch.  A pending handler runs before its next access. *)

Main(from) ==
  /\ pc = from
  /\ ~(twie /\ status # None)

hardware == << phase, status, twdr, twcr >>
ghosts   == << asMaster, asSlave >>

twi_init ==
  /\ Main("idle") /\ phase = "off"
  /\ state' = "READY" /\ sendStop' = TRUE /\ inRepStart' = FALSE
  /\ phase' = "none" /\ status' = None
  /\ twea' = TRUE /\ twie' = TRUE /\ twsta' = FALSE
  /\ UNCHANGED << slarw, error, mBuf, mIdx, mLen, slave, twdr, sketch, ghosts >>

twi_disable ==
  /\ Main("idle") /\ phase # "off"
  /\ phase' = "off" /\ status' = None
  /\ twea' = FALSE /\ twie' = FALSE /\ twsta' = FALSE
  /\ UNCHANGED << state, driver, slave, twdr, sketch, ghosts >>

(* A call with too long a buffer returns at once. *)
Call(c, refusal) ==
  /\ Main("idle") /\ phase # "off"
  /\ call' = c
  /\ IF BufLen < c.len THEN pc' = "ret" /\ ret' = refusal
                       ELSE pc' = "wait" /\ ret' = ret
  /\ answered' = FALSE /\ dialog' = << >>
  /\ UNCHANGED << state, driver, slave, hardware, got, n, asSlave >>

twi_readFrom(length, stop) == Call(ReadCall(length, stop), 0)
twi_writeTo(data, stop)    == Call(WriteCall(data, stop), 1)

(* The wait and the claim are two accesses. *)
Wait ==
  /\ Main("wait") /\ state = "READY"
  /\ pc' = "claim"
  /\ UNCHANGED << state, driver, slave, hardware, call, got, n, ret, ghosts >>

Own == IF call.kind = "R" THEN "MRX" ELSE "MTX"

Claim ==
  /\ Main("claim")
  /\ state' = Own
  /\ pc' = "setup"
  /\ UNCHANGED << driver, slave, hardware, call, got, n, ret, ghosts >>

LengthOfNotReduced(c) == c.len
LengthOf(c) == IF c.kind = "R" THEN (c.len - 1) % 256 ELSE c.len

(* data is what the caller's buffer holds by now. *)
Setup(data) ==
  /\ Main("setup")
  /\ sendStop' = call.stop
  /\ error' = None
  /\ mIdx' = 0
  /\ mLen' = LengthOf(call)
  /\ mBuf' = [k \in 0 .. BufLen - 1 |->
                IF k < Len(data) THEN data[k + 1] ELSE mBuf[k]]
  /\ slarw' = call.kind
  /\ inRepStart' = FALSE
  /\ pc' = IF inRepStart THEN "rep" ELSE "start"
  /\ UNCHANGED << state, slave, hardware, call, got, n, ret, ghosts >>

Start ==
  /\ Main("start")
  /\ SetTwcr(TRUE, TRUE, TRUE)
  /\ pc' = "poll"
  /\ UNCHANGED << state, driver, slave, phase, twdr, call, got, n, ret, ghosts >>

(* The data register takes the address once the repeated START is out. *)
RepeatedStart ==
  /\ Main("rep") /\ status # None
  /\ twdr' = slarw
  /\ SetTwcr(TRUE, TRUE, FALSE)
  /\ pc' = "poll"
  /\ UNCHANGED << state, driver, slave, phase, call, got, n, ret, ghosts >>

PollNever ==
  /\ Main("poll")
  /\ pc' = "result"
  /\ UNCHANGED << state, driver, slave, hardware, call, got, n, ret, ghosts >>

Poll ==
  /\ Main("poll") /\ state # Own
  /\ pc' = "result"
  /\ UNCHANGED << state, driver, slave, hardware, call, got, n, ret, ghosts >>

CodeDataFirst ==
  CASE error = None -> 0
    [] error = "MT_DATA_NACK" -> 2
    [] error = "MT_SLA_NACK" -> 3
    [] OTHER -> 4

Code ==
  CASE error = None -> 0
    [] error = "MT_SLA_NACK" -> 2
    [] error = "MT_DATA_NACK" -> 3
    [] OTHER -> 4

Result ==
  /\ Main("result")
  /\ IF call.kind = "W"
       THEN pc' = "ret" /\ ret' = Code /\ n' = n
       ELSE /\ pc' = "copy"
            /\ n' = IF mIdx < call.len THEN mIdx ELSE call.len
            /\ ret' = ret
  /\ UNCHANGED << state, driver, slave, hardware, call, got, ghosts >>

CopyByte ==
  /\ Main("copy") /\ Len(got) < n
  /\ got' = Append(got, mBuf[Len(got)])
  /\ UNCHANGED << state, driver, slave, hardware, pc, call, n, ret, ghosts >>

Copied ==
  /\ Main("copy") /\ Len(got) = n
  /\ pc' = "ret" /\ ret' = n
  /\ UNCHANGED << state, driver, slave, hardware, call, got, n, ghosts >>

Return ==
  /\ Main("ret")
  /\ pc' = "idle"
  /\ call' = NoCall /\ got' = << >> /\ n' = 0 /\ ret' = 0
  /\ UNCHANGED << state, driver, slave, hardware, ghosts >>

Calls ==
  \/ twi_init \/ twi_disable
  \/ \E stop \in Stops : \/ \E length \in ReadLengths : twi_readFrom(length, stop)
                         \/ \E data \in Messages : twi_writeTo(data, stop)

(* The steps that touch nothing of the layer above. *)
PlainSteps ==
  Wait \/ Claim \/ Start \/ RepeatedStart \/ Poll \/ Result \/ Copied

Proceed == PlainSteps \/ Setup(call.data) \/ CopyByte \/ Return

Next == Calls \/ Proceed \/ Handlers \/ Bus

Spec == Init /\ [][Next]_vars

(* The handler runs when it may, the bus carries on what was begun, and    *)
(* others end their transactions.  The sketch runs on between handlers and *)
(* a START wanted again and again goes out: others leave the bus free now  *)
(* and then.                                                               *)
FairSpec ==
  /\ Spec
  /\ SF_vars(Proceed) /\ SF_vars(StartSent)
  /\ WF_vars(Handlers)
  /\ WF_vars(AddressSent) /\ WF_vars(DataSent)
  /\ WF_vars(\E b \in Answers : DataReceived(b))
  /\ WF_vars(\E ack \in BOOLEAN : ForeignReads(ack))
  /\ WF_vars(ForeignStops \/ \E b \in Foreign : ForeignWrites(b))

-----------------------------------------------------------------------------
(* Properties *)

IsPrefixOf(s, t) == Len(s) <= Len(t) /\ \A k \in 1 .. Len(s) : s[k] = t[k]

(* What twi_writeTo returns says what happened on the bus: 0 that every    *)
(* byte was acknowledged, 2 that nobody answered the address, 3 that the   *)
(* bytes were refused on the way.                                          *)
WriteResultSound ==
  (pc = "ret" /\ call.kind = "W") =>
    /\ ret = 0 => answered /\ dialog = call.data
    /\ ret = 1 => BufLen < call.len
    /\ ret = 2 => ~answered
    /\ ret = 3 => answered /\ IsPrefixOf(dialog, call.data) /\ dialog # call.data

(* twi_readFrom returns the bytes the slave sent, in order, and all it was *)
(* asked for unless nobody answered or the bus failed.                     *)
ReadResultSound ==
  (pc = "ret" /\ call.kind = "R" /\ call.len <= BufLen) =>
    /\ got = dialog /\ ret = Len(got) /\ ret <= call.len
    /\ (answered /\ error = None) => ret = call.len

(* When a call is over the bus is left alone, or held by a repeated START  *)
(* whose interrupt the next call is to take.                               *)
BusLeft ==
  pc \in { "idle", "result", "copy", "ret" } =>
    IF inRepStart THEN state = "READY" /\ ~twie /\ phase \in { "off", "rep", "addr" }
                  ELSE phase \notin MasterPhase \cup { "rep" }

(* The slave callback is handed the first bytes the other master sent, in  *)
(* order, as many as fit: nothing of an earlier, broken transaction, also  *)
(* when the sketch starts a call of its own meanwhile.                     *)
SlavePrefix ==
  status = "SR_STOP" =>
    /\ IsPrefixOf(rxBuf, heard)
    /\ Len(rxBuf) = IF Len(heard) < BufLen THEN Len(heard) ELSE BufLen

(* Another master reads the bytes of the callback's reply, each once and   *)
(* in order, as long as there are any.                                     *)
SlaveSpeaks ==
  \A k \in DOMAIN spoken : k <= Len(txBuf) => spoken[k] = txBuf[k]

(* The last message of another master ended by refusing a byte of it.      *)
Overlong == Len(heard) > BufLen + 1

(* Between two transactions the node answers to its address, unless the    *)
(* last message did not fit.                                               *)
Listens == (phase = "none" /\ status = None /\ ~Overlong) => twea /\ twie

(* twi_state follows the bus when the sketch makes no call, unless the     *)
(* last message did not fit.                                               *)
StateFollowsBus ==
  (status = None /\ pc = "idle" /\ ~Overlong) =>
    /\ phase = "sr" => state = "SRX"
    /\ phase = "st" => state = "STX"
    /\ phase = "none" => state = "READY"

(* What goes over the bus while others talk to this node is what they sent *)
(* and what its callback answered.                                         *)
SlaveDialogSound == SlavePrefix /\ SlaveSpeaks

(* Between their messages the node stands where the bus does, and listens. *)
NodeIsReady == Listens /\ StateFollowsBus

(* What twi_readFrom() and twi_writeTo() return is what happened on the    *)
(* bus, and the bus is left alone afterwards, or held for a repeated       *)
(* START; as a slave the node hears and says what it should and is ready   *)
(* between two messages, also after one that failed (twi.c:184-193,        *)
(* :244-273, :456-541).                                                    *)
TwiIsSound ==
  WriteResultSound /\ ReadResultSound /\ BusLeft /\ SlaveDialogSound /\ NodeIsReady

(* Every call returns: the driver becomes ready and the transaction ends.  *)
CallReturns == []<>(pc = "idle")

=============================================================================
