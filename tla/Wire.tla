-------------------------------- MODULE Wire --------------------------------
(***************************************************************************)
(* TwoWire, the object sketches use, over the driver of module Twi.  Its   *)
(* two callbacks run inside the interrupt handler and share the object's   *)
(* two buffers with the methods the sketch calls; nothing protects them    *)
(* but the checks modelled here.                                           *)
(***************************************************************************)
EXTENDS Twi

CONSTANTS
  Answering,   \* TRUE: the sketch has registered onRequest
  Listening    \* TRUE: it has registered onReceive

ASSUME WireAssumption == Answering \in BOOLEAN /\ Listening \in BOOLEAN

VARIABLES
  rxBuffer, rxBufferIndex, rxBufferLength,
  txBuffer,       \* txBuffer up to txBufferLength, which txBufferIndex equals
  transmitting,
  accepted,       \* what write() has accepted since beginTransmission(), or
                  \* since an onRequest callback emptied the buffer
  rewound,        \* requestFrom() is between its two stores, to rxBufferIndex
                  \* and to rxBufferLength
  requested,      \* what is left to read of the last requestFrom(), None once
                  \* it is all read and a message of another master has come
  crossed         \* while that call was copying its answer, or had not yet set
                  \* both indices, a message was copied over it

rxVars   == << rxBuffer, rxBufferIndex, rxBufferLength, rewound, requested, crossed >>
txVars   == << txBuffer, transmitting, accepted >>
wireVars == << rxVars, txVars >>
allVars  == << vars, wireVars >>

WireTypeOK ==
  /\ TypeOK
  /\ rxBuffer \in [0 .. BufLen - 1 -> Byte]
  /\ rxBufferIndex \in 0 .. BufLen /\ rxBufferLength \in 0 .. BufLen
  /\ txBuffer \in Seq(Byte) /\ Len(txBuffer) <= BufLen
  /\ transmitting \in BOOLEAN
  /\ accepted \in Seq(Byte)
  /\ requested \in Seq(Byte) \cup {None}
  /\ rewound \in BOOLEAN /\ crossed \in BOOLEAN

WireInit ==
  /\ Init
  /\ rxBuffer = [k \in 0 .. BufLen - 1 |-> Zero]
  /\ rxBufferIndex = 0 /\ rxBufferLength = 0
  /\ txBuffer = << >> /\ transmitting = FALSE
  /\ accepted = << >> /\ requested = None /\ rewound = FALSE /\ crossed = FALSE

Unread == rxBufferIndex < rxBufferLength

-----------------------------------------------------------------------------
(* Methods the sketch calls. *)

begin ==
  /\ twi_init
  /\ rxBufferIndex' = 0 /\ rxBufferLength' = 0
  /\ txBuffer' = << >>
  /\ requested' = None /\ accepted' = << >>
  /\ UNCHANGED << rxBuffer, rewound, crossed, transmitting >>

end == twi_disable /\ UNCHANGED wireVars

beginTransmissionKeepsBuffer ==
  /\ Main("idle") /\ phase # "off"
  /\ transmitting' = TRUE
  /\ accepted' = << >>
  /\ UNCHANGED << vars, rxVars, txBuffer >>

beginTransmission ==
  /\ Main("idle") /\ phase # "off"
  /\ transmitting' = TRUE
  /\ txBuffer' = << >>
  /\ accepted' = << >>
  /\ UNCHANGED << vars, rxVars >>

(* A full buffer refuses the byte. *)
TxHasRoomUnchecked == TRUE
TxHasRoom == Len(txBuffer) < BufLen

write(b) ==
  /\ Main("idle") /\ transmitting
  /\ IF TxHasRoom
       THEN /\ txBuffer' = Append(txBuffer, b)
            /\ accepted' = Append(accepted, b)
       ELSE UNCHANGED << txBuffer, accepted >>
  /\ UNCHANGED << vars, rxVars, transmitting >>

endTransmission(stop) ==
  /\ transmitting
  /\ twi_writeTo(txBuffer, stop)
  /\ UNCHANGED wireVars

(* twi_writeTo copies the buffer late, as long as it was when called. *)
EndTransmissionCopies ==
  /\ call.kind = "W"
  /\ Setup([k \in 1 .. call.len |->
              IF k <= Len(txBuffer) THEN txBuffer[k] ELSE call.data[k]])
  /\ UNCHANGED wireVars

EndTransmissionReturns ==
  /\ call.kind = "W"
  /\ Return
  /\ txBuffer' = << >>
  /\ transmitting' = FALSE
  /\ UNCHANGED << rxVars, accepted >>

Clamped(quantity) == IF quantity > BufLen THEN BufLen ELSE quantity

requestFrom(quantity, stop) ==
  /\ twi_readFrom(Clamped(quantity), stop)
  /\ requested' = None /\ crossed' = FALSE
  /\ UNCHANGED << rxBuffer, rxBufferIndex, rxBufferLength, rewound, txVars >>

RequestSetsUp == call.kind = "R" /\ Setup(<< >>) /\ UNCHANGED wireVars

(* twi_readFrom copies straight into rxBuffer. *)
RequestCopiesBackwards ==
  /\ CopyByte
  /\ rxBuffer' = [rxBuffer EXCEPT ![n - 1 - Len(got)] = mBuf[Len(got)]]
  /\ UNCHANGED << rxBufferIndex, rxBufferLength, rewound, requested, crossed, txVars >>

RequestCopies ==
  /\ CopyByte
  /\ rxBuffer' = [rxBuffer EXCEPT ![Len(got)] = mBuf[Len(got)]]
  /\ UNCHANGED << rxBufferIndex, rxBufferLength, rewound, requested, crossed, txVars >>

(* The indices are set one after the other; in between a message may be    *)
(* tested against the new one and the old one.                             *)
RequestRewinds ==
  /\ Main("ret") /\ call.kind = "R" /\ ~rewound
  /\ rxBufferIndex' = 0 /\ rewound' = TRUE
  /\ UNCHANGED << vars, rxBuffer, rxBufferLength, requested, crossed, txVars >>

RequestReturns ==
  /\ Return /\ rewound
  /\ rxBufferLength' = ret /\ rewound' = FALSE
  /\ requested' = got
  /\ UNCHANGED << rxBuffer, rxBufferIndex, crossed, txVars >>

read ==
  /\ Main("idle") /\ Unread
  /\ rxBufferIndex' = rxBufferIndex + 1
  /\ requested' = IF requested = None \/ crossed THEN None ELSE Tail(requested)
  /\ UNCHANGED << vars, rxBuffer, rxBufferLength, rewound, crossed, txVars >>

-----------------------------------------------------------------------------
(* Callbacks, inside the handler. *)

(* The message is dropped if no one listens or unread bytes are left.  The *)
(* sketch's callback reads as much of it as it likes.                      *)
RxInUseNever == FALSE
RxInUse == Unread

onReceiveService ==
  \/ /\ ~Listening \/ RxInUse
     /\ UNCHANGED rxVars
  \/ /\ Listening /\ ~RxInUse
     /\ rxBuffer' = [k \in 0 .. BufLen - 1 |->
                       IF k < Len(rxBuf) THEN rxBuf[k + 1] ELSE rxBuffer[k]]
     /\ rxBufferIndex' \in 0 .. Len(rxBuf)
     /\ rxBufferLength' = Len(rxBuf)
     /\ requested' = IF requested = << >> THEN None ELSE requested
     /\ crossed' = (crossed \/ (call.kind = "R" /\ got # << >> /\ rxBuf # << >>))
     /\ UNCHANGED rewound

Received == IsrSlaveStop /\ onReceiveService /\ UNCHANGED txVars

(* The callback's write() goes to the driver, unless the sketch is inside  *)
(* a transmission: then it goes into the sketch's own buffer.              *)
onRequestService(reply) ==
  \/ ~Answering /\ IsrSlaveRequested(<< >>) /\ UNCHANGED txVars
  \/ /\ Answering /\ ~transmitting
     /\ txBuffer' = << >>
     /\ IsrSlaveRequested(reply)
     /\ UNCHANGED << transmitting, accepted >>
  \/ /\ Answering /\ transmitting
     /\ txBuffer' = SubSeq(reply, 1, IF Len(reply) < BufLen THEN Len(reply) ELSE BufLen)
     /\ accepted' = txBuffer'
     /\ IsrSlaveRequested(<< >>)
     /\ UNCHANGED transmitting

Requested == \E reply \in Replies : onRequestService(reply) /\ UNCHANGED rxVars

-----------------------------------------------------------------------------
(* A sketch with nothing to write begins no transmission. *)
WireCalls ==
  \/ begin \/ end \/ read
  \/ Messages # {} /\ beginTransmission
  \/ \E m \in Messages : \E k \in DOMAIN m : write(m[k])
  \/ \E stop \in Stops : \/ endTransmission(stop)
                         \/ \E quantity \in ReadLengths : requestFrom(quantity, stop)

WireSteps ==
  \/ EndTransmissionCopies \/ EndTransmissionReturns
  \/ RequestSetsUp \/ RequestCopies \/ RequestRewinds \/ RequestReturns
  \/ PlainSteps /\ UNCHANGED wireVars

WireHandlers ==
  \/ Received \/ Requested
  \/ PlainHandlers /\ UNCHANGED wireVars

WireNext ==
  WireCalls \/ WireSteps \/ WireHandlers \/ (Bus /\ UNCHANGED wireVars)

WireSpec == WireInit /\ [][WireNext]_allVars

-----------------------------------------------------------------------------
(* Properties *)

(* endTransmission() that reports success has sent exactly the bytes       *)
(* write() accepted since beginTransmission().                             *)
SentWhatWasAccepted ==
  (pc = "ret" /\ call.kind = "W" /\ ret = 0) => dialog = accepted

(* When requestFrom() returns, the first ret bytes of rxBuffer are those   *)
(* the slave sent.                                                         *)
RequestIntact ==
  (pc = "ret" /\ call.kind = "R") =>
    \A k \in 1 .. ret : rxBuffer[k - 1] = dialog[k]

(* The bytes that requestFrom() got from the slave are read, each once and  *)
(* in order, until they are read or the next one begins, however messages  *)
(* of other masters arrive meanwhile: "don't bother if rx buffer is in use *)
(* by a master requestFrom() op" (Wire.cpp:281).  The exception is a       *)
(* message that comes while the call has copied bytes of its answer and    *)
(* has not set both indices: what they say is that of the last answer.     *)
UnreadKept ==
  requested # None /\ ~crossed =>
    requested = [k \in 1 .. rxBufferLength - rxBufferIndex |->
                   rxBuffer[rxBufferIndex + k - 1]]

=============================================================================
