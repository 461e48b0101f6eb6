------------------------------- MODULE MCWire -------------------------------
(***************************************************************************)
(* Instances of Wire for TLC: buffers of two bytes and two values.         *)
(***************************************************************************)
EXTENDS Wire

CONSTANTS b1, b2

Bytes     == { b1, b2 }
OnlyB1    == { b1 }
OnlyB2    == { b2 }
NoMessage == {}
BothBytes == { << b1, b2 >> }
OneByte   == { << b1 >> }
NoReply   == { << >> }
OneReply  == { << b2 >> }

=============================================================================
