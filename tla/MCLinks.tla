------------------------------- MODULE MCLinks -------------------------------
(***************************************************************************)
(* The links with small constants.                                         *)
(***************************************************************************)
EXTENDS Links

CONSTANTS b1, b2

BusBytes == { b1, b2 }
\* Up to one byte more than fits.
AllLengths == { << >>, << b1 >>, << b1, b2 >>, << b1, b2, b1 >> }
NoReply == { << >> }

ShortLease    == { [lease |-> 2, t1 |-> 0, t2 |-> 0] }
ShortWrites   == { << 1 >>, << 2, 1 >> }
TheDatagrams  == { << 1 >>, << 1, 2 >> }
\* The third one fits only if no other has been plugged.
ThePluggables ==
  { [ifs |-> 1, eps |-> 1, length |-> 25, chars |-> 4], [ifs |-> 2, eps |-> 1, length |-> 40, chars |-> 1],
    [ifs |-> 1, eps |-> 3, length |-> 23, chars |-> 1] }
OneSegment    == { << 1, 2, 1 >> }
OneImage      == { << 1, 2, 2, 1 >> }

=============================================================================
