----------------------------- MODULE FileStore -----------------------------
(***************************************************************************)
(* What a card of files promises: every file is a sequence of bytes that   *)
(* the calls of the sketch change one file at a time, and what a sync put  *)
(* on the card survives the loss of everything else.                       *)
(***************************************************************************)
EXTENDS Integers, Sequences

CONSTANTS
  Names,     \* the names of files
  Text,      \* the bytes of a file by position: what is written to it there
  NoFile     \* the content of a name that does not exist

VARIABLES
  live,      \* what the sketch sees of every file
  durable    \* what the card holds of it if the power fails now

store == <<live, durable>>

Init ==
  /\ live = [n \in Names |-> NoFile]
  /\ durable = live

(* seq with data written over it from position pos on. *)
Overlay(seq, pos, data) ==
  [i \in 1 .. IF pos + Len(data) > Len(seq) THEN pos + Len(data) ELSE Len(seq) |->
     IF i > pos /\ i <= pos + Len(data) THEN data[i - pos] ELSE seq[i]]

(* Blocks may reach the card at any time; the length, kept in the directory*)
(* entry, only by a sync.  So of a file that is not synced the card holds  *)
(* as many bytes as before, each as it was or as the sketch sees it.       *)
WrittenBack(n) ==
  IF durable[n] = NoFile \/ durable[n] = <<>> THEN durable'[n] = durable[n]
  ELSE /\ Len(durable'[n]) = Len(durable[n])
       /\ \A i \in DOMAIN durable[n] :
            \/ durable'[n][i] = durable[n][i]
            \/ i <= Len(live'[n]) /\ durable'[n][i] = live'[n][i]

OthersUntouched(n) == \A m \in Names \ {n} : live'[m] = live[m] /\ WrittenBack(m)

Synced(n) == durable'[n] = live'[n]

Create(n) ==
  /\ live[n] = NoFile /\ live'[n] = <<>>
  /\ Synced(n) /\ OthersUntouched(n)

(* A file that is given its length keeps what was in its place.            *)
CreateContiguous(n) ==
  /\ live[n] = NoFile /\ live'[n] \notin {NoFile, <<>>}
  /\ Synced(n) /\ OthersUntouched(n)

(* Without O_SYNC the bytes written need not be durable. *)
Put(n) ==
  /\ live[n] # NoFile
  /\ \E pos \in 0 .. Len(live[n]), end \in 1 .. Len(Text[n]) : live'[n] = Overlay(live[n], pos, SubSeq(Text[n], pos + 1, end))
  /\ (WrittenBack(n) \/ Synced(n)) /\ OthersUntouched(n)

(* A write that fails for want of space may have replaced bytes. *)
PutFails(n) ==
  /\ live[n] # NoFile
  /\ \E pos \in 0 .. Len(live[n]), end \in 1 .. Len(Text[n]) :
       live'[n] = SubSeq(Overlay(live[n], pos, SubSeq(Text[n], pos + 1, end)), 1, Len(live[n]))
  /\ WrittenBack(n) /\ OthersUntouched(n)

Truncate(n) ==
  /\ live[n] # NoFile
  /\ \E length \in 0 .. Len(live[n]) : live'[n] = SubSeq(live[n], 1, length)
  /\ Synced(n) /\ OthersUntouched(n)

Remove(n) ==
  /\ live[n] # NoFile /\ live'[n] = NoFile
  /\ Synced(n) /\ OthersUntouched(n)

Sync(n) ==
  /\ live' = live
  /\ Synced(n) /\ OthersUntouched(n)

(* Reading, seeking, closing, opening. *)
Other ==
  /\ live' = live
  /\ \A n \in Names : WrittenBack(n)

(* The power fails, maybe in the middle of a call of the file n: what the  *)
(* call had written over durable bytes may be there or not, and a file it  *)
(* was creating may be there without its bytes.                            *)
Half(n) == durable[n] = NoFile /\ durable'[n] = <<>> /\ \A m \in Names \ {n} : (durable[m] = NoFile) = (durable'[m] = NoFile)
PowerFails ==
  /\ live' = durable'
  /\ \A n \in Names :
       IF durable[n] = NoFile \/ durable[n] = <<>> THEN durable'[n] = durable[n] \/ Half(n)
       ELSE /\ Len(durable'[n]) = Len(durable[n])
            /\ \/ WrittenBack(n)
               \/ \E pos \in 0 .. Len(live[n]), end \in 1 .. Len(Text[n]) :
                    LET new == Overlay(live[n], pos, SubSeq(Text[n], pos + 1, end))
                    IN \A i \in DOMAIN durable[n] :
                         durable'[n][i] \in {durable[n][i], live[n][i], new[i]}

Next ==
  \/ \E n \in Names : Create(n) \/ CreateContiguous(n) \/ Put(n) \/ PutFails(n) \/ Truncate(n) \/ Remove(n) \/ Sync(n)
  \/ Other
  \/ PowerFails

Spec == Init /\ [][Next]_store
=============================================================================
