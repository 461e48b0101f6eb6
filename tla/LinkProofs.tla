----------------------------- MODULE LinkProofs -----------------------------
(***************************************************************************)
(* Theorems about links of the board to the world outside.  The Ethernet   *)
(* library: what the chip's address is and when a lease is renewed, whose  *)
(* address a lookup returns, that no socket is lost, and what the rings of *)
(* a socket hold.  The boot loaders: what is in flash is what was sent.    *)
(* USB: what the host gets and what the sketch reads is what was sent, and *)
(* when the port starts the boot loader.  They hold for any number of      *)
(* servers, names and sockets, every lease, every rhythm of the calls, any *)
(* number of answers on their way, rings and banks of any size and every   *)
(* data; and for flash and pages of any size.                              *)
(***************************************************************************)
EXTENDS Ethernet, UsbEndpoint, Cdc, Caterina, Optiboot, WellFoundedInduction, FiniteSetTheorems,
        SequenceTheorems, TLAPS

-----------------------------------------------------------------------------
(* The least number; counting up; and sequences of packets, one after the  *)
(* other.                                                                  *)

LEMMA LeastIs ==
  ASSUME NEW S \in SUBSET Nat, S # {}
  PROVE  \E x \in S : \A y \in S : x <= y
<1>. DEFINE R == OpToRel(<, Nat)
<1>1. R = { ss \in Nat \X Nat : ss[1] < ss[2] }
  BY DEF OpToRel
<1>2. IsWellFoundedOn(R, Nat)
  BY NatLessThanWellFounded
<1>. HIDE DEF R
<1>3. PICK x \in S : \A y \in S : ~(<< y, x >> \in R)
  BY <1>2, WFMin
<1>4. \A y \in S : y \in Nat /\ x \in Nat /\ ~(y < x)
  BY <1>1, <1>3
<1>. QED BY <1>4

(* Counting up from 1.                                                     *)
LEMMA CountUp ==
  ASSUME NEW n \in Nat, NEW G, \A i \in 1 .. n : i = 1 \/ i - 1 \in G => i \in G
  PROVE  1 .. n \subseteq G
<1>. DEFINE T == (1 .. n) \ G
<1>1. T \in SUBSET Nat
  OBVIOUS
<1>2. ASSUME T # {} PROVE FALSE
  <2>1. PICK i \in T : \A j \in T : i <= j
    BY <1>1, <1>2, LeastIs
  <2>2. i # 1 => i - 1 \in 1 .. n /\ i - 1 \notin T
    BY <2>1
  <2>. QED BY <2>2
<1>. QED BY <1>2

(* The function that FlattenSeq() defines: the first i packets as one.     *)
Flattened(f, seqs, n) == f = [i \in 1 .. n |-> IF i = 1 THEN seqs[i] ELSE f[i - 1] \o seqs[i]]

LEMMA FlattenedExists ==
  ASSUME NEW seqs, NEW n \in Nat
  PROVE  \E f : Flattened(f, seqs, n)
<1>. DEFINE S == { k \in Nat : ~\E f : Flattened(f, seqs, k) }
<1>. SUFFICES ASSUME S # {} PROVE FALSE
  OBVIOUS
<1>1. PICK m \in S : \A y \in S : m <= y
  BY LeastIs
<1>2. CASE m = 0
  <2>. DEFINE f == [i \in 1 .. 0 |-> 0]
  <2>1. Flattened(f, seqs, 0)
    BY DEF Flattened
  <2>. HIDE DEF f
  <2>. QED BY <1>2, <2>1
<1>3. CASE m # 0
  <2>1. m - 1 \in Nat /\ m - 1 \notin S
    BY <1>1, <1>3
  <2>2. PICK f : Flattened(f, seqs, m - 1)
    BY <2>1
  <2>. DEFINE g == [i \in 1 .. m |-> IF i < m THEN f[i] ELSE IF m = 1 THEN seqs[m] ELSE f[m - 1] \o seqs[m]]
  <2>3. \A i \in 1 .. m : g[i] = IF i = 1 THEN seqs[i] ELSE g[i - 1] \o seqs[i]
    <3>. TAKE i \in 1 .. m
    <3>1. \A j \in 1 .. m - 1 : f[j] = (IF j = 1 THEN seqs[j] ELSE f[j - 1] \o seqs[j]) /\ g[j] = f[j]
      <4>. TAKE j \in 1 .. m - 1
      <4>1. f[j] = IF j = 1 THEN seqs[j] ELSE f[j - 1] \o seqs[j]
        BY <2>2 DEF Flattened
      <4>2. j \in 1 .. m /\ j < m
        BY <2>1
      <4>3. g[j] = f[j]
        BY <4>2
      <4>. HIDE DEF g
      <4>. QED BY <4>1, <4>3
    <3>2. i < m => i \in 1 .. m - 1 /\ (i # 1 => i - 1 \in 1 .. m - 1)
      BY <2>1
    <3>3. i # 1 /\ i = m => m # 1 /\ m - 1 \in 1 .. m - 1
      BY <2>1
    <3>4. CASE i < m
      BY <3>1, <3>2, <3>4
    <3>5. CASE i = m
      BY <3>1, <3>3, <3>5
    <3>. QED BY <3>4, <3>5
  <2>4. g = [i \in 1 .. m |-> g[i]]
    OBVIOUS
  <2>. HIDE DEF g
  <2>5. Flattened(g, seqs, m)
    BY <2>3, <2>4 DEF Flattened
  <2>. QED BY <2>5
<1>. QED BY <1>2, <1>3

LEMMA FlattenIs ==
  ASSUME NEW S, NEW seqs \in Seq(S), seqs # << >>
  PROVE  \E f : Flattened(f, seqs, Len(seqs)) /\ FlattenSeq(seqs) = f[Len(seqs)]
<1>1. Len(seqs) \in Nat /\ Len(seqs) # 0
  OBVIOUS
<1>. DEFINE f == CHOOSE f : f = [i \in 1 .. Len(seqs) |-> IF i = 1 THEN seqs[i] ELSE f[i - 1] \o seqs[i]]
<1>2. f = [i \in 1 .. Len(seqs) |-> IF i = 1 THEN seqs[i] ELSE f[i - 1] \o seqs[i]]
  BY <1>1, FlattenedExists DEF Flattened
<1>3. FlattenSeq(seqs) = f[Len(seqs)]
  BY <1>1 DEF FlattenSeq
<1>. QED BY <1>2, <1>3 DEF Flattened

Joined(s, t) == s \o t

LEMMA Associates ==
  ASSUME NEW S, NEW s \in Seq(S), NEW t \in Seq(S), NEW u \in Seq(S)
  PROVE  Joined(Joined(s, t), u) = Joined(s, Joined(t, u))
BY DEF Joined

LEMMA OneThen ==
  ASSUME NEW x \in Nat, NEW t \in Seq(Nat), NEW u \in Seq(Nat)
  PROVE  Joined(Joined(<< x >>, t), u) = Joined(<< x >>, Joined(t, u))
<1>. DEFINE p == << x >>
<1>1. p \in Seq(Nat)
  OBVIOUS
<1>. HIDE DEF p
<1>2. Joined(Joined(p, t), u) = Joined(p, Joined(t, u))
  BY <1>1, Associates
<1>. QED BY <1>2 DEF p

LEMMA ThenOne ==
  ASSUME NEW s \in Seq(Nat), NEW x \in Nat, NEW u \in Seq(Nat)
  PROVE  Joined(Append(s, x), u) = Joined(s, Joined(<< x >>, u))
<1>. DEFINE p == << x >>
<1>1. p \in Seq(Nat) /\ Append(s, x) = Joined(s, p)
  BY DEF Joined
<1>. HIDE DEF p
<1>2. Joined(Joined(s, p), u) = Joined(s, Joined(p, u))
  BY <1>1, Associates
<1>. QED BY <1>1, <1>2 DEF p

LEMMA PlacesIn ==
  ASSUME NEW s \in Seq(Nat), NEW t \in Seq(Nat)
  PROVE  /\ Joined(s, t) \in Seq(Nat) /\ Len(Joined(s, t)) = Len(s) + Len(t)
         /\ Len(s) \in Nat /\ Len(t) \in Nat
         /\ \A i \in 1 .. Len(s) : Joined(s, t)[i] = s[i]
         /\ \A i \in 1 .. Len(t) : Joined(s, t)[Len(s) + i] = t[i]
BY DEF Joined

LEMMA OneIsHead ==
  ASSUME NEW S, NEW s \in Seq(S), s # << >>, Tail(s) = << >>
  PROVE  s = << Head(s) >>
<1>1. \A r : r = << >> => Len(r) = 0
  OBVIOUS
<1>2. Len(Tail(s)) = Len(s) - 1 /\ Len(s) \in Nat
  BY HeadTailProperties
<1>3. Len(Tail(s)) = 0
  BY <1>1, Zenon
<1>4. Len(s) = 1
  BY ONLY <1>2, <1>3
<1>. QED BY <1>4

LEMMA FlattenEmpty == FlattenSeq(<< >>) = << >>
BY DEF FlattenSeq

(* One packet after the others; and the first one before the others.       *)
LEMMA FlattenOne ==
  ASSUME NEW S, NEW x \in Seq(S)
  PROVE  FlattenSeq(<< x >>) = x
<1>1. << x >> \in Seq(Seq(S)) /\ << x >> # << >> /\ Len(<< x >>) = 1
  OBVIOUS
<1>2. PICK f : Flattened(f, << x >>, 1) /\ FlattenSeq(<< x >>) = f[1]
  BY <1>1, FlattenIs
<1>. QED BY <1>2 DEF Flattened

LEMMA FlattenTypes ==
  ASSUME NEW S, NEW seqs \in Seq(Seq(S))
  PROVE  FlattenSeq(seqs) \in Seq(S)
<1>1. CASE seqs = << >>
  <2>1. FlattenSeq(seqs) = << >>
    BY <1>1, FlattenEmpty
  <2>. QED BY <2>1
<1>2. CASE seqs # << >>
  <2>1. PICK f : Flattened(f, seqs, Len(seqs)) /\ FlattenSeq(seqs) = f[Len(seqs)]
    BY <1>2, FlattenIs
  <2>. DEFINE G == { i \in 1 .. Len(seqs) : f[i] \in Seq(S) }
  <2>2. ASSUME NEW i \in 1 .. Len(seqs), i = 1 \/ i - 1 \in G PROVE i \in G
    <3>1. f[i] = IF i = 1 THEN seqs[i] ELSE f[i - 1] \o seqs[i]
      BY <2>1 DEF Flattened
    <3>2. seqs[i] \in Seq(S)
      OBVIOUS
    <3>3. i # 1 => f[i - 1] \in Seq(S)
      BY <2>2
    <3>4. f[i] \in Seq(S)
      BY <3>1, <3>2, <3>3
    <3>. QED BY <3>4
  <2>. HIDE DEF G
  <2>3. Len(seqs) \in G
    <3>1. Len(seqs) \in Nat /\ Len(seqs) \in 1 .. Len(seqs)
      BY <1>2
    <3>2. 1 .. Len(seqs) \subseteq G
      BY <2>2, <3>1, CountUp
    <3>. QED BY <3>1, <3>2
  <2>. QED BY <2>1, <2>3 DEF G
<1>. QED BY <1>1, <1>2

LEMMA FlattenAppend ==
  ASSUME NEW S, NEW seqs \in Seq(Seq(S)), NEW x \in Seq(S)
  PROVE  FlattenSeq(Append(seqs, x)) = FlattenSeq(seqs) \o x
<1>1. CASE seqs = << >>
  <2>1. Append(seqs, x) = << x >> /\ FlattenSeq(seqs) = << >>
    BY <1>1, FlattenEmpty
  <2>. QED BY <2>1, FlattenOne
<1>2. CASE seqs # << >>
  <2>. DEFINE n == Len(seqs)
              t == Append(seqs, x)
  <2>1. t \in Seq(Seq(S)) /\ t # << >> /\ Len(t) = n + 1 /\ n \in Nat \ {0}
    BY <1>2
  <2>2. PICK f : Flattened(f, seqs, n) /\ FlattenSeq(seqs) = f[n]
    BY <1>2, FlattenIs
  <2>3. PICK g : Flattened(g, t, n + 1) /\ FlattenSeq(t) = g[n + 1]
    BY <2>1, FlattenIs
  <2>4. /\ t[n + 1] = x
        /\ \A i \in 1 .. n : t[i] = seqs[i]
    BY <2>1
  <2>. HIDE DEF t
  <2>. DEFINE G == { i \in 1 .. n : f[i] = g[i] }
  <2>5. ASSUME NEW i \in 1 .. n, i = 1 \/ i - 1 \in G PROVE i \in G
    <3>1. f[i] = IF i = 1 THEN seqs[i] ELSE f[i - 1] \o seqs[i]
      BY <2>2 DEF Flattened
    <3>2. g[i] = IF i = 1 THEN t[i] ELSE g[i - 1] \o t[i]
      <4>1. i \in 1 .. n + 1
        BY <2>1
      <4>. QED BY <2>3, <4>1 DEF Flattened
    <3>3. i # 1 => f[i - 1] = g[i - 1]
      BY <2>5
    <3>4. f[i] = g[i]
      BY <2>4, <3>1, <3>2, <3>3
    <3>. QED BY <3>4
  <2>. HIDE DEF G
  <2>6. n \in G
    <3>1. n \in Nat /\ n \in 1 .. n
      BY <2>1
    <3>2. 1 .. n \subseteq G
      BY <2>5, <3>1, CountUp
    <3>. QED BY <3>1, <3>2
  <2>7. g[n + 1] = g[n] \o x
    <3>1. n + 1 \in 1 .. n + 1 /\ n + 1 # 1 /\ (n + 1) - 1 = n
      BY <2>1
    <3>2. g[n + 1] = g[(n + 1) - 1] \o t[n + 1]
      BY <2>3, <3>1 DEF Flattened
    <3>. QED BY <2>4, <3>1, <3>2
  <2>8. f[n] = g[n]
    BY <2>6 DEF G
  <2>. QED BY <2>2, <2>3, <2>7, <2>8 DEF t
<1>. QED BY <1>1, <1>2

LEMMA FlattenTail ==
  ASSUME NEW S, NEW seqs \in Seq(Seq(S)), seqs # << >>
  PROVE  FlattenSeq(seqs) = Head(seqs) \o FlattenSeq(Tail(seqs))
<1>1. CASE Tail(seqs) = << >>
  <2>1. seqs = << Head(seqs) >> /\ Head(seqs) \in Seq(S)
    BY <1>1, OneIsHead, HeadTailProperties
  <2>2. FlattenSeq(Tail(seqs)) = << >> /\ FlattenSeq(<< Head(seqs) >>) = Head(seqs)
    BY <1>1, <2>1, FlattenEmpty, FlattenOne
  <2>. QED BY <2>1, <2>2
<1>2. CASE Tail(seqs) # << >>
  <2>. DEFINE n == Len(seqs)
              t == Tail(seqs)
              h == Head(seqs)
  <2>1. /\ t \in Seq(Seq(S)) /\ Len(t) = n - 1 /\ n \in Nat /\ n > 1 /\ h = seqs[1] /\ h \in Seq(S)
        /\ \A i \in 1 .. n - 1 : t[i] = seqs[i + 1]
    BY <1>2
  <2>2. PICK f : Flattened(f, seqs, n) /\ FlattenSeq(seqs) = f[n]
    BY FlattenIs
  <2>3. PICK g : Flattened(g, t, n - 1) /\ FlattenSeq(t) = g[n - 1]
    BY <1>2, <2>1, FlattenIs
  <2>. HIDE DEF t, h
  <2>. DEFINE G == { i \in 1 .. n - 1 : g[i] \in Seq(S) /\ f[i + 1] = h \o g[i] }
  <2>4. ASSUME NEW i \in 1 .. n - 1, i = 1 \/ i - 1 \in G PROVE i \in G
    <3>1. f[1] = h
      BY <2>1, <2>2 DEF Flattened
    <3>2. f[i + 1] = f[i] \o seqs[i + 1]
      <4>1. i + 1 \in 1 .. n /\ i + 1 # 1 /\ (i + 1) - 1 = i
        BY <2>1
      <4>2. f[i + 1] = f[(i + 1) - 1] \o seqs[i + 1]
        BY <2>2, <4>1 DEF Flattened
      <4>. QED BY <4>1, <4>2
    <3>3. g[i] = IF i = 1 THEN t[i] ELSE g[i - 1] \o t[i]
      BY <2>3 DEF Flattened
    <3>4. i # 1 => g[i - 1] \in Seq(S) /\ f[i] = h \o g[i - 1]
      <4>1. i # 1 => (i - 1) + 1 = i
        OBVIOUS
      <4>. QED BY <2>4, <4>1
    <3>5. t[i] \in Seq(S) /\ t[i] = seqs[i + 1]
      BY <2>1
    <3>6. ASSUME i # 1
          PROVE  (h \o g[i - 1]) \o t[i] = h \o (g[i - 1] \o t[i]) /\ g[i - 1] \o t[i] \in Seq(S)
      <4>1. h \in Seq(S) /\ g[i - 1] \in Seq(S) /\ t[i] \in Seq(S)
        BY <2>1, <3>4, <3>5, <3>6
      <4>2. (h \o g[i - 1]) \o t[i] = h \o (g[i - 1] \o t[i])
        <5>1. Joined(Joined(h, g[i - 1]), t[i]) = Joined(h, Joined(g[i - 1], t[i]))
          BY <4>1, Associates
        <5>. QED BY <5>1, Zenon DEF Joined
      <4>3. g[i - 1] \o t[i] \in Seq(S)
        BY <4>1, ConcatProperties
      <4>. QED BY <4>2, <4>3
    <3>7. g[i] \in Seq(S) /\ f[i + 1] = h \o g[i]
      BY <3>1, <3>2, <3>3, <3>4, <3>5, <3>6
    <3>. QED BY <3>7
  <2>. HIDE DEF G
  <2>5. n - 1 \in G
    <3>1. n - 1 \in Nat /\ n - 1 \in 1 .. n - 1
      BY <2>1
    <3>2. 1 .. n - 1 \subseteq G
      BY <2>4, <3>1, CountUp
    <3>. QED BY <3>1, <3>2
  <2>6. (n - 1) + 1 = n
    BY <2>1
  <2>. QED BY <2>2, <2>3, <2>5, <2>6 DEF t, h, G
<1>. QED BY <1>1, <1>2

-----------------------------------------------------------------------------
(* The DNS client.                                                         *)

(* Of the answers on their way only those to the name asked for bear the   *)
(* number of the question: the numbers tell the lookups apart.             *)
NumberTells == dnsPc = "waiting" => \A a \in answers : a.id = requestId => a.name = asked

(* Inside a lookup the name is known, and there is a wait left.            *)
InLookup == (dnsPc # "idle" => asked \in Names) /\ (dnsPc = "waiting" => waits < Waits)

(* The reply being read is to the name asked for; and of one that is whole *)
(* the name is there while it is read, and behind it every record with its *)
(* data.                                                                   *)
Tokens == { "label", "end", "data", "A", "odd", "other" }
ReadsReply == dnsPc \in { "question", "answer" }
OfReply ==
  /\ reply.name = asked /\ reply.count \in Nat /\ reply.body \in Seq(Tokens)
  /\ dnsPc = "question" /\ ~result.cut =>
       \/ Len(reply.body) = 2 * reply.count + 2 /\ reply.body[1] = "label" /\ reply.body[2] = "end"
       \/ Len(reply.body) = 2 * reply.count + 1 /\ reply.body[1] = "end"
  /\ dnsPc = "answer" /\ ~result.cut => Len(reply.body) = 2 * reply.count

DnsInv == DnsTypeOK /\ ResultIsOwn /\ NumberTells /\ InLookup /\ (ReadsReply => OfReply)

LEMMA DnsStart == DnsInit => DnsInv
<1>1. NoResult \in [code : Codes, name : Names \cup { NoName }, cut : BOOLEAN] /\ NoResult.code = 0
  BY DEF NoResult, Codes
<1>2. NothingLeft.name = NoName
  BY DEF NothingLeft
<1>3. DnsInit => DnsTypeOK
  <2>. SUFFICES ASSUME DnsInit PROVE DnsTypeOK
    OBVIOUS
  <2>1. { 0 } \subseteq 0 .. IdMod - 1 /\ { 0 } \subseteq 0 .. PortMod - 1 /\ 0 \in 0 .. Waits /\ 0 \in 0 .. DnsTimeout + 1
    BY DnsAssumption
  <2>2. result \in [code : Codes, name : Names \cup { NoName }, cut : BOOLEAN]
    BY <1>1 DEF DnsInit
  <2>3. reply.name = NoName /\ labelLen = FALSE
    BY <1>2 DEF DnsInit
  <2>. QED BY <2>1, <2>2, <2>3 DEF DnsInit, DnsTypeOK
<1>. QED BY <1>1, <1>3 DEF DnsInit, DnsInv, InLookup, ResultIsOwn, NumberTells, ReadsReply

LEMMA UnreadIs ==
  ASSUME NEW records \in Records
  PROVE  LET u == Unread(records) IN
         /\ u \in Seq(Tokens) /\ Len(u) = 2 * Len(records) + 2 /\ Len(records) \in Nat
         /\ u[1] = "label" /\ u[2] = "end"
<1>. DEFINE n == 2 * Len(records)
            rest == [i \in 1 .. n |-> IF i % 2 = 1 THEN records[(i + 1) \div 2] ELSE "data"]
<1>1. records \in Seq({ "A", "odd", "other" })
  <2>. DEFINE K == { "A", "odd", "other" }
  <2>1. << >> \in Seq(K) /\ << "other" >> \in Seq(K) /\ << "A" >> \in Seq(K)
    OBVIOUS
  <2>2. << "other", "A" >> \in Seq(K) /\ << "odd", "A" >> \in Seq(K)
    OBVIOUS
  <2>. QED BY <2>1, <2>2 DEF Records
<1>2. n \in Nat /\ Len(records) \in Nat
  BY <1>1
<1>3. ASSUME NEW i \in 1 .. n PROVE rest[i] \in Tokens
  <2>1. i % 2 = 1 => (i + 1) \div 2 \in 1 .. Len(records)
    BY <1>2
  <2>2. i % 2 = 1 => records[(i + 1) \div 2] \in { "A", "odd", "other" }
    BY <1>1, <2>1
  <2>. QED BY <2>2 DEF Tokens
<1>4. rest \in Seq(Tokens) /\ Len(rest) = n
  BY <1>2, <1>3
<1>. HIDE DEF rest, n
<1>5. << "label", "end" >> \in Seq(Tokens) /\ Len(<< "label", "end" >>) = 2
  BY DEF Tokens
<1>6. LET u == << "label", "end" >> \o rest IN
      u \in Seq(Tokens) /\ Len(u) = n + 2 /\ u[1] = "label" /\ u[2] = "end"
  BY <1>2, <1>4, <1>5
<1>. QED BY <1>2, <1>6 DEF rest, n, Unread

LEMMA ReadAnswerKeeps == ASSUME DnsInv, NEW a \in answers, ReadAnswer(a) PROVE DnsInv'
<1>0. PICK records \in Records \ { << >> } :
        \E size \in 0 .. Len(Unread(records)) :
          /\ reply' = [body |-> SubSeq(Unread(records), 1, size), count |-> Len(records), name |-> a.name]
          /\ result' = [result EXCEPT !.cut = size < Len(Unread(records))]
  BY DEF ReadAnswer
<1>1. PICK size \in 0 .. Len(Unread(records)) :
        /\ reply' = [body |-> SubSeq(Unread(records), 1, size), count |-> Len(records), name |-> a.name]
        /\ result' = [result EXCEPT !.cut = size < Len(Unread(records))]
  BY <1>0
<1>. DEFINE u == Unread(records)
<1>2. /\ u \in Seq(Tokens) /\ Len(u) = 2 * Len(records) + 2 /\ Len(records) \in Nat
      /\ u[1] = "label" /\ u[2] = "end"
  BY UnreadIs
<1>. HIDE DEF u
<1>3. SubSeq(u, 1, size) \in Seq(Tokens) /\ (size = Len(u) => SubSeq(u, 1, size) = u)
  BY <1>1, <1>2 DEF u
<1>4. a.name = asked /\ a.name \in Names
  BY DEF ReadAnswer, ReceiveAnswer, IsOurs, DnsInv, NumberTells, DnsTypeOK
<1>5. result' = [result EXCEPT !.cut = size < Len(u)] /\ (result'.cut <=> size < Len(u))
  BY <1>1 DEF DnsInv, DnsTypeOK, u
<1>6. /\ reply'.name = asked' /\ reply'.count = Len(records)
      /\ reply'.body \in Seq(Tokens) /\ (size = Len(u) => reply'.body = u)
  BY <1>1, <1>3, <1>4 DEF ReadAnswer, ReceiveAnswer, u
<1>7. dnsPc' = "question"
  BY DEF ReadAnswer
<1>8. OfReply'
  <2>1. ~result'.cut => reply'.body = u
    BY <1>1, <1>2, <1>5, <1>6 DEF u
  <2>. QED BY <1>2, <1>6, <1>7, <2>1 DEF OfReply
<1>9. DnsTypeOK'
  <2>1. result' \in [code : Codes, name : Names \cup { NoName }, cut : BOOLEAN]
    <3>1. (size < Len(u)) \in BOOLEAN
      OBVIOUS
    <3>. HIDE DEF u
    <3>. QED BY <1>5, <3>1 DEF DnsInv, DnsTypeOK
  <2>2. reply'.name \in Names
    BY <1>1, <1>4
  <2>. QED BY <1>7, <2>1, <2>2 DEF ReadAnswer, ReceiveAnswer, DnsInv, DnsTypeOK
<1>. QED BY <1>4, <1>7, <1>8, <1>9 DEF ReadAnswer, ReceiveAnswer, DnsInv, InLookup, ResultIsOwn, NumberTells

LEMMA ReadLabelKeeps == ASSUME DnsInv, ReadLabel PROVE DnsInv'
<1>. DEFINE behind == IF reply.body = << >> THEN reply.body ELSE Tail(reply.body)
<1>1. /\ dnsPc = "question" /\ OfReply
      /\ labelLen' = LengthRead /\ reply' = [reply EXCEPT !.body = behind]
      /\ dnsPc' = IF labelLen' THEN "question" ELSE "answer"
      /\ UNCHANGED << ms, requestId, localPort, asked, waits, waiting, answers, result >>
  BY DEF ReadLabel, DnsInv, ReadsReply
<1>2. labelLen' \in BOOLEAN
  BY <1>1 DEF LengthRead, DnsInv, DnsTypeOK
<1>3. DnsTypeOK'
  <2>1. reply'.name = reply.name
    BY <1>1
  <2>. QED BY <1>1, <1>2, <2>1 DEF DnsInv, DnsTypeOK
<1>4. behind \in Seq(Tokens)
  BY <1>1 DEF OfReply
<1>5. ASSUME ~result.cut
      PROVE  \/ /\ reply.body # << >> /\ Head(reply.body) = "label" /\ Len(behind) = 2 * reply.count + 1
                /\ behind[1] = "end"
             \/ reply.body # << >> /\ Head(reply.body) = "end" /\ Len(behind) = 2 * reply.count
  <2>1. reply.body \in Seq(Tokens) /\ reply.body # << >> /\ reply.count \in Nat
    BY <1>1, <1>5 DEF OfReply
  <2>2. /\ Head(reply.body) = reply.body[1] /\ Len(behind) = Len(reply.body) - 1
        /\ Len(reply.body) > 1 => behind[1] = reply.body[2]
    BY <2>1
  <2>3. \/ Len(reply.body) = 2 * reply.count + 2 /\ reply.body[1] = "label" /\ reply.body[2] = "end"
        \/ Len(reply.body) = 2 * reply.count + 1 /\ reply.body[1] = "end"
    BY <1>1, <1>5 DEF OfReply
  <2>4. CASE Len(reply.body) = 2 * reply.count + 2 /\ reply.body[1] = "label" /\ reply.body[2] = "end"
    BY <2>1, <2>2, <2>4
  <2>5. CASE Len(reply.body) = 2 * reply.count + 1 /\ reply.body[1] = "end"
    BY <2>1, <2>2, <2>5
  <2>. QED BY <2>3, <2>4, <2>5
<1>6. CASE labelLen'
  <2>1. ~result.cut => Head(reply.body) = "label"
    BY <1>1, <1>5, <1>6 DEF LengthRead
  <2>. QED BY <1>1, <1>3, <1>4, <1>5, <1>6, <2>1
    DEF DnsInv, OfReply, InLookup, ResultIsOwn, NumberTells, ReadsReply
<1>7. CASE ~labelLen'
  <2>1. ~result.cut => Head(reply.body) = "end"
    BY <1>1, <1>5, <1>7 DEF LengthRead
  <2>. QED BY <1>1, <1>3, <1>4, <1>5, <1>7, <2>1
    DEF DnsInv, OfReply, InLookup, ResultIsOwn, NumberTells, ReadsReply
<1>. QED BY <1>6, <1>7

LEMMA ReadRecordsKeeps == ASSUME DnsInv, ReadRecords PROVE DnsInv'
<1>. DEFINE came     == { i \in 1 .. reply.count : 2 * i - 1 <= Len(reply.body) }
            decisive == { i \in came : reply.body[2 * i - 1] # "other" }
            least    == CHOOSE i \in decisive : \A j \in decisive : i <= j
<1>1. dnsPc = "answer" /\ OfReply /\ asked \in Names
  BY DEF ReadRecords, DnsInv, ReadsReply, InLookup
<1>2. ~result.cut => came = 1 .. reply.count
  BY <1>1 DEF OfReply
<1>3. decisive # {} => least \in decisive
  <2>1. decisive \in SUBSET Nat
    BY <1>1 DEF OfReply
  <2>. HIDE DEF decisive
  <2>. QED BY <2>1, LeastIs
<1>4. decisive # {} /\ ~result.cut => 2 * least <= Len(reply.body)
  BY <1>1, <1>3 DEF OfReply
<1>5. PICK code \in { 1, -9, -10 }, name \in Names \cup { NoName } :
        Returns(code, name) /\ (code = 1 => name = asked \/ (name = NoName /\ result.cut))
  <2>1. \/ Returns(-10, asked) \/ Returns(-9, asked)
        \/ came # 1 .. reply.count /\ Returns(1, NoName)
        \/ decisive # {} /\ 2 * least <= Len(reply.body) /\ Returns(1, reply.name)
        \/ decisive # {} /\ ~(2 * least <= Len(reply.body)) /\ Returns(1, NoName)
    BY DEF ReadRecords
  <2>. HIDE DEF came, decisive, least
  <2>2. reply.name = asked
    BY <1>1 DEF OfReply
  <2>. QED BY <1>1, <1>2, <1>4, <2>1, <2>2 DEF DnsInv, DnsTypeOK
<1>6. /\ dnsPc' = "idle" /\ result' = [code |-> code, name |-> IF code = 1 THEN name ELSE NoName, cut |-> result.cut]
      /\ reply'.name = NoName /\ labelLen' = FALSE
      /\ UNCHANGED << ms, requestId, localPort, asked, waits, waiting, answers >>
  BY <1>5 DEF ReadRecords, Returns, NothingLeft
<1>7. DnsTypeOK'
  BY <1>6 DEF DnsInv, DnsTypeOK, Codes
<1>. QED BY <1>5, <1>6, <1>7 DEF DnsInv, InLookup, ResultIsOwn, NumberTells, ReadsReply

LEMMA DnsStep == ASSUME DnsInv, [DnsNext]_dnsVars PROVE DnsInv'
<1>. USE DnsAssumption DEF DnsInv, ReadsReply, replyVars
<1>t. DnsTypeOK
  BY DEF InLookup
<1>r. ASSUME NEW code \in Codes \ { 1 }, NEW name, Returns(code, name),
             UNCHANGED << ms, requestId, localPort, asked, replyVars >>,
             waits' \in 0 .. Waits, waiting' \in 0 .. DnsTimeout + 1,
             answers' \subseteq [id : 0 .. IdMod - 1, port : 0 .. PortMod - 1, name : Names, age : 0 .. Life]
      PROVE  DnsInv'
  BY <1>r, <1>t DEF Returns, InLookup, DnsTypeOK, ResultIsOwn, NumberTells
<1>1. ASSUME NEW name \in Names, Lookup(name) PROVE DnsInv'
  <2>1. localPort' \in 0 .. PortMod - 1 /\ requestId' \in 0 .. IdMod - 1
    BY <1>1, <1>t DEF Lookup, DnsTypeOK
  <2>2. /\ result' \in [code : Codes, name : Names \cup { NoName }, cut : BOOLEAN]
        /\ result'.code = 1 => result'.name = name
    <3>1. result' \in { [code |-> 0, name |-> NoName, cut |-> FALSE], [code |-> -2, name |-> NoName, cut |-> FALSE],
                        [code |-> 1, name |-> name, cut |-> FALSE] }
      BY <1>1 DEF Lookup, NoResult
    <3>2. { 0, -2, 1 } \subseteq Codes /\ name \in Names
      BY <1>1 DEF Codes
    <3>3. CASE result' = [code |-> 0, name |-> NoName, cut |-> FALSE]
      BY <3>2, <3>3
    <3>4. CASE result' = [code |-> -2, name |-> NoName, cut |-> FALSE]
      BY <3>2, <3>4
    <3>5. CASE result' = [code |-> 1, name |-> name, cut |-> FALSE]
      BY <3>2, <3>5
    <3>. QED BY <3>1, <3>3, <3>4, <3>5
  <2>3. DnsTypeOK'
    BY <1>1, <1>t, <2>1, <2>2 DEF Lookup, DnsTypeOK
  <2>. QED BY <1>1, <2>2, <2>3 DEF Lookup, InLookup, ResultIsOwn, NumberTells
<1>2. CASE SendTakesTime /\ SendRequest
  <2>0. asked \in Names /\ ms \in 0 .. IdMod - 1 /\ localPort \in 0 .. PortMod - 1
    BY <1>2, <1>t DEF SendRequest, InLookup, DnsTypeOK
  <2>1. ServerAnswers(asked) \in [id : 0 .. IdMod - 1, port : 0 .. PortMod - 1,
                                  name : Names, age : 0 .. Life]
    BY <2>0 DEF ServerAnswers
  <2>2. CASE dnsPc' = "waiting"
    <3>0. result' = result /\ answers' \in { answers, answers \cup { ServerAnswers(asked) } }
      BY <1>2, <2>2 DEF SendRequest, Returns
    <3>1. NumberTells'
      BY <1>2, <3>0 DEF SendRequest, SendTakesTime, NumberTells, ServerAnswers
    <3>2. DnsTypeOK'
      BY <1>2, <1>t, <2>1, <2>2, <3>0 DEF SendRequest, DnsTypeOK
    <3>. QED BY <1>2, <2>0, <2>2, <3>0, <3>1, <3>2 DEF SendRequest, InLookup, ResultIsOwn
  <2>3. CASE dnsPc' # "waiting"
    BY <1>2, <1>t, <2>3 DEF SendRequest, Returns, InLookup, DnsTypeOK, ResultIsOwn, NumberTells, Codes
  <2>. QED BY <2>2, <2>3
<1>3. ASSUME NEW a \in answers, AnswerIsRefused(a) PROVE DnsInv'
  <2>1. PICK code \in { -4, -5, -6 } : Returns(code, asked)
    BY <1>3 DEF AnswerIsRefused
  <2>2. answers' \subseteq answers /\ UNCHANGED << ms, requestId, localPort, asked, waits, waiting, replyVars >>
    BY <1>3 DEF AnswerIsRefused, ReceiveAnswer
  <2>. QED BY <1>r, <1>t, <2>1, <2>2 DEF DnsTypeOK, Codes
<1>4. ASSUME NEW a \in answers, ReadAnswer(a) PROVE DnsInv'
  BY <1>4, ReadAnswerKeeps
<1>5. CASE ReadLabel \/ ReadRecords
  BY <1>5, ReadLabelKeeps, ReadRecordsKeeps
<1>6. CASE ReceiveStray
  <2>1. PICK code \in { -2, -3 } : Returns(code, asked)
    BY <1>6 DEF ReceiveStray
  <2>. QED BY <1>6, <1>r, <1>t, <2>1 DEF ReceiveStray, DnsTypeOK, Codes
<1>7. CASE WaitEnds
  <2>1. waits' \in 0 .. Waits /\ waiting' \in 0 .. DnsTimeout + 1
    BY <1>7, <1>t DEF WaitEnds, InLookup, DnsTypeOK
  <2>2. CASE waits' < Waits
    BY <1>7, <1>t, <2>1, <2>2 DEF WaitEnds, InLookup, DnsTypeOK, ResultIsOwn, NumberTells
  <2>3. CASE ~(waits' < Waits)
    <3>1. Returns(-1, asked)
      BY <1>7, <2>3 DEF WaitEnds
    <3>. QED BY <1>7, <1>r, <1>t, <2>1, <3>1 DEF WaitEnds, DnsTypeOK, Codes
  <2>. QED BY <2>2, <2>3
<1>8. CASE DnsTick
  <2>. DEFINE older(a) == [a EXCEPT !.age = a.age + 1]
  <2>1. answers' = { older(a) : a \in { b \in answers : b.age < Life } }
    BY <1>8 DEF DnsTick
  <2>2. ASSUME NEW a \in answers, a.age < Life
        PROVE  /\ older(a) \in [id : 0 .. IdMod - 1, port : 0 .. PortMod - 1,
                                name : Names, age : 0 .. Life]
               /\ older(a).id = a.id /\ older(a).name = a.name
    BY <1>t, <2>2 DEF DnsTypeOK
  <2>. HIDE DEF older
  <2>3. NumberTells'
    BY <1>8, <2>1, <2>2 DEF DnsTick, InLookup, NumberTells
  <2>4. ms' \in 0 .. IdMod - 1 /\ waiting' \in 0 .. DnsTimeout + 1
    BY <1>8, <1>t DEF DnsTick, DnsTypeOK
  <2>5. DnsTypeOK'
    BY <1>8, <1>t, <2>1, <2>2, <2>4 DEF DnsTick, DnsTypeOK
  <2>. QED BY <1>8, <2>3, <2>5 DEF DnsTick, InLookup, ResultIsOwn
<1>9. CASE UNCHANGED dnsVars
  BY <1>9 DEF dnsVars, InLookup, DnsTypeOK, ResultIsOwn, NumberTells, OfReply
<1>. QED BY <1>1, <1>2, <1>3, <1>4, <1>5, <1>6, <1>7, <1>8, <1>9 DEF DnsNext

(* A lookup that succeeds returns the address of the name it asked for,    *)
(* or none and only if the answer was cut short, whatever answers to       *)
(* earlier lookups are still on their way and wherever they end, for every *)
(* length of the clock and of the life of an answer (Dns.cpp:170, :268).   *)
THEOREM LookupsReturnTheirOwn == DnsSpec => []ResultIsOwn
<1>1. DnsSpec => []DnsInv
  BY DnsStart, DnsStep, PTL DEF DnsSpec
<1>2. DnsInv => ResultIsOwn
  BY DEF DnsInv
<1>. QED BY <1>1, <1>2, PTL

-----------------------------------------------------------------------------
(* The sockets.                                                            *)

LEMMA LowestIsIn ==
  ASSUME NEW S \in SUBSET Sock, S # {}
  PROVE  Lowest(S) \in S
<1>1. S \in SUBSET Nat
  BY SocketsAssumption
<1>2. \E x \in S : \A y \in S : x <= y
  BY <1>1, LeastIs
<1>. QED BY <1>2 DEF Lowest

(* stop() waits for a socket exactly while one of its two loops runs.      *)
SocketsInv ==
  /\ { client, udp, handed, stopping } \subseteq Sock \cup { NoSock } /\ at \in Sock
  /\ DOMAIN sr = Sock /\ DOMAIN serverPort = Sock
  /\ stopping # NoSock <=> netPc \in { "stopping", "acceptStopping" }
  /\ NoSocketLost

LEMMA SocketsStart == SocketsInit => SocketsInv
BY SocketsAssumption, LowestIsIn DEF SocketsInit, SocketsInv, NoSocketLost

LEMMA SocketsStep == ASSUME SocketsInv, [SocketsNext]_socketsVars PROVE SocketsInv'
<1>. USE SocketsAssumption DEF SocketsInv, NoSocketLost, chipState, objects, acceptVars, Set
<1>1. ASSUME NEW statuses, In(statuses) # {} PROVE Lowest(In(statuses)) \in In(statuses)
  BY <1>1, LowestIsIn DEF In
<1>2. Onward => at' \in Sock /\ netPc' \in { "accept", "accepted" }
  <2>1. After(at) \subseteq Sock
    BY DEF After
  <2>. QED BY <2>1, LowestIsIn DEF Onward
<1>3. CASE Connect \/ ConnectIsRefused
  <2>1. Lowest(Connectable) \in Sock
    BY <1>1, <1>3 DEF Connect, ConnectIsRefused, MayConnect, Connectable, In
  <2>. QED BY <1>3, <2>1 DEF Connect, ConnectIsRefused, MayConnect, Open
<1>4. CASE ConnectReturns
  BY <1>4 DEF ConnectReturns
<1>5. CASE ClientStop
  BY <1>5 DEF ClientStop, Stop, Disconnected
<1>6. CASE ClientStopReturns
  BY <1>6 DEF ClientStopReturns, Stopped
<1>7. CASE ClientRead
  BY <1>7 DEF ClientRead
<1>8. CASE UdpBegin
  <2>1. udp' \in Sock
    BY <1>1, <1>8 DEF UdpBegin, In
  <2>. QED BY <1>8, <2>1 DEF UdpBegin, Open
<1>9. CASE UdpStop
  BY <1>9 DEF UdpStop, Open
<1>10. CASE Available
  BY <1>10, LowestIsIn DEF Available
<1>11. CASE AcceptNext
  BY <1>2, <1>11 DEF AcceptNext
<1>12. CASE AcceptStops
  BY <1>12 DEF AcceptStops, Stop, Disconnected
<1>13. CASE AcceptStopped
  BY <1>2, <1>13 DEF AcceptStopped, Stopped
<1>14. CASE ServerBegin
  <2>1. Lowest(In({ "CLOSED" })) \in Sock
    BY <1>1, <1>14 DEF ServerBegin, In
  <2>. QED BY <1>14, <2>1 DEF ServerBegin, Open
<1>15. CASE NoBegin \/ HandOut
  <2>1. Readable # {} => Lowest(Readable) \in Sock
    BY LowestIsIn DEF Readable, In
  <2>. QED BY <1>15, <2>1 DEF NoBegin, HandOut
<1>16. CASE Peer \/ PeersAnswer
  BY <1>16 DEF Peer, PeersAnswer, PeerConnects, PeerAnswers, PeerSends, PeerCloses, PeerResets,
               Becomes, Elsewhere
<1>17. CASE UNCHANGED socketsVars
  BY <1>17 DEF socketsVars
<1>. QED BY <1>3, <1>4, <1>5, <1>6, <1>7, <1>8, <1>9, <1>10, <1>11, <1>12, <1>13, <1>14, <1>15,
            <1>16, <1>17 DEF SocketsNext, Going, NetCalls

(* A socket that is in use belongs to an object or to the server, whoever  *)
(* gives it up and whatever its peer does meanwhile, for any number of     *)
(* sockets (EthernetClient.cpp:42-70, :126-149); but for the one that      *)
(* connect() opens for an address or a port it then refuses (:55-60).      *)
THEOREM SocketsAreKept == SocketsSpec => []NoSocketLost
<1>1. SocketsSpec => []SocketsInv
  BY SocketsStart, SocketsStep, PTL DEF SocketsSpec
<1>2. SocketsInv => NoSocketLost
  BY DEF SocketsInv
<1>. QED BY <1>1, <1>2, PTL

-----------------------------------------------------------------------------
(* The DHCP client.                                                        *)

(* A session is under way exactly while a call is.                         *)
SessionInv ==
  /\ dhcpPc = "idle" <=> caller = "none"
  /\ dhcpState = "LEASED" => dhcpPc \in { "idle", "end" }

(* The address of a lease is the one last acknowledged; the chip has it, or *)
(* gets it when the session returns.                                       *)
AddressInv ==
  /\ dhcpState = "LEASED" => localIp = acked
  /\ chipIp \in { NoIp, acked } \/ (dhcpState = "LEASED" /\ dhcpPc = "end")

(* What the counter to the renewal has lost makes up for the time since    *)
(* the lease began, as of the last look at the clock.                      *)
RenewalInv ==
  dhcpState = "LEASED" =>
    IF dhcpPc = "end" THEN age = 0 /\ renewIn = t1 /\ t1 > 0
                      ELSE renewIn > 0 /\ age - sinceCheck <= (t1 - renewIn) * Second

DhcpInv == DhcpTypeOK /\ SessionInv /\ AddressInv /\ RenewalInv

LEMMA AnswersAreAnswers ==
  ASSUME NEW ans, net \subseteq Answer, Answered(ans), \A s \in Servers : ans[s] \subseteq Answer
  PROVE  net' \subseteq Answer
<1>1. PICK R \in SUBSET { s \in Servers : ans[s] # {} }, kept \in SUBSET net :
        \E a \in [R -> UNION { ans[s] : s \in R }] :
          (\A s \in R : a[s] \in ans[s]) /\ net' = kept \cup { a[s] : s \in R }
  BY DEF Answered
<1>2. PICK a \in [R -> UNION { ans[s] : s \in R }] :
        (\A s \in R : a[s] \in ans[s]) /\ net' = kept \cup { a[s] : s \in R }
  BY <1>1
<1>3. \A s \in R : a[s] \in Answer
  BY <1>1, <1>2
<1>. QED BY <1>1, <1>2, <1>3

LEMMA AnswersTo ==
  ASSUME NEW x \in Nat, NEW ip, NEW id, net \subseteq Answer
  PROVE  /\ Discover(x) => net' \subseteq Answer
         /\ Request(x, ip, id) => net' \subseteq Answer
<1>1. \A s \in Servers : Offers(s, x) \subseteq Answer
  BY DEF Offers, Answer, Addresses
<1>2. \A s \in Servers : Acks(s, x, ip, id) \subseteq Answer
  BY DEF Acks, Answer, Addresses
<1>3. \A s \in Servers : Naks(s, x, id) \subseteq Answer
  BY DEF Naks, Answer, Addresses
<1>. QED BY <1>1, <1>2, <1>3, AnswersAreAnswers DEF Discover, Request

\* What an answer brings.
LEMMA AnswerIs ==
  ASSUME NEW m \in Answer
  PROVE  /\ m.type \in { "OFFER", "ACK", "NAK" } /\ m.xid \in Nat /\ m.ip \in Addresses
         /\ m.server \in Servers /\ m.grant \in Grants
         /\ m.grant.lease \in Nat /\ m.grant.lease >= 2 /\ m.grant.t1 \in Nat /\ m.grant.t2 \in Nat
BY DhcpAssumption DEF Answer

LEMMA DhcpStart == DhcpInit => DhcpInv
<1>1. DhcpInit => firstXid \in Nat
  BY DhcpAssumption DEF DhcpInit
<1>. QED BY <1>1, DhcpAssumption DEF DhcpInit, DhcpInv, DhcpTypeOK, SessionInv, AddressInv, RenewalInv, Addresses

\* An answer that leaves the client without a lease.
LEMMA KeepsNoLease ==
  ASSUME DhcpInv, NEW m \in Answer, KeepAddress(m), KeepTimes(m), dhcpState' # "LEASED",
         dhcpPc' \in { "loop", "end" }, dhcpPc = "wait", acked' = acked,
         UNCHANGED << firstXid, sinceCheck, caller, elapsed, waited, chipIp >>,
         dhcpState' \in { "START", "DISCOVER", "REQUEST" }, xid' \in Nat, net' \subseteq Answer
  PROVE  DhcpInv'
<1>. USE DhcpAssumption, AnswerIs
<1>1. DhcpTypeOK'
  BY DEF DhcpInv, DhcpTypeOK, KeepAddress, KeepTimes, Given, Addresses
<1>. QED BY <1>1 DEF DhcpInv, DhcpTypeOK, SessionInv, AddressInv, RenewalInv

\* A new session, in a state that is no lease.
LEMMA SessionStarts ==
  ASSUME DhcpTypeOK, NEW who \in { "begin", "renew", "rebind" }, StartSession(who)
  PROVE  /\ caller' = who /\ dhcpPc' \in { "loop", "noSocket" }
         /\ { xid', firstXid', elapsed', waited' } \subseteq Nat
BY DhcpAssumption DEF StartSession, DhcpTypeOK

\* The seconds a counter has left, if any, are exact.
LEMMA CountsDown ==
  ASSUME NEW counter \in Nat, NEW secs \in Nat
  PROVE  /\ CountDown(counter, secs) \in Nat
         /\ CountDown(counter, secs) # 0 => CountDown(counter, secs) = counter - secs
BY DEF CountDown

LEMMA WholeSeconds ==
  /\ sinceCheck \in Nat => sinceCheck \div Second \in Nat /\ Remainder \in Nat
  /\ sinceCheck \in Nat => sinceCheck - Remainder = (sinceCheck \div Second) * Second
BY DhcpAssumption DEF Remainder

LEMMA CheckKeeps == ASSUME DhcpInv, CheckLease PROVE DhcpInv'
<1>. DEFINE secs == sinceCheck \div Second
<1>t. DhcpTypeOK
  BY DEF DhcpInv
<1>0. sinceCheck \in Nat /\ renewIn \in Nat /\ rebindIn \in Nat /\ age \in Nat /\ t1 \in Nat /\ Second \in Nat \ { 0 }
  BY <1>t, DhcpAssumption DEF DhcpTypeOK
<1>1. secs \in Nat /\ sinceCheck' \in Nat /\ sinceCheck - sinceCheck' = secs * Second
  BY <1>0, WholeSeconds DEF CheckLease
<1>2. /\ renewIn' \in Nat /\ (renewIn' # 0 => renewIn' = renewIn - secs)
      /\ rebindIn' \in Nat
  <2>1. /\ renewIn' = IF secs > 0 THEN CountDown(renewIn, secs) ELSE renewIn
        /\ rebindIn' = IF secs > 0 THEN CountDown(rebindIn, secs) ELSE rebindIn
    BY DEF CheckLease
  <2>. HIDE DEF secs
  <2>2. /\ CountDown(renewIn, secs) \in Nat /\ CountDown(rebindIn, secs) \in Nat
        /\ CountDown(renewIn, secs) # 0 => CountDown(renewIn, secs) = renewIn - secs
    BY <1>0, <1>1, CountsDown
  <2>. QED BY <1>0, <1>1, <2>1, <2>2
<1>3. dhcpPc = "idle" /\ caller = "none" /\ UNCHANGED << net, chipIp, acked >>
  BY DEF CheckLease, DhcpInv, SessionInv
<1>4. CASE UNCHANGED << dhcpState, xid, firstXid, dhcpPc, caller, elapsed, waited,
                        localIp, serverId, leaseTime, t1, t2, age >> /\ ~(renewIn' = 0 /\ dhcpState = "LEASED")
  <2>1. DhcpTypeOK'
    BY <1>t, <1>1, <1>2, <1>3, <1>4 DEF DhcpTypeOK
  <2>2. SessionInv' /\ AddressInv'
    BY <1>3, <1>4 DEF DhcpInv, SessionInv, AddressInv
  <2>3. ASSUME dhcpState = "LEASED" PROVE renewIn' > 0 /\ age' - sinceCheck' <= (t1' - renewIn') * Second
    <3>1. age - sinceCheck <= (t1 - renewIn) * Second
      BY <1>3, <2>3 DEF DhcpInv, RenewalInv
    <3>2. renewIn' = renewIn - secs /\ age' = age /\ t1' = t1 /\ renewIn' > 0
      BY <1>2, <1>4, <2>3
    <3>3. (t1 - (renewIn - secs)) * Second = (t1 - renewIn) * Second + secs * Second
      BY <1>0, <1>1
    <3>4. age - sinceCheck' = (age - sinceCheck) + secs * Second
      BY <1>0, <1>1
    <3>. DEFINE lost == (t1 - renewIn) * Second
                passed == secs * Second
    <3>5. lost \in Int /\ passed \in Int
      BY <1>0, <1>1
    <3>6. age - sinceCheck \in Int
      BY <1>0
    <3>. HIDE DEF lost, passed
    <3>7. age - sinceCheck' <= lost + passed
      BY <1>0, <3>1, <3>4, <3>5, <3>6 DEF lost, passed
    <3>. QED BY <3>2, <3>3, <3>7 DEF lost, passed
  <2>4. RenewalInv'
    BY <1>3, <1>4, <2>3 DEF RenewalInv
  <2>. QED BY <2>1, <2>2, <2>4 DEF DhcpInv
<1>5. ASSUME dhcpState' \in { "START", "REREQUEST" }, age' = 0,
             UNCHANGED << leaseTime, t1, t2 >>, { localIp', serverId' } \subseteq Addresses,
             NEW who \in { "begin", "renew", "rebind" }, StartSession(who)
      PROVE  DhcpInv'
  <2>1. caller' = who /\ dhcpPc' \in { "loop", "noSocket" }
        /\ { xid', firstXid', elapsed', waited' } \subseteq Nat
    BY <1>t, <1>5, SessionStarts
  <2>2. DhcpTypeOK'
    BY <1>t, <1>1, <1>2, <1>3, <1>5, <2>1 DEF DhcpTypeOK
  <2>. QED BY <1>3, <1>5, <2>1, <2>2 DEF DhcpInv, SessionInv, AddressInv, RenewalInv
<1>. QED BY <1>t, <1>4, <1>5 DEF CheckLease, Rebind, DhcpTypeOK, Addresses

LEMMA ReturnKeeps == ASSUME DhcpInv, SessionReturns PROVE DhcpInv'
<1>. USE DhcpAssumption
<1>t. DhcpTypeOK
  BY DEF DhcpInv
<1>1. /\ dhcpPc \in { "end", "noSocket" } /\ UNCHANGED << net, acked, age >>
      /\ sinceCheck' = IF dhcpPc = "end" THEN 0 ELSE sinceCheck
      /\ chipIp' \in Addresses /\ chipIp' \in { NoIp, acked }
  BY <1>t DEF SessionReturns, DhcpInv, DhcpTypeOK, SessionInv, AddressInv
<1>2. CASE Rebind /\ UNCHANGED << renewIn, rebindIn >>
  <2>1. caller' = "rebind" /\ dhcpPc' \in { "loop", "noSocket" }
        /\ { xid', firstXid', elapsed', waited' } \subseteq Nat
    BY <1>t, <1>2, SessionStarts DEF Rebind
  <2>2. DhcpTypeOK'
    BY <1>t, <1>1, <1>2, <2>1 DEF DhcpTypeOK, Rebind, Addresses
  <2>. QED BY <1>1, <1>2, <2>1, <2>2 DEF Rebind, DhcpInv, SessionInv, AddressInv, RenewalInv
<1>3. CASE dhcpPc' = "idle" /\ caller' = "none" /\ elapsed' = 0 /\ waited' = 0 /\ xid' = firstXid
           /\ UNCHANGED << dhcpState, firstXid, dhcpLease >>
  <2>1. DhcpTypeOK'
    BY <1>t, <1>1, <1>3 DEF DhcpTypeOK, dhcpLease
  <2>2. ASSUME dhcpState = "LEASED" PROVE renewIn' > 0 /\ age' - sinceCheck' <= (t1' - renewIn') * Second
    <3>1. dhcpPc = "end" /\ age = 0 /\ renewIn = t1 /\ t1 > 0 /\ t1 \in Nat
      BY <1>t, <1>1, <2>2 DEF DhcpInv, DhcpTypeOK, SessionInv, RenewalInv
    <3>. QED BY <1>1, <1>3, <3>1 DEF dhcpLease
  <2>3. SessionInv' /\ AddressInv' /\ RenewalInv'
    BY <1>1, <1>3, <2>2 DEF DhcpInv, SessionInv, AddressInv, RenewalInv, dhcpLease
  <2>. QED BY <2>1, <2>3 DEF DhcpInv
<1>. QED BY <1>2, <1>3 DEF SessionReturns

LEMMA ReceiveKeeps == ASSUME DhcpInv, Receive PROVE DhcpInv'
<1>. USE DhcpAssumption
<1>t. DhcpTypeOK
  BY DEF DhcpInv
<1>1. PICK m \in net : \/ ReceiveForeign(m) \/ ReceiveOffer(m) \/ ReceiveAck(m)
                       \/ ReceiveNak(m) \/ ReceiveUnexpected(m)
  BY DEF Receive
<1>2. /\ dhcpPc = "wait" /\ dhcpState # "LEASED" /\ caller # "none"
      /\ UNCHANGED << firstXid, sinceCheck, caller, elapsed, waited, chipIp >>
  BY DEF Receive, DhcpInv, SessionInv
<1>3. m \in Answer /\ net \subseteq Answer /\ xid \in Nat
  BY <1>t DEF DhcpTypeOK
<1>4. \A state : LoopEnd(state) => dhcpState' = state /\ dhcpPc' \in { "loop", "end" }
  BY DEF LoopEnd
<1>5. CASE ReceiveForeign(m)
  <2>1. DhcpTypeOK'
    BY <1>t, <1>2, <1>4, <1>5 DEF ReceiveForeign, DhcpTypeOK, dhcpLease
  <2>. QED BY <1>2, <1>4, <1>5, <2>1
    DEF ReceiveForeign, DhcpInv, SessionInv, AddressInv, RenewalInv, dhcpLease
<1>6. CASE ReceiveOffer(m)
  <2>1. m.xid \in Nat
    BY <1>3, AnswerIs
  <2>2. Request(m.xid, localIp', serverId') /\ xid' = m.xid
    BY <1>6 DEF ReceiveOffer
  <2>3. net' \subseteq Answer
    BY <1>3, <2>1, <2>2, AnswersTo
  <2>. QED BY <1>2, <1>3, <1>4, <1>6, <2>1, <2>2, <2>3, KeepsNoLease DEF ReceiveOffer
<1>7. CASE ReceiveAck(m)
  <2>1. /\ leaseTime' \in Nat /\ leaseTime' >= 2 /\ t1' \in Nat /\ t1' > 0 /\ t2' \in Nat
        /\ renewIn' = t1' /\ rebindIn' = t2' /\ age' = 0
    <3>1. /\ m.grant.lease \in Nat /\ m.grant.lease >= 2
          /\ m.grant.t1 \in Nat /\ m.grant.t2 \in Nat /\ t1 \in Nat /\ t2 \in Nat
      BY <1>t, <1>3, AnswerIs DEF DhcpTypeOK
    <3>2. leaseTime' = m.grant.lease
      BY <1>7, <3>1 DEF ReceiveAck, Bind, Given
    <3>3. /\ leaseTime' \div 2 \in Nat /\ leaseTime' \div 2 > 0
          /\ leaseTime' - leaseTime' \div 8 \in Nat
      BY <3>1, <3>2
    <3>4. t1' \in Nat /\ t1' > 0
      BY <1>7, <3>1, <3>3 DEF ReceiveAck, Bind, Given, OrZero
    <3>5. t2' \in Nat
      BY <1>7, <3>1, <3>3 DEF ReceiveAck, Bind, Given, OrZero
    <3>. QED BY <1>7, <3>1, <3>2, <3>4, <3>5 DEF ReceiveAck, Bind
  <2>2. /\ dhcpState' = "LEASED" /\ dhcpPc' = "end" /\ localIp' = m.ip /\ acked' = m.ip
        /\ serverId' \in { serverId, m.server } /\ xid' = xid /\ net' = net
    BY <1>7 DEF ReceiveAck, LoopEnd, KeepAddress
  <2>3. m.ip \in Addresses /\ m.server \in Addresses
    BY <1>3, AnswerIs DEF Addresses
  <2>4. DhcpTypeOK'
    BY <1>t, <1>2, <2>1, <2>2, <2>3 DEF DhcpTypeOK
  <2>. QED BY <1>2, <2>1, <2>2, <2>4 DEF DhcpInv, SessionInv, AddressInv, RenewalInv
<1>8. CASE ReceiveNak(m)
  BY <1>2, <1>3, <1>4, <1>8, KeepsNoLease DEF ReceiveNak
<1>9. CASE ReceiveUnexpected(m)
  BY <1>2, <1>3, <1>4, <1>9, KeepsNoLease DEF ReceiveUnexpected
<1>. QED BY <1>1, <1>5, <1>6, <1>7, <1>8, <1>9

LEMMA AtMostOfLess == ASSUME NEW a \in Int, NEW b \in Int, NEW c \in Int, a <= b, b <= c
                     PROVE  a <= c
OBVIOUS

LEMMA DhcpStep == ASSUME DhcpInv, [DhcpNext]_dhcpVars PROVE DhcpInv'
<1>. USE DhcpAssumption
<1>t. DhcpTypeOK /\ net \subseteq Answer /\ xid \in Nat
  BY DEF DhcpInv, DhcpTypeOK
<1>1. CASE Begin
  <2>1. caller' = "begin" /\ dhcpPc' \in { "loop", "noSocket" }
        /\ { xid', firstXid', elapsed', waited' } \subseteq Nat
    BY <1>t, <1>1, SessionStarts DEF Begin
  <2>2. DhcpTypeOK'
    BY <1>t, <1>1, <2>1 DEF Begin, DhcpTypeOK, Addresses
  <2>. QED BY <1>1, <2>1, <2>2 DEF Begin, DhcpInv, SessionInv, AddressInv, RenewalInv
<1>2. CASE SendDiscover
  <2>1. xid' \in Nat /\ net' \subseteq Answer
    BY <1>t, <1>2, AnswersTo DEF SendDiscover
  <2>2. DhcpTypeOK'
    BY <1>t, <1>2, <2>1 DEF SendDiscover, LoopEnd, DhcpTypeOK, dhcpLease
  <2>. QED BY <1>2, <2>2
    DEF SendDiscover, LoopEnd, DhcpInv, SessionInv, AddressInv, RenewalInv, dhcpLease
<1>3. CASE SendRenewal
  <2>1. xid' \in Nat /\ net' \subseteq Answer
    BY <1>t, <1>3, AnswersTo DEF SendRenewal
  <2>2. DhcpTypeOK'
    BY <1>t, <1>3, <2>1 DEF SendRenewal, LoopEnd, DhcpTypeOK, dhcpLease
  <2>. QED BY <1>3, <2>2
    DEF SendRenewal, LoopEnd, DhcpInv, SessionInv, AddressInv, RenewalInv, dhcpLease
<1>4. CASE WaitsLonger
  BY <1>4, <1>t
  DEF WaitsLonger, DhcpInv, DhcpTypeOK, SessionInv, AddressInv, RenewalInv, dhcpLease
<1>5. CASE ResponseTimesOut
  BY <1>5, <1>t
  DEF ResponseTimesOut, LoopEnd, DhcpInv, DhcpTypeOK, SessionInv, AddressInv, RenewalInv, dhcpLease
<1>6. CASE DhcpTick
  <2>1. /\ elapsed' \in Nat /\ waited' \in Nat /\ age' \in Nat /\ sinceCheck' \in Nat
        /\ age' \in { age, age + 1 }
        /\ dhcpPc = "idle" => sinceCheck' = sinceCheck + 1
        /\ dhcpPc \in { "idle", "wait" }
    BY <1>6, <1>t DEF DhcpTick, DhcpTypeOK
  <2>2. UNCHANGED << dhcpState, xid, firstXid, dhcpLease, dhcpPc, caller, net, chipIp, acked >>
    BY <1>6 DEF DhcpTick
  <2>3. DhcpTypeOK'
    BY <1>t, <2>1, <2>2 DEF DhcpTypeOK, dhcpLease
  <2>4. SessionInv' /\ AddressInv'
    BY <2>2 DEF DhcpInv, SessionInv, AddressInv, dhcpLease
  <2>5. ASSUME dhcpState = "LEASED" PROVE renewIn > 0 /\ age' - sinceCheck' <= (t1 - renewIn) * Second
    <3>1. dhcpPc = "idle"
      BY <2>1, <2>5 DEF DhcpInv, SessionInv
    <3>2. renewIn > 0 /\ age - sinceCheck <= (t1 - renewIn) * Second
      BY <2>5, <3>1 DEF DhcpInv, RenewalInv
    <3>3. age' - sinceCheck' <= age - sinceCheck /\ age \in Nat /\ sinceCheck \in Nat
      BY <1>t, <2>1, <3>1 DEF DhcpTypeOK
    <3>4. (t1 - renewIn) * Second \in Int
      BY <1>t DEF DhcpTypeOK
    <3>5. age - sinceCheck \in Int /\ age' - sinceCheck' \in Int
      BY <2>1, <3>3
    <3>. QED BY <3>2, <3>3, <3>4, <3>5, AtMostOfLess
  <2>6. RenewalInv'
    BY <2>1, <2>2, <2>5 DEF RenewalInv, dhcpLease
  <2>. QED BY <2>3, <2>4, <2>6 DEF DhcpInv
<1>7. CASE Lose
  BY <1>7, <1>t
  DEF Lose, DhcpInv, DhcpTypeOK, SessionInv, AddressInv, RenewalInv, dhcpLease
<1>8. CASE UNCHANGED dhcpVars
  BY <1>8, <1>t
  DEF dhcpVars, DhcpInv, DhcpTypeOK, SessionInv, AddressInv, RenewalInv, dhcpLease
<1>. QED BY <1>1, <1>2, <1>3, <1>4, <1>5, <1>6, <1>7, <1>8, CheckKeeps, ReturnKeeps, ReceiveKeeps
  DEF DhcpNext, Session

LEMMA DhcpInductive == DhcpSpec => []DhcpInv
BY DhcpStart, DhcpStep, PTL DEF DhcpSpec

LEMMA LessOfMore == ASSUME NEW a \in Int, NEW b \in Nat, b > 0, NEW c \in Nat, c > 0
                   PROVE  (a - b) * c < a * c
<1>. DEFINE p == b * c
            q == a * c
            r == (a - b) * c
<1>1. r = q - p /\ p \in Int /\ q \in Int /\ r \in Int
  OBVIOUS
<1>2. p > 0
  OBVIOUS
<1>3. r < q
  <2>. HIDE DEF p, q, r
  <2>. QED BY <1>1, <1>2
<1>. QED BY <1>3

LEMMA RenewalInTime == DhcpInv => RenewalNotMissed
<1>. SUFFICES ASSUME DhcpInv, dhcpState = "LEASED", dhcpPc = "idle"
              PROVE  age - sinceCheck < t1 * Second
  BY DEF RenewalNotMissed
<1>t. /\ renewIn \in Nat /\ t1 \in Nat /\ age \in Nat /\ sinceCheck \in Nat
      /\ Second \in Nat \ { 0 }
  BY DhcpAssumption DEF DhcpInv, DhcpTypeOK
<1>1. renewIn > 0 /\ age - sinceCheck <= (t1 - renewIn) * Second
  BY DEF DhcpInv, RenewalInv
<1>. DEFINE lost == (t1 - renewIn) * Second
            all == t1 * Second
<1>2. lost < all
  BY <1>t, <1>1, LessOfMore
<1>3. lost \in Int /\ all \in Int
  BY <1>t
<1>4. age - sinceCheck \in Int /\ age - sinceCheck <= lost
  BY <1>t, <1>1
<1>5. age - sinceCheck < all
  <2>. HIDE DEF lost, all
  <2>. QED BY <1>2, <1>3, <1>4
<1>. QED BY <1>5

(* The counters do not fall behind the clock: for every lease, every       *)
(* length of a second in ticks and every rhythm of the calls, less than T1 *)
(* had passed when the client last looked at a lease it still thinks good; *)
(* and the chip answers to no address but the one last acknowledged        *)
(* (Dhcp.cpp:282, :397-418, Ethernet.cpp:77-102).                          *)
THEOREM LeasesAreSound == DhcpSpec => [](ChipUsesAcked /\ RenewalNotMissed)
<1>1. DhcpInv => ChipUsesAcked
  BY DEF DhcpInv, SessionInv, AddressInv, ChipUsesAcked
<1>2. DhcpInv => ChipUsesAcked /\ RenewalNotMissed
  BY <1>1, RenewalInTime
<1>. QED BY <1>2, DhcpInductive, PTL

-----------------------------------------------------------------------------
(* The clients of the library, each doing its part of the steps.           *)
THEOREM ClientsWork == ClientsSpec => []ClientsAreSound
<1>1. ClientsSpec => []ResultIsOwn /\ []NoSocketLost /\ [](ChipUsesAcked /\ RenewalNotMissed)
  BY LookupsReturnTheirOwn, SocketsAreKept, LeasesAreSound DEF ClientsSpec
<1>2. ResultIsOwn /\ NoSocketLost /\ ChipUsesAcked /\ RenewalNotMissed => ClientsAreSound
  BY DEF ClientsAreSound
<1>. QED BY <1>1, <1>2, PTL

-----------------------------------------------------------------------------
(* The data path of a socket.                                              *)

\* Pointers that name the same place of a ring.
Same(N, x, y) == x % N = y % N

LEMMA SameIs ==
  ASSUME NEW N \in Nat, N > 0, NEW x \in Int, NEW y \in Int
  PROVE  Same(N, x, y) <=> \E k \in Int : x = y + N * k
<1>. DEFINE r == x % N
            s == y % N
<1>1. x = N * (x \div N) + r /\ (x \div N) \in Int /\ r \in 0 .. N - 1
  OBVIOUS
<1>2. y = N * (y \div N) + s /\ (y \div N) \in Int /\ s \in 0 .. N - 1
  OBVIOUS
<1>3. PICK p \in Int, q \in Int : x = N * p + r /\ y = N * q + s
  BY <1>1, <1>2
<1>4. ASSUME r = s PROVE \E k \in Int : x = y + N * k
  <2>. HIDE DEF r, s
  <2>1. x = y + N * (p - q) /\ p - q \in Int
    BY <1>1, <1>2, <1>3, <1>4
  <2>. QED BY <2>1
<1>5. ASSUME NEW k \in Int, x = y + N * k PROVE r = s
  <2>1. (N * (q + k) + s) % N = s
    <3>. HIDE DEF r, s
    <3>1. q + k \in Int /\ s \in 0 .. N - 1
      BY <1>2
    <3>. DEFINE j == q + k
    <3>2. j \in Int
      BY <3>1
    <3>. HIDE DEF j
    <3>3. (N * j + s) % N = s
      BY <3>1, <3>2
    <3>. QED BY <3>3 DEF j
  <2>2. x = N * (q + k) + s
    <3>. HIDE DEF r, s
    <3>. QED BY <1>2, <1>3, <1>5
  <2>. QED BY <2>1, <2>2
<1>. QED BY <1>4, <1>5 DEF Same

LEMMA SamePlus ==
  ASSUME NEW N \in Nat, N > 0, NEW x \in Int, NEW y \in Int, NEW c \in Int, Same(N, x, y)
  PROVE  Same(N, x + c, y + c)
<1>1. PICK k \in Int : x = y + N * k
  BY SameIs
<1>2. x + c = (y + c) + N * k /\ x + c \in Int /\ y + c \in Int
  BY <1>1
<1>. QED BY <1>2, SameIs

LEMMA SameMod ==
  ASSUME NEW N \in Nat, N > 0, NEW x \in Int
  PROVE  (x % N) \in 0 .. N - 1 /\ Same(N, x % N, x)
<1>. DEFINE r == x % N
<1>1. r \in 0 .. N - 1
  OBVIOUS
<1>2. r % N = r
  <2>. HIDE DEF r
  <2>. QED BY <1>1
<1>. QED BY <1>1, <1>2 DEF Same

\* What a size divides.
LEMMA SameFiner ==
  ASSUME NEW N \in Nat, N > 0, NEW M \in Nat, M > 0, M % N = 0, NEW x \in Int, NEW y \in Int,
         Same(M, x, y)
  PROVE  Same(N, x, y)
<1>1. M = N * (M \div N) /\ (M \div N) \in Int
  OBVIOUS
<1>2. PICK c \in Int : M = N * c
  BY <1>1
<1>3. PICK k \in Int : x = y + M * k
  BY SameIs
<1>4. c * k \in Int /\ x = y + N * (c * k)
  BY <1>2, <1>3
<1>. QED BY <1>4, SameIs

\* How far one pointer is behind the other.
LEMMA SameApart ==
  ASSUME NEW N \in Nat, N > 0, NEW x \in Int, NEW y \in Int, NEW d \in 0 .. N - 1, Same(N, x, y + d)
  PROVE  (x - y) % N = d
<1>1. Same(N, x - y, d)
  <2>1. -y \in Int /\ y + d \in Int
    OBVIOUS
  <2>2. Same(N, x + (-y), (y + d) + (-y))
    BY <2>1, SamePlus
  <2>3. x + (-y) = x - y /\ (y + d) + (-y) = d
    OBVIOUS
  <2>. QED BY <2>2, <2>3
<1>2. d % N = d
  OBVIOUS
<1>. QED BY <1>1, <1>2 DEF Same

LEMMA SmallIsItself ==
  ASSUME NEW N \in Nat, N > 0, NEW x \in Int, -N <= x, x < N
  PROVE  x % N = IF x >= 0 THEN x ELSE x + N
<1>1. CASE x >= 0
  BY <1>1
<1>2. CASE x < 0
  BY <1>2
<1>. QED BY <1>1, <1>2

\* Data that follows what the ring holds leaves that as it is, and is read
\* after it.
LEMMA RingPlaced ==
  ASSUME NEW size \in Nat, size > 0, NEW mem, NEW rd \in Int, NEW ptr \in Int,
         NEW T, NEW q \in Seq(T), NEW data \in Seq(T), Len(q) + Len(data) <= size,
         Same(size, ptr, rd + Len(q)), Fetched(mem, size, rd, Len(q)) = q
  PROVE  Fetched(Stored(mem, size, ptr, data), size, rd, Len(q) + Len(data)) = q \o data
<1>. DEFINE n == Len(q)
            l == Len(data)
            mem2 == Stored(mem, size, ptr, data)
            Spot(k) == (rd + k - 1) % size
<1>1. n \in Nat /\ l \in Nat /\ n + l <= size
  OBVIOUS
<1>. HIDE DEF n, l
<1>2. ASSUME NEW k \in 1 .. n + l
      PROVE  /\ Spot(k) \in 0 .. size - 1
             /\ (Spot(k) - ptr) % size = IF k > n THEN k - 1 - n ELSE k - 1 - n + size
  <2>. DEFINE spot == Spot(k)
  <2>1. k \in Int /\ rd + k - 1 \in Int
    BY <1>1
  <2>2. spot \in 0 .. size - 1 /\ Same(size, spot, rd + k - 1)
    BY <2>1, SameMod
  <2>. HIDE DEF spot
  <2>3. Same(size, rd + n, ptr)
    BY DEF Same, n
  <2>4. Same(size, spot - ptr, (rd + k - 1) - ptr)
    <3>1. spot \in Int /\ -ptr \in Int
      BY <2>2
    <3>2. Same(size, spot + (-ptr), (rd + k - 1) + (-ptr))
      BY <2>1, <2>2, <3>1, SamePlus
    <3>3. spot + (-ptr) = spot - ptr /\ (rd + k - 1) + (-ptr) = (rd + k - 1) - ptr
      BY <2>1, <3>1
    <3>. QED BY <3>2, <3>3
  <2>5. Same(size, (rd + k - 1) - ptr, k - 1 - n)
    <3>. DEFINE c == (k - 1 - n) - ptr
    <3>1. c \in Int /\ rd + n \in Int
      BY <1>1, <2>1
    <3>. HIDE DEF c
    <3>2. Same(size, (rd + n) + c, ptr + c)
      BY <2>3, <3>1, SamePlus
    <3>3. (rd + n) + c = (rd + k - 1) - ptr /\ ptr + c = k - 1 - n
      BY <1>1, <2>1 DEF c
    <3>. QED BY <3>2, <3>3
  <2>6. (spot - ptr) % size = (k - 1 - n) % size
    BY <2>4, <2>5 DEF Same
  <2>7. (k - 1 - n) % size = IF k > n THEN k - 1 - n ELSE k - 1 - n + size
    <3>. DEFINE d == k - 1 - n
    <3>1. d \in Int /\ -size <= d /\ d < size /\ (d >= 0 <=> k > n)
      BY <1>1
    <3>. HIDE DEF d
    <3>2. d % size = IF d >= 0 THEN d ELSE d + size
      BY <3>1, SmallIsItself
    <3>3. d % size = IF k > n THEN d ELSE d + size
      BY <3>1, <3>2
    <3>. QED BY <3>3 DEF d
  <2>. QED BY <2>2, <2>6, <2>7 DEF spot
<1>3. ASSUME NEW k \in 1 .. n + l
      PROVE  mem2[Spot(k)] = IF k > n THEN data[k - n] ELSE mem[Spot(k)]
  <2>. DEFINE spot == Spot(k)
              j == (spot - ptr) % size
  <2>1. spot \in 0 .. size - 1 /\ j = IF k > n THEN k - 1 - n ELSE k - 1 - n + size
    BY <1>2
  <2>2. mem2[spot] = IF j < Len(data) THEN data[j + 1] ELSE mem[spot]
    <3>1. spot \in 0 .. size - 1
      BY <2>1
    <3>. HIDE DEF spot
    <3>. QED BY <3>1 DEF Stored
  <2>. HIDE DEF spot, j, mem2
  <2>3. CASE k > n
    <3>1. j < Len(data) /\ j + 1 = k - n
      BY <1>1, <2>1, <2>3 DEF l
    <3>. QED BY <2>2, <2>3, <3>1 DEF spot
  <2>4. CASE ~(k > n)
    <3>1. ~(j < Len(data))
      BY <1>1, <2>1, <2>4 DEF l
    <3>. QED BY <2>2, <2>4, <3>1 DEF spot
  <2>. QED BY <2>3, <2>4
<1>. HIDE DEF mem2
<1>4. \A k \in 1 .. n : mem[Spot(k)] = q[k]
  <2>1. Fetched(mem, size, rd, n) = q
    BY DEF n
  <2>. QED BY <2>1 DEF Fetched
<1>5. Fetched(mem2, size, rd, n + l) = [k \in 1 .. n + l |-> mem2[Spot(k)]]
  BY DEF Fetched
<1>6. q \o data = [k \in 1 .. n + l |-> IF k > n THEN data[k - n] ELSE q[k]]
  <2>1. q \o data = [k \in 1 .. n + l |-> IF k <= n THEN q[k] ELSE data[k - n]]
    <3>1. /\ q \o data \in Seq(T) /\ Len(q \o data) = n + l
          /\ \A k \in 1 .. n + l : (q \o data)[k] = IF k <= n THEN q[k] ELSE data[k - n]
      BY ConcatProperties DEF n, l
    <3>2. q \o data \in [1 .. n + l -> T]
      BY <3>1, LenProperties
    <3>. QED BY <3>1, <3>2
  <2>2. \A k \in 1 .. n + l : (k > n) <=> ~(k <= n)
    BY <1>1
  <2>. QED BY <2>1, <2>2
<1>7. \A k \in 1 .. n + l : mem2[Spot(k)] = IF k > n THEN data[k - n] ELSE q[k]
  <2>. HIDE DEF Spot
  <2>1. ASSUME NEW k \in 1 .. n + l PROVE mem2[Spot(k)] = IF k > n THEN data[k - n] ELSE q[k]
    <3>1. CASE k > n
      BY <1>3, <3>1
    <3>2. CASE ~(k > n)
      <4>1. k \in 1 .. n
        BY <1>1, <3>2
      <4>. QED BY <1>3, <1>4, <3>2, <4>1
    <3>. QED BY <3>1, <3>2
  <2>. QED BY <2>1
<1>. HIDE DEF Spot
<1>8. Fetched(mem2, size, rd, n + l) = q \o data
  BY <1>5, <1>6, <1>7
<1>. QED BY <1>8 DEF mem2, n, l

\* What is left of a sequence without its first num elements.
LEMMA RestIs ==
  ASSUME NEW T, NEW q \in Seq(T), NEW num \in 0 .. Len(q)
  PROVE  /\ SubSeq(q, num + 1, Len(q)) \in Seq(T)
         /\ Len(SubSeq(q, num + 1, Len(q))) = Len(q) - num
         /\ \A i \in 1 .. Len(q) - num : SubSeq(q, num + 1, Len(q))[i] = q[num + i]
<1>1. Len(q) \in Nat /\ num \in Nat /\ num <= Len(q)
  OBVIOUS
<1>. QED BY <1>1, SMTT(30)

\* What is taken from the front leaves the rest as it is.
LEMMA RingTaken ==
  ASSUME NEW size \in Nat, size > 0, NEW mem, NEW rd \in Int, NEW rd2 \in Int,
         NEW T, NEW q \in Seq(T), NEW num \in 0 .. Len(q), Same(size, rd2, rd + num),
         Fetched(mem, size, rd, Len(q)) = q
  PROVE  /\ SubSeq(q, num + 1, Len(q)) \in Seq(T)
         /\ Len(SubSeq(q, num + 1, Len(q))) = Len(q) - num
         /\ Fetched(mem, size, rd2, Len(q) - num) = SubSeq(q, num + 1, Len(q))
<1>. DEFINE n == Len(q)
            rest == SubSeq(q, num + 1, n)
<1>1. n \in Nat /\ num \in Nat /\ num <= n
  OBVIOUS
<1>2. rest \in Seq(T) /\ Len(rest) = n - num /\ rest = [k \in 1 .. n - num |-> q[num + k]]
  <2>1. rest \in Seq(T) /\ Len(rest) = n - num
    BY RestIs
  <2>2. \A k \in 1 .. n - num : rest[k] = q[num + k]
    BY RestIs
  <2>3. rest \in [1 .. n - num -> T]
    BY <2>1, LenProperties
  <2>. HIDE DEF rest
  <2>. QED BY <2>1, <2>2, <2>3
<1>3. \A k \in 1 .. n - num : (rd2 + k - 1) % size = (rd + (num + k) - 1) % size
  <2>1. SUFFICES ASSUME NEW k \in 1 .. n - num
                 PROVE  (rd2 + k - 1) % size = (rd + (num + k) - 1) % size
    OBVIOUS
  <2>2. k - 1 \in Int /\ rd + num \in Int
    BY <1>1
  <2>3. Same(size, rd2 + (k - 1), (rd + num) + (k - 1))
    BY <2>2, SamePlus
  <2>4. rd2 + (k - 1) = rd2 + k - 1 /\ (rd + num) + (k - 1) = rd + (num + k) - 1
    BY <1>1
  <2>. QED BY <2>3, <2>4 DEF Same
<1>4. \A k \in 1 .. n : mem[(rd + k - 1) % size] = q[k]
  BY DEF Fetched
<1>. HIDE DEF n, rest
<1>5. \A k \in 1 .. n - num : mem[(rd2 + k - 1) % size] = q[num + k]
  <2>1. \A k \in 1 .. n - num : num + k \in 1 .. n
    BY <1>1
  <2>2. ASSUME NEW k \in 1 .. n - num PROVE mem[(rd2 + k - 1) % size] = q[num + k]
    <3>. DEFINE j == num + k
    <3>1. j \in 1 .. n /\ (rd2 + k - 1) % size = (rd + j - 1) % size
      BY <1>3, <2>1
    <3>. HIDE DEF j
    <3>2. mem[(rd2 + k - 1) % size] = q[j]
      BY <1>4, <3>1
    <3>. QED BY <3>2 DEF j
  <2>. QED BY <2>2
<1>6. Fetched(mem, size, rd2, n - num) = [k \in 1 .. n - num |-> q[num + k]]
  <2>1. Fetched(mem, size, rd2, n - num) = [k \in 1 .. n - num |-> mem[(rd2 + k - 1) % size]]
    BY DEF Fetched
  <2>. QED BY <1>5, <2>1
<1>. QED BY <1>2, <1>6 DEF n, rest

\* The transmit ring.  Of a datagram, offset bytes are behind TX_WR; nothing is
\* on its way while one is built, and the chip reports one end of it.
TxInv ==
  /\ txQ \in Seq(Payload) /\ Len(txQ) <= MaxDatagram /\ offset \in 0 .. Len(txQ)
  /\ txRd \in Int /\ txWr \in Int /\ txNew \in Int
  /\ Same(PtrMod, txWr, txRd + (Len(txQ) - offset))
  /\ Same(PtrMod, txNew, txRd + Len(txQ))
  /\ Len(txQ) <= SSize => Fetched(txMem, SSize, txRd, Len(txQ)) = txQ

\* Only a datagram can grow longer than the ring.
UdpInv ==
  /\ proto \in { "TCP", "UDP" } /\ sendOk \in BOOLEAN /\ noAnswer \in BOOLEAN
  /\ proto = "TCP" => offset = 0 /\ Len(txQ) <= SSize
  /\ proto = "UDP" /\ sockPc = "sending" => offset = 0
  /\ proto = "UDP" /\ sockPc # "sending" => offset = Len(txQ) /\ ~sendOk /\ ~noAnswer
  /\ proto = "UDP" /\ (sendOk \/ noAnswer) => offset = Len(txQ) /\ ~(sendOk /\ noAnswer)

\* The receive ring.
Firsts(q) == [i \in 1 .. Len(q) |-> q[i][1]]
RxInv ==
  /\ rxQ \in Seq(Nat \X Nat) /\ Len(rxQ) <= RSize
  /\ rxRd \in Int /\ rxWr \in Int /\ rxFree = rxRd
  /\ Same(PtrMod, rxWr, rxRd + Len(rxQ))
  /\ Fetched(rxMem, RSize, rxRd, Len(rxQ)) = Firsts(rxQ)

\* A byte is followed by the rest of its datagram, and that by a header.
Framed(q, n) ==
  /\ \A i \in 1 .. n : \A j \in 0 .. q[i][2] : i + j <= n /\ q[i + j][2] = q[i][2] - j
  /\ \A i \in 1 .. n - 1 : q[i][2] = 0 => q[i + 1][1] = q[i + 1][2]
Stands(q, n, more) ==
  IF more > 0 THEN n > 0 /\ q[1][2] = more - 1 ELSE n > 0 => q[1][1] = q[1][2]
FrameInv ==
  remaining \in Nat /\ (proto = "UDP" => Framed(rxQ, Len(rxQ)) /\ Stands(rxQ, Len(rxQ), remaining))

\* The size that a call has read so far was there, as it only grows meanwhile.
Reading == sockPc \in { "high1", "low1", "high2", "low2", "sized" }
CallInv ==
  /\ hi \in Nat /\ val1 \in Nat /\ val \in Nat
  /\ Reading => hi * Base <= Sized /\ val1 <= Sized /\ val <= Sized
  /\ Reading => \/ op.name = "send" /\ op.data \in Writes /\ proto = "TCP"
                \/ /\ op.name = "buffer" /\ op.data \in Writes /\ proto = "UDP"
                   /\ offset + Len(op.data) <= MaxDatagram
                \/ op.name = "recv" /\ op.len \in Reads
                \/ op.name = "parse" /\ proto = "UDP"

RingsInv == TxInv /\ UdpInv /\ RxInv /\ FrameInv /\ CallInv

LEMMA SizesAre ==
  /\ SSize \in Nat /\ SSize > 0 /\ RSize \in Nat /\ RSize > 0 /\ Base \in Nat /\ Base > 0
  /\ PtrMod \in Nat /\ PtrMod > SSize /\ PtrMod > RSize /\ PtrMod > 0
  /\ MaxDatagram \in Nat /\ SSize <= MaxDatagram /\ MaxDatagram < PtrMod
<1>1. /\ SSize \in Nat \ { 0 } /\ RSize \in Nat \ { 0 } /\ Base \in Nat \ { 0 }
      /\ PtrMod \in Nat /\ PtrMod > SSize /\ PtrMod > RSize /\ MaxDatagram \in SSize .. PtrMod - 1
  BY W5100Assumption
<1>2. SSize > 0 /\ RSize > 0 /\ Base > 0 /\ PtrMod > 0
  <2>1. /\ SSize \in Nat \ { 0 } /\ RSize \in Nat \ { 0 } /\ Base \in Nat \ { 0 }
        /\ PtrMod \in Nat /\ PtrMod > SSize
    BY <1>1
  <2>. QED BY <2>1
<1>3. MaxDatagram \in Nat /\ SSize <= MaxDatagram /\ MaxDatagram < PtrMod
  <2>1. SSize \in Nat /\ PtrMod \in Nat /\ MaxDatagram \in SSize .. PtrMod - 1
    BY <1>1
  <2>. QED BY <2>1
<1>. QED BY <1>1, <1>2, <1>3

LEMMA SizesDivide == PtrMod % SSize = 0 /\ PtrMod % RSize = 0 /\ Payload \subseteq Nat
BY W5100Assumption

LEMMA PointersAgree ==
  ASSUME NEW x \in Int, NEW y \in Int, Same(PtrMod, x, y)
  PROVE  Same(SSize, x, y) /\ Same(RSize, x, y)
<1>1. Same(SSize, x, y)
  BY SizesAre, SizesDivide, SameFiner
<1>2. Same(RSize, x, y)
  BY SizesAre, SizesDivide, SameFiner
<1>. QED BY <1>1, <1>2

\* What the two registers say.
LEMMA FreeIs ==
  ASSUME TxInv
  PROVE  /\ Len(txQ) \in Nat /\ Len(txQ) - offset \in Nat /\ offset \in Nat
         /\ Pending = Len(txQ) - offset /\ FSR = SSize - (Len(txQ) - offset)
<1>1. Len(txQ) \in Nat /\ offset \in Nat /\ offset <= Len(txQ) /\ Len(txQ) <= MaxDatagram
  BY DEF TxInv
<1>. DEFINE d == Len(txQ) - offset
<1>2. d \in 0 .. PtrMod - 1 /\ d \in Nat
  BY <1>1, SizesAre
<1>3. txWr \in Int /\ txRd \in Int /\ Same(PtrMod, txWr, txRd + d)
  BY DEF TxInv
<1>. HIDE DEF d
<1>4. (txWr - txRd) % PtrMod = d
  BY <1>2, <1>3, SizesAre, SameApart
<1>. QED BY <1>1, <1>2, <1>4 DEF Pending, FSR, Dist, d

LEMMA FilledIs ==
  ASSUME RxInv
  PROVE  Len(rxQ) \in Nat /\ RSR = Len(rxQ) /\ Dist(rxWr, rxRd) = Len(rxQ)
<1>. DEFINE d == Len(rxQ)
<1>1. d \in 0 .. PtrMod - 1 /\ d \in Nat
  BY SizesAre DEF RxInv
<1>2. rxWr \in Int /\ rxRd \in Int /\ Same(PtrMod, rxWr, rxRd + d) /\ rxFree = rxRd
  BY DEF RxInv
<1>. HIDE DEF d
<1>3. (rxWr - rxRd) % PtrMod = d
  BY <1>1, <1>2, SizesAre, SameApart
<1>. QED BY <1>1, <1>2, <1>3 DEF RSR, Dist, d

\* While a size is read nothing longer than the ring is on its way.
LEMMA SizedIs ==
  ASSUME TxInv, UdpInv, RxInv, sockPc # "sending"
  PROVE  Sized \in Nat /\ FSR \in Nat /\ RSR \in Nat
<1>1. FSR \in Nat
  <2>1. FSR = SSize - (Len(txQ) - offset) /\ Len(txQ) - offset \in Nat /\ Len(txQ) \in Nat
        /\ offset \in Nat
    BY FreeIs
  <2>2. Len(txQ) <= SSize \/ offset = Len(txQ)
    BY DEF UdpInv
  <2>. QED BY <2>1, <2>2, SizesAre
<1>. QED BY <1>1, FilledIs DEF Sized

\* A pointer that moves on stays the same place.
LEMMA Moved ==
  ASSUME NEW ptr \in Int, NEW spot \in Int, NEW num \in Int, Same(PtrMod, ptr, spot)
  PROVE  (ptr + num) % PtrMod \in Int /\ Same(PtrMod, (ptr + num) % PtrMod, spot + num)
<1>. DEFINE x == ptr + num
            y == spot + num
<1>0. Same(PtrMod, ptr + num, spot + num)
  BY SizesAre, SamePlus, Zenon
<1>1. x \in Int /\ y \in Int /\ Same(PtrMod, x, y)
  BY <1>0
<1>. HIDE DEF x, y
<1>2. (x % PtrMod) \in 0 .. PtrMod - 1 /\ Same(PtrMod, x % PtrMod, x)
  BY <1>1, SizesAre, SameMod
<1>3. (x % PtrMod) \in Int /\ Same(PtrMod, x % PtrMod, y)
  BY <1>1, <1>2 DEF Same
<1>. QED BY <1>3 DEF x, y

\* A call puts num bytes behind what the ring holds.
LEMMA TxPlaced ==
  ASSUME TxInv, NEW data \in Seq(Payload), NEW num \in 0 .. Len(data),
         Place(data, num, offset), txRd' = txRd
  PROVE  /\ txQ' \in Seq(Payload) /\ Len(txQ') = Len(txQ) + num
         /\ txNew' \in Int /\ Same(PtrMod, txNew', txRd + Len(txQ'))
         /\ Len(txQ') <= SSize => Fetched(txMem', SSize, txRd, Len(txQ')) = txQ'
<1>1. /\ txRd \in Int /\ txWr \in Int /\ txQ \in Seq(Payload) /\ Len(txQ) \in Nat /\ offset \in Nat
      /\ Len(txQ) - offset \in Nat
      /\ Same(PtrMod, txWr, txRd + (Len(txQ) - offset))
      /\ Len(txQ) <= SSize => Fetched(txMem, SSize, txRd, Len(txQ)) = txQ
  BY FreeIs DEF TxInv
<1>. DEFINE bytes == SubSeq(data, 1, num)
            n == Len(txQ)
            ptr == txWr + offset
<1>2. bytes \in Seq(Payload) /\ Len(bytes) = num /\ num \in Nat
  OBVIOUS
<1>3. /\ txMem' = Stored(txMem, SSize, ptr, bytes)
      /\ txNew' = (txWr + offset + num) % PtrMod
      /\ txQ' = txQ \o bytes
  BY DEF Place
<1>. HIDE DEF bytes
<1>4. txQ' \in Seq(Payload) /\ Len(txQ') = n + num
  BY <1>1, <1>2, <1>3, ConcatProperties
<1>5. ptr \in Int /\ Same(PtrMod, ptr, txRd + n)
  <2>. DEFINE y == txRd + (n - offset)
  <2>1. y \in Int /\ y + offset = txRd + n /\ n \in Int /\ offset \in Int
    BY <1>1
  <2>2. Same(PtrMod, txWr, y)
    BY <1>1
  <2>. HIDE DEF y, n
  <2>3. Same(PtrMod, txWr + offset, y + offset)
    BY <1>1, <2>1, <2>2, SizesAre, SamePlus, Zenon
  <2>. QED BY <1>1, <2>1, <2>3
<1>6. Same(SSize, ptr, txRd + n)
  <2>1. txRd + n \in Int
    BY <1>1
  <2>. HIDE DEF ptr, n
  <2>. QED BY <1>5, <2>1, PointersAgree
<1>7. ASSUME n + num <= SSize PROVE Fetched(txMem', SSize, txRd, n + num) = txQ'
  <2>. HIDE DEF ptr
  <2>1. Fetched(Stored(txMem, SSize, ptr, bytes), SSize, txRd, Len(txQ) + Len(bytes)) = txQ \o bytes
    <3>1. /\ Len(txQ) + Len(bytes) <= SSize /\ Same(SSize, ptr, txRd + Len(txQ)) /\ ptr \in Int
          /\ txRd \in Int /\ txQ \in Seq(Payload) /\ bytes \in Seq(Payload)
          /\ Fetched(txMem, SSize, txRd, Len(txQ)) = txQ
      BY <1>1, <1>2, <1>5, <1>6, <1>7, SizesAre
    <3>2. SSize \in Nat /\ SSize > 0
      BY SizesAre
    <3>. QED BY <3>1, <3>2, RingPlaced, SMTT(30)
  <2>. QED BY <1>2, <1>3, <2>1
<1>8. txNew' \in Int /\ Same(PtrMod, txNew', txRd + (n + num))
  <2>1. txRd + n \in Int /\ num \in Int
    BY <1>1, <1>2
  <2>. HIDE DEF n
  <2>2. (ptr + num) % PtrMod \in Int /\ Same(PtrMod, (ptr + num) % PtrMod, (txRd + n) + num)
    <3>. HIDE DEF ptr
    <3>. QED BY <1>5, <2>1, Moved
  <2>3. (txRd + n) + num = txRd + (n + num)
    BY <1>1, <1>2 DEF n
  <2>. QED BY <1>3, <2>2, <2>3
<1>. QED BY <1>4, <1>7, <1>8

\* The chip sends num bytes from the front.
LEMMA TxTaken ==
  ASSUME TxInv, NEW num \in 0 .. Len(txQ) - offset, Len(txQ) <= SSize \/ num = Len(txQ),
         txRd' = (txRd + num) % PtrMod,
         txQ' = SubSeq(txQ, num + 1, Len(txQ)), UNCHANGED << txMem, txWr, txNew, offset >>
  PROVE  TxInv' /\ Len(txQ') = Len(txQ) - num
<1>1. /\ txRd \in Int /\ txWr \in Int /\ txNew \in Int /\ txQ \in Seq(Payload)
      /\ Len(txQ) \in Nat /\ offset \in Nat /\ Len(txQ) <= MaxDatagram
      /\ Len(txQ) - offset \in Nat
      /\ Same(PtrMod, txWr, txRd + (Len(txQ) - offset)) /\ Same(PtrMod, txNew, txRd + Len(txQ))
      /\ Len(txQ) <= SSize => Fetched(txMem, SSize, txRd, Len(txQ)) = txQ
  BY FreeIs DEF TxInv
<1>2. num \in Nat /\ num \in 0 .. Len(txQ) /\ num <= Len(txQ) - offset
  BY <1>1
<1>3. txRd' \in Int /\ Same(PtrMod, txRd', txRd + num) /\ txRd + num \in Int
  BY <1>1, <1>2, Moved DEF Same
<1>4. Same(SSize, txRd', txRd + num)
  BY <1>3, PointersAgree
<1>5. /\ txQ' \in Seq(Payload) /\ Len(txQ') = Len(txQ) - num
      /\ Len(txQ') <= SSize => Fetched(txMem, SSize, txRd', Len(txQ) - num) = txQ'
  <2>1. CASE Len(txQ) <= SSize
    <3>1. SSize \in Nat /\ SSize > 0
      BY SizesAre
    <3>2. /\ SubSeq(txQ, num + 1, Len(txQ)) \in Seq(Payload)
          /\ Len(SubSeq(txQ, num + 1, Len(txQ))) = Len(txQ) - num
          /\ Fetched(txMem, SSize, txRd', Len(txQ) - num) = SubSeq(txQ, num + 1, Len(txQ))
      <4>. DEFINE place == txRd'
      <4>1. place \in Int /\ Same(SSize, place, txRd + num)
        BY <1>3, <1>4
      <4>. HIDE DEF place
      <4>2. /\ SubSeq(txQ, num + 1, Len(txQ)) \in Seq(Payload)
            /\ Len(SubSeq(txQ, num + 1, Len(txQ))) = Len(txQ) - num
            /\ Fetched(txMem, SSize, place, Len(txQ) - num) = SubSeq(txQ, num + 1, Len(txQ))
        <5>1. /\ txRd \in Int /\ txQ \in Seq(Payload) /\ num \in 0 .. Len(txQ)
              /\ Fetched(txMem, SSize, txRd, Len(txQ)) = txQ
          BY <1>1, <1>2, <2>1
        <5>. QED BY <3>1, <4>1, <5>1, RingTaken, SMTT(30)
      <4>. QED BY <4>2 DEF place
    <3>. QED BY <3>2
  <2>2. CASE num = Len(txQ)
    <3>1. txQ' = << >> /\ txQ' \in Seq(Payload) /\ Len(txQ') = 0 /\ Len(txQ) - num = 0
      BY <1>1, <2>2
    <3>2. Fetched(txMem, SSize, txRd', 0) = << >>
      BY DEF Fetched
    <3>. QED BY <3>1, <3>2
  <2>. QED BY <2>1, <2>2
<1>6. ASSUME NEW d \in Int PROVE Same(PtrMod, txRd' + (d - num), txRd + d)
  <2>. DEFINE c == d - num
  <2>1. c \in Int /\ (txRd + num) + c = txRd + d
    BY <1>1, <1>2
  <2>. HIDE DEF c
  <2>2. Same(PtrMod, txRd' + c, (txRd + num) + c)
    BY <1>3, <2>1, SizesAre, SamePlus
  <2>. QED BY <2>1, <2>2 DEF c
<1>7. Same(PtrMod, txWr, txRd' + (Len(txQ') - offset))
  <2>1. Same(PtrMod, txRd' + ((Len(txQ) - offset) - num), txRd + (Len(txQ) - offset))
    <3>1. Len(txQ) - offset \in Int
      BY <1>1
    <3>. QED BY <1>6, <3>1, Zenon
  <2>2. (Len(txQ) - offset) - num = Len(txQ') - offset
    BY <1>1, <1>2, <1>5
  <2>. QED BY <1>1, <2>1, <2>2 DEF Same
<1>8. Same(PtrMod, txNew, txRd' + Len(txQ'))
  <2>1. Same(PtrMod, txRd' + (Len(txQ) - num), txRd + Len(txQ))
    <3>1. Len(txQ) \in Int
      BY <1>1
    <3>. QED BY <1>6, <3>1, Zenon
  <2>. QED BY <1>1, <1>5, <2>1 DEF Same
<1>9. Len(txQ') <= MaxDatagram /\ offset' \in 0 .. Len(txQ')
  <2>1. Len(txQ') = Len(txQ) - num
    BY <1>5
  <2>. QED BY <1>1, <1>2, <2>1, SizesAre
<1>. QED BY <1>1, <1>3, <1>5, <1>7, <1>8, <1>9 DEF TxInv

\* What is on its way is given up.
LEMMA TxDropped ==
  ASSUME TxInv, offset = 0, txRd' = txWr, txQ' = << >>, UNCHANGED << txMem, txWr, txNew, offset >>
  PROVE  TxInv' /\ Len(txQ') = 0
<1>1. /\ txRd \in Int /\ txWr \in Int /\ txNew \in Int /\ Len(txQ) \in Nat
      /\ Same(PtrMod, txWr, txRd + (Len(txQ) - offset)) /\ Same(PtrMod, txNew, txRd + Len(txQ))
  BY FreeIs DEF TxInv
<1>2. Same(PtrMod, txNew, txWr)
  <2>1. Len(txQ) - offset = Len(txQ)
    BY <1>1
  <2>. QED BY <1>1, <2>1 DEF Same
<1>3. txQ' \in Seq(Payload) /\ Len(txQ') = 0 /\ 0 \in Nat
  OBVIOUS
<1>4. Fetched(txMem', SSize, txRd', Len(txQ')) = txQ'
  BY <1>3 DEF Fetched
<1>5. txRd' + (Len(txQ') - offset') = txWr /\ txRd' + Len(txQ') = txWr
  BY <1>1, <1>3
<1>6. Same(PtrMod, txWr, txWr)
  BY DEF Same
<1>7. Same(PtrMod, txWr', txRd' + (Len(txQ') - offset')) /\ Same(PtrMod, txNew', txRd' + Len(txQ'))
  BY <1>2, <1>5, <1>6
<1>. QED BY <1>1, <1>3, <1>4, <1>7, SizesAre DEF TxInv

LEMMA FirstsAre ==
  ASSUME NEW q \in Seq(Nat \X Nat)
  PROVE  /\ Firsts(q) \in Seq(Nat) /\ Len(Firsts(q)) = Len(q)
         /\ \A i \in 1 .. Len(q) : Firsts(q)[i] = q[i][1]
<1>1. Len(q) \in Nat /\ \A i \in 1 .. Len(q) : q[i] \in Nat \X Nat
  BY ElementOfSeq
<1>2. \A i \in 1 .. Len(q) : q[i][1] \in Nat
  BY <1>1
<1>3. Firsts(q) \in Seq(Nat)
  BY <1>1, <1>2 DEF Firsts
<1>. QED BY <1>1, <1>3 DEF Firsts

\* recv_data_processing takes num bytes from the front.
LEMMA RxTaken ==
  ASSUME RxInv, NEW num \in 0 .. Len(rxQ), TakeBytes(num)
  PROVE  /\ RxInv' /\ Len(rxQ') = Len(rxQ) - num
         /\ \A i \in 1 .. Len(rxQ') : rxQ'[i] = rxQ[num + i]
<1>1. /\ rxRd \in Int /\ rxWr \in Int /\ rxQ \in Seq(Nat \X Nat) /\ Len(rxQ) \in Nat
      /\ Len(rxQ) <= RSize
      /\ Same(PtrMod, rxWr, rxRd + Len(rxQ))
      /\ Fetched(rxMem, RSize, rxRd, Len(rxQ)) = Firsts(rxQ)
  BY FilledIs DEF RxInv
<1>2. num \in Nat /\ num <= Len(rxQ)
  BY <1>1
<1>3. /\ rxRd' = (rxRd + num) % PtrMod /\ rxFree' = rxRd'
      /\ rxQ' = SubSeq(rxQ, num + 1, Len(rxQ))
      /\ rxMem' = rxMem /\ rxWr' = rxWr
  BY DEF TakeBytes
<1>4. rxRd' \in Int /\ Same(PtrMod, rxRd', rxRd + num) /\ rxRd + num \in Int
  BY <1>1, <1>2, <1>3, Moved DEF Same
<1>5. Same(RSize, rxRd', rxRd + num)
  BY <1>4, PointersAgree
<1>. DEFINE f == Firsts(rxQ)
            rest == SubSeq(rxQ, num + 1, Len(rxQ))
<1>6. f \in Seq(Nat) /\ Len(f) = Len(rxQ) /\ \A i \in 1 .. Len(rxQ) : f[i] = rxQ[i][1]
  BY <1>1, FirstsAre
<1>7. /\ rest \in Seq(Nat \X Nat) /\ Len(rest) = Len(rxQ) - num
      /\ \A i \in 1 .. Len(rxQ) - num : rest[i] = rxQ[num + i]
  BY <1>1, RestIs
<1>8. Fetched(rxMem, RSize, rxRd', Len(f) - num) = SubSeq(f, num + 1, Len(f))
  <2>1. RSize \in Nat /\ RSize > 0
    BY SizesAre
  <2>. DEFINE place == rxRd'
  <2>2. place \in Int /\ Same(RSize, place, rxRd + num)
    BY <1>4, <1>5
  <2>3. rxRd \in Int /\ f \in Seq(Nat) /\ num \in 0 .. Len(f) /\ Fetched(rxMem, RSize, rxRd, Len(f)) = f
    BY <1>1, <1>6
  <2>. HIDE DEF place, f
  <2>4. Fetched(rxMem, RSize, place, Len(f) - num) = SubSeq(f, num + 1, Len(f))
    BY <2>1, <2>2, <2>3, RingTaken, SMTT(30)
  <2>. QED BY <2>4 DEF place
<1>9. SubSeq(f, num + 1, Len(f)) = Firsts(rest)
  <2>1. /\ Firsts(rest) \in Seq(Nat) /\ Len(Firsts(rest)) = Len(rest)
        /\ \A i \in 1 .. Len(rest) : Firsts(rest)[i] = rest[i][1]
    BY <1>7, FirstsAre
  <2>. HIDE DEF f, rest
  <2>2. /\ SubSeq(f, num + 1, Len(f)) \in Seq(Nat) /\ Len(SubSeq(f, num + 1, Len(f))) = Len(f) - num
        /\ \A i \in 1 .. Len(f) - num : SubSeq(f, num + 1, Len(f))[i] = f[num + i]
    <3>1. f \in Seq(Nat) /\ num \in 0 .. Len(f)
      BY <1>1, <1>2, <1>6
    <3>. QED BY <3>1, RestIs
  <2>3. \A i \in 1 .. Len(f) - num : SubSeq(f, num + 1, Len(f))[i] = Firsts(rest)[i]
    <3>1. SUFFICES ASSUME NEW i \in 1 .. Len(rxQ) - num
                   PROVE  SubSeq(f, num + 1, Len(f))[i] = Firsts(rest)[i]
      BY <1>6
    <3>2. num + i \in 1 .. Len(rxQ)
      BY <1>1, <1>2
    <3>3. SubSeq(f, num + 1, Len(f))[i] = f[num + i]
      BY <1>6, <2>2
    <3>4. f[num + i] = rxQ[num + i][1]
      BY <1>6, <3>2
    <3>5. Firsts(rest)[i] = rest[i][1] /\ rest[i] = rxQ[num + i]
      BY <1>7, <2>1
    <3>. QED BY <3>3, <3>4, <3>5
  <2>. DEFINE sub == SubSeq(f, num + 1, Len(f))
              fr == Firsts(rest)
  <2>4. /\ sub \in Seq(Nat) /\ fr \in Seq(Nat) /\ Len(sub) = Len(fr)
        /\ \A i \in 1 .. Len(sub) : sub[i] = fr[i]
    BY <1>6, <1>7, <2>1, <2>2, <2>3
  <2>. HIDE DEF sub, fr
  <2>5. sub = fr
    BY <2>4, SeqEqual
  <2>. QED BY <2>5 DEF sub, fr
<1>. HIDE DEF f, rest
<1>10. rxQ' = rest
  BY <1>3 DEF rest
<1>11. Same(PtrMod, rxWr', rxRd' + Len(rxQ'))
  <2>. DEFINE c == Len(rxQ) - num
              place == rxRd'
  <2>1. c \in Int /\ (rxRd + num) + c = rxRd + Len(rxQ) /\ place \in Int /\ rxRd + num \in Int
        /\ Same(PtrMod, place, rxRd + num) /\ Len(rxQ') = c
    BY <1>1, <1>2, <1>4, <1>7, <1>10
  <2>. HIDE DEF c, place
  <2>2. Same(PtrMod, place + c, (rxRd + num) + c)
    BY <2>1, SizesAre, SamePlus, Zenon
  <2>3. place + Len(rxQ') = place + c
    BY <2>1
  <2>. QED BY <1>1, <1>3, <2>1, <2>2, <2>3 DEF Same, place
<1>12. Fetched(rxMem', RSize, rxRd', Len(rxQ')) = Firsts(rxQ')
  BY <1>3, <1>6, <1>7, <1>8, <1>9, <1>10
<1>13. Len(rxQ') = Len(rxQ) - num /\ Len(rxQ') <= RSize
  BY <1>1, <1>2, <1>7, <1>10, SizesAre
<1>. QED BY <1>1, <1>3, <1>4, <1>7, <1>10, <1>11, <1>12, <1>13 DEF RxInv

\* What arrives goes behind what is unread.
LEMMA RxArrived ==
  ASSUME RxInv, NEW data \in Seq(Nat), NEW tagged \in Seq(Nat \X Nat), Firsts(tagged) = data,
         Arrive(data), rxQ' = rxQ \o tagged
  PROVE  RxInv'
<1>1. /\ rxRd \in Int /\ rxWr \in Int /\ rxQ \in Seq(Nat \X Nat) /\ Len(rxQ) \in Nat
      /\ Same(PtrMod, rxWr, rxRd + Len(rxQ))
      /\ Fetched(rxMem, RSize, rxRd, Len(rxQ)) = Firsts(rxQ)
      /\ rxFree = rxRd /\ RSR = Len(rxQ)
  BY FilledIs DEF RxInv
<1>2. /\ Len(rxQ) + Len(data) <= RSize
      /\ rxMem' = Stored(rxMem, RSize, rxWr, data)
      /\ rxWr' = (rxWr + Len(data)) % PtrMod
      /\ rxRd' = rxRd /\ rxFree' = rxFree
  BY <1>1 DEF Arrive
<1>3. Len(data) \in Nat /\ Len(tagged) = Len(data)
  BY FirstsAre
<1>4. rxQ' \in Seq(Nat \X Nat) /\ Len(rxQ') = Len(rxQ) + Len(data)
      /\ \A i \in 1 .. Len(rxQ) + Len(data) :
           rxQ'[i] = IF i <= Len(rxQ) THEN rxQ[i] ELSE tagged[i - Len(rxQ)]
  <2>1. /\ rxQ \o tagged \in Seq(Nat \X Nat) /\ Len(rxQ \o tagged) = Len(rxQ) + Len(tagged)
        /\ \A i \in 1 .. Len(rxQ) + Len(tagged) :
             (rxQ \o tagged)[i] = IF i <= Len(rxQ) THEN rxQ[i] ELSE tagged[i - Len(rxQ)]
    BY <1>1, ConcatProperties, ZenonT(30)
  <2>. QED BY <1>3, <2>1
<1>5. rxWr' \in Int /\ Same(PtrMod, rxWr', rxRd' + Len(rxQ'))
  <2>. DEFINE spot == rxRd + Len(rxQ)
              num == Len(data)
  <2>1. spot \in Int /\ num \in Int /\ Same(PtrMod, rxWr, spot)
    BY <1>1, <1>3
  <2>2. spot + num = rxRd + Len(rxQ')
    BY <1>1, <1>3, <1>4
  <2>. HIDE DEF spot, num
  <2>3. (rxWr + num) % PtrMod \in Int /\ Same(PtrMod, (rxWr + num) % PtrMod, spot + num)
    BY <1>1, <2>1, Moved
  <2>. QED BY <1>2, <2>2, <2>3 DEF num
<1>. DEFINE f == Firsts(rxQ)
<1>6. f \in Seq(Nat) /\ Len(f) = Len(rxQ) /\ \A i \in 1 .. Len(rxQ) : f[i] = rxQ[i][1]
  BY <1>1, FirstsAre
<1>7. Fetched(rxMem', RSize, rxRd, Len(f) + Len(data)) = f \o data
  <2>1. RSize \in Nat /\ RSize > 0
    BY SizesAre
  <2>2. /\ Len(f) + Len(data) <= RSize /\ Same(RSize, rxWr, rxRd + Len(f)) /\ rxWr \in Int
        /\ rxRd \in Int /\ f \in Seq(Nat) /\ data \in Seq(Nat)
        /\ Fetched(rxMem, RSize, rxRd, Len(f)) = f
    <3>1. rxRd + Len(rxQ) \in Int
      BY <1>1
    <3>2. Same(RSize, rxWr, rxRd + Len(rxQ))
      BY <1>1, <3>1, PointersAgree
    <3>. QED BY <1>1, <1>2, <1>6, <3>2
  <2>. HIDE DEF f
  <2>3. Fetched(Stored(rxMem, RSize, rxWr, data), RSize, rxRd, Len(f) + Len(data)) = f \o data
    BY <2>1, <2>2, RingPlaced, SMTT(30)
  <2>. QED BY <1>2, <2>3
<1>8. f \o data = Firsts(rxQ')
  <2>. DEFINE g == f \o data
              h == Firsts(rxQ')
              q == rxQ'
  <2>1. /\ g \in Seq(Nat) /\ Len(g) = Len(f) + Len(data)
        /\ \A i \in 1 .. Len(f) + Len(data) : g[i] = IF i <= Len(f) THEN f[i] ELSE data[i - Len(f)]
    <3>1. f \in Seq(Nat)
      BY <1>6
    <3>. HIDE DEF f
    <3>. QED BY <3>1, ConcatProperties, ZenonT(30)
  <2>2. /\ h \in Seq(Nat) /\ Len(h) = Len(q) /\ \A i \in 1 .. Len(q) : h[i] = q[i][1]
    BY <1>4, FirstsAre
  <2>3. \A i \in 1 .. Len(tagged) : data[i] = tagged[i][1]
    BY FirstsAre
  <2>. HIDE DEF g, h, f
  <2>4. ASSUME NEW i \in 1 .. Len(rxQ) + Len(data) PROVE g[i] = h[i]
    <3>1. h[i] = q[i][1]
      BY <1>4, <2>2
    <3>2. CASE i <= Len(rxQ)
      <4>1. i \in 1 .. Len(rxQ) /\ q[i] = rxQ[i] /\ g[i] = f[i]
        BY <1>1, <1>4, <1>6, <2>1, <3>2
      <4>. QED BY <1>6, <3>1, <4>1
    <3>3. CASE ~(i <= Len(rxQ))
      <4>1. i - Len(rxQ) \in 1 .. Len(tagged)
        BY <1>1, <1>3, <3>3
      <4>2. q[i] = tagged[i - Len(rxQ)] /\ g[i] = data[i - Len(rxQ)]
        BY <1>4, <1>6, <2>1, <3>3
      <4>. QED BY <2>3, <3>1, <4>1, <4>2
    <3>. QED BY <3>2, <3>3
  <2>5. Len(g) = Len(h) /\ \A i \in 1 .. Len(g) : g[i] = h[i]
    BY <1>4, <1>6, <2>1, <2>2, <2>4
  <2>6. g = h
    BY <2>1, <2>2, <2>5, SeqEqual
  <2>. QED BY <2>6 DEF g, h
<1>9. Fetched(rxMem', RSize, rxRd', Len(rxQ')) = Firsts(rxQ')
  BY <1>2, <1>4, <1>6, <1>7, <1>8
<1>10. Len(rxQ') <= RSize
  BY <1>2, <1>4
<1>. QED BY <1>1, <1>2, <1>4, <1>5, <1>9, <1>10 DEF RxInv

\* Datagrams, as bytes are taken and arrive.
LEMMA FramesTaken ==
  ASSUME NEW q, NEW r, NEW n \in Nat, NEW num \in 0 .. n, \A i \in 1 .. n : q[i][2] \in Nat,
         Framed(q, n), \A i \in 1 .. n - num : r[i] = q[num + i]
  PROVE  Framed(r, n - num)
<1>1. n \in Nat /\ n - num \in Nat /\ num \in Nat
  OBVIOUS
<1>2. \A i \in 1 .. n : q[i][2] \in Nat
  OBVIOUS
<1>3. ASSUME NEW i \in 1 .. n - num, NEW j \in 0 .. r[i][2]
      PROVE  i + j <= n - num /\ r[i + j][2] = r[i][2] - j
  <2>. DEFINE k == num + i
  <2>1. k \in 1 .. n /\ r[i] = q[k]
    BY <1>1
  <2>2. j \in 0 .. q[k][2] /\ j \in Nat
    BY <1>2, <2>1
  <2>3. k + j <= n /\ q[k + j][2] = q[k][2] - j
    <3>. HIDE DEF k
    <3>. QED BY <2>1, <2>2 DEF Framed
  <2>4. i + j \in 1 .. n - num /\ num + (i + j) = k + j
    BY <1>1, <2>2, <2>3
  <2>5. r[i + j] = q[k + j]
    <3>. DEFINE m == i + j
    <3>1. m \in 1 .. n - num /\ num + m = k + j
      BY <2>4
    <3>. HIDE DEF m, k
    <3>2. r[m] = q[num + m]
      BY <3>1
    <3>. QED BY <3>1, <3>2 DEF m
  <2>. HIDE DEF k
  <2>. QED BY <2>1, <2>3, <2>4, <2>5
<1>4. ASSUME NEW i \in 1 .. n - num - 1, r[i][2] = 0 PROVE r[i + 1][1] = r[i + 1][2]
  <2>. DEFINE k == num + i
              m == i + 1
  <2>1. k \in 1 .. n - 1 /\ m \in 1 .. n - num /\ i \in 1 .. n - num /\ num + m = k + 1
    BY <1>1
  <2>. HIDE DEF k, m
  <2>2. r[i] = q[k] /\ r[m] = q[k + 1]
    BY <2>1 DEF k
  <2>3. q[k + 1][1] = q[k + 1][2]
    BY <1>4, <2>1, <2>2 DEF Framed
  <2>. QED BY <2>2, <2>3 DEF m
<1>. QED BY <1>3, <1>4 DEF Framed

\* What a call takes is within the datagram that the sketch stands in.
LEMMA StandsTaken ==
  ASSUME NEW q, NEW r, NEW n \in Nat, NEW num \in 0 .. n, \A i \in 1 .. n : q[i][2] \in Nat,
         NEW more \in Nat, num <= more, Framed(q, n), Stands(q, n, more),
         \A i \in 1 .. n - num : r[i] = q[num + i]
  PROVE  Stands(r, n - num, more - num)
<1>1. n \in Nat /\ n - num \in Nat /\ num \in Nat
  OBVIOUS
<1>2. n - num > 0 => r[1] = q[num + 1]
  <2>1. n - num > 0 => 1 \in 1 .. n - num
    BY <1>1
  <2>. QED BY <2>1
<1>3. CASE more = 0
  <2>1. num = 0 /\ more - num = 0 /\ n - num = n
    BY <1>1, <1>3
  <2>2. n - num > 0 => r[1] = q[1]
    BY <1>2, <2>1
  <2>. QED BY <1>3, <2>1, <2>2 DEF Stands
<1>4. CASE more > 0
  <2>1. n > 0 /\ q[1][2] = more - 1
    BY <1>4 DEF Stands
  <2>2. \A j \in 0 .. more - 1 : 1 + j <= n /\ q[1 + j][2] = more - 1 - j
    <3>1. 1 \in 1 .. n
      BY <1>1, <2>1
    <3>. QED BY <2>1, <3>1 DEF Framed
  <2>3. CASE num < more
    <3>1. num \in 0 .. more - 1 /\ more - num > 0
      BY <1>1, <2>3
    <3>2. 1 + num <= n /\ q[1 + num][2] = more - 1 - num
      BY <2>2, <3>1
    <3>3. n - num > 0 /\ num + 1 = 1 + num
      BY <1>1, <3>2
    <3>4. r[1][2] = more - 1 - num /\ more - 1 - num = (more - num) - 1
      BY <1>1, <1>2, <3>2, <3>3
    <3>. QED BY <3>1, <3>3, <3>4 DEF Stands
  <2>4. CASE num = more
    <3>1. more - 1 \in 0 .. more - 1 /\ 1 + (more - 1) = more /\ more - 1 - (more - 1) = 0 /\ more - num = 0
      BY <1>4, <2>4
    <3>2. more <= n /\ q[more][2] = 0
      BY <2>2, <3>1
    <3>3. n - num > 0 => q[more + 1][1] = q[more + 1][2]
      <4>1. SUFFICES ASSUME n - num > 0 PROVE q[more + 1][1] = q[more + 1][2]
        OBVIOUS
      <4>2. more \in 1 .. n - 1
        BY <1>1, <1>4, <2>4, <4>1
      <4>. QED BY <3>2, <4>2 DEF Framed
    <3>. QED BY <1>2, <2>4, <3>1, <3>3 DEF Stands
  <2>. QED BY <1>1, <2>3, <2>4
<1>. QED BY <1>3, <1>4

\* A datagram that arrives begins with a header.
Headed(frame, l) ==
  l > 0 /\ frame[1][1] = frame[1][2] /\ \A i \in 1 .. l : frame[i][2] = l - i
Continues(r, q, n, frame, l) ==
  /\ \A i \in 1 .. n : q[i][2] \in Nat
  /\ \A i \in 1 .. n + l : r[i] = IF i <= n THEN q[i] ELSE frame[i - n]

LEMMA FramesArrived ==
  ASSUME NEW q, NEW n \in Nat, NEW frame, NEW l \in Nat, NEW more \in Nat, NEW r,
         Framed(q, n), Stands(q, n, more), Headed(frame, l), Continues(r, q, n, frame, l)
  PROVE  Framed(r, n + l) /\ Stands(r, n + l, more)
<1>. USE DEF Headed, Continues
<1>1. n \in Nat /\ l \in Nat
  OBVIOUS
<1>2. \A i \in 1 .. n : q[i][2] \in Nat
  OBVIOUS
<1>3. \A i \in 1 .. n : i \in 1 .. n + l /\ r[i] = q[i]
  BY <1>1
<1>4. \A i \in 1 .. n + l : i > n => r[i][2] = (n + l) - i
  <2>1. SUFFICES ASSUME NEW i \in 1 .. n + l, i > n PROVE r[i][2] = (n + l) - i
    OBVIOUS
  <2>. DEFINE k == i - n
  <2>2. k \in 1 .. l /\ l - k = (n + l) - i
    BY <1>1, <2>1
  <2>3. r[i] = frame[k]
    BY <1>1, <2>1
  <2>. HIDE DEF k
  <2>. QED BY <2>2, <2>3
<1>5. ASSUME NEW i \in 1 .. n + l, NEW j \in 0 .. r[i][2]
      PROVE  i + j <= n + l /\ r[i + j][2] = r[i][2] - j
  <2>1. CASE i <= n
    <3>1. i \in 1 .. n /\ r[i] = q[i]
      BY <1>1, <1>3, <2>1
    <3>2. i + j <= n /\ q[i + j][2] = q[i][2] - j
      BY <3>1 DEF Framed
    <3>3. j \in Nat
      BY <1>2, <3>1
    <3>4. i + j \in 1 .. n
      BY <1>1, <3>1, <3>2, <3>3
    <3>5. r[i + j] = q[i + j]
      BY <1>3, <3>4
    <3>. QED BY <1>1, <3>1, <3>2, <3>4, <3>5
  <2>2. CASE ~(i <= n)
    <3>1. i > n /\ i \in Nat
      BY <1>1, <2>2
    <3>2. r[i][2] = (n + l) - i
      BY <1>4, <3>1
    <3>3. j \in Nat /\ i + j \in 1 .. n + l /\ i + j > n
      BY <1>1, <3>1, <3>2
    <3>. DEFINE m == i + j
    <3>4. m \in 1 .. n + l /\ m > n /\ (n + l) - m = ((n + l) - i) - j
      BY <1>1, <3>1, <3>3
    <3>. HIDE DEF m
    <3>5. r[m][2] = (n + l) - m
      BY <1>4, <3>4
    <3>. QED BY <3>2, <3>3, <3>4, <3>5 DEF m
  <2>. QED BY <2>1, <2>2
<1>6. r[n + 1] = frame[1]
  BY <1>1
<1>7. ASSUME NEW i \in 1 .. n + l - 1, r[i][2] = 0 PROVE r[i + 1][1] = r[i + 1][2]
  <2>1. CASE i < n
    <3>1. i \in 1 .. n - 1 /\ i \in 1 .. n
      BY <1>1, <2>1
    <3>. DEFINE m == i + 1
    <3>2. m \in 1 .. n
      BY <1>1, <3>1
    <3>. HIDE DEF m
    <3>3. r[i] = q[i] /\ r[m] = q[m]
      BY <1>3, <3>1, <3>2
    <3>4. q[m][1] = q[m][2]
      BY <1>7, <3>1, <3>3 DEF Framed, m
    <3>. QED BY <3>3, <3>4 DEF m
  <2>2. CASE i = n
    BY <1>6, <2>2
  <2>3. CASE i > n
    <3>1. i \in 1 .. n + l /\ (n + l) - i > 0
      BY <1>1
    <3>2. r[i][2] = (n + l) - i
      BY <1>4, <2>3, <3>1
    <3>. QED BY <1>7, <3>1, <3>2
  <2>. QED BY <1>1, <2>1, <2>2, <2>3
<1>8. Stands(r, n + l, more)
  <2>1. n + l > 0
    BY <1>1
  <2>2. CASE n > 0
    <3>1. 1 \in 1 .. n
      BY <1>1, <2>2
    <3>2. r[1] = q[1]
      BY <1>3, <3>1
    <3>. QED BY <2>1, <2>2, <3>2 DEF Stands
  <2>3. CASE n = 0
    <3>1. r[1] = frame[1] /\ ~(more > 0)
      BY <1>6, <2>3 DEF Stands
    <3>. QED BY <3>1 DEF Stands
  <2>. QED BY <1>1, <2>2, <2>3
<1>. QED BY <1>5, <1>7, <1>8 DEF Framed

\* A size whose high digit was read before its low digit is not too large.
LEMMA Composed ==
  ASSUME NEW h \in Nat, NEW size \in Nat, h * Base <= size
  PROVE  /\ h * Base + (size % Base) \in Nat /\ h * Base + (size % Base) <= size
         /\ (size \div Base) \in Nat /\ (size \div Base) * Base <= size
<1>. DEFINE r == size % Base
            q == size \div Base
<1>1. size = Base * q + r /\ q \in Int /\ r \in 0 .. Base - 1
  BY SizesAre
<1>. HIDE DEF r, q
<1>2. Base \in Nat /\ Base > 0
  BY SizesAre
<1>3. q \in Nat
  <2>1. SUFFICES ASSUME q < 0 PROVE FALSE
    BY <1>1
  <2>2. -1 - q \in Nat /\ Base * q = -Base - Base * (-1 - q) /\ Base * (-1 - q) \in Nat
    BY <1>1, <1>2, <2>1
  <2>. QED BY <1>1, <1>2, <2>2
<1>4. Base * q = q * Base /\ q * Base \in Nat /\ h * Base \in Nat
  BY <1>2, <1>3
<1>5. h <= q
  <2>1. SUFFICES ASSUME h > q PROVE FALSE
    BY <1>3
  <2>2. h - q - 1 \in Nat
    BY <1>3, <2>1
  <2>. DEFINE e == h - q - 1
  <2>3. e \in Nat /\ h = (q + 1) + e
    BY <1>3, <2>2
  <2>. HIDE DEF e
  <2>4. h * Base = q * Base + Base + e * Base /\ e * Base \in Nat
    BY <1>2, <1>3, <2>3
  <2>. QED BY <1>1, <1>2, <1>4, <2>4
<1>6. h * Base <= q * Base
  <2>. DEFINE e == q - h
  <2>1. e \in Nat /\ q = h + e
    BY <1>3, <1>5
  <2>. HIDE DEF e
  <2>2. q * Base = h * Base + e * Base /\ e * Base \in Nat
    BY <1>2, <2>1
  <2>. QED BY <1>4, <2>2
<1>7. /\ h * Base + r \in Nat /\ h * Base + r <= size
      /\ q \in Nat /\ q * Base <= size
  BY <1>1, <1>2, <1>3, <1>4, <1>6
<1>. QED BY <1>7 DEF r, q

\* Nothing of the rings changes while a call begins or reads a size.
LEMMA RingsStay ==
  ASSUME TxInv, UdpInv, RxInv, FrameInv,
         UNCHANGED << proto, link, txVars, rxVars, sendOk, noAnswer >>,
         sockPc # "sending", sockPc' # "sending"
  PROVE  TxInv' /\ UdpInv' /\ RxInv' /\ FrameInv' /\ FSR' = FSR /\ RSR' = RSR
<1>. USE DEF txVars, rxVars
<1>1. TxInv' /\ RxInv'
  BY DEF TxInv, RxInv
<1>2. UdpInv' /\ FrameInv'
  BY DEF UdpInv, FrameInv
<1>3. FSR' = FSR /\ RSR' = RSR
  BY DEF FSR, RSR, Dist
<1>. QED BY <1>1, <1>2, <1>3

LEMMA ReadStep == ASSUME RingsInv, ReadHigh \/ ReadLow1 \/ ReadLow2 \/ SendAgain PROVE RingsInv'
<1>1. /\ TxInv /\ UdpInv /\ RxInv /\ FrameInv /\ CallInv
      /\ UNCHANGED << proto, link, txVars, rxVars, sendOk, noAnswer, op >>
      /\ Reading /\ Reading'
  BY DEF RingsInv, ReadHigh, ReadLow1, ReadLow2, SendAgain, ReadSize, Reading
<1>2. TxInv' /\ UdpInv' /\ RxInv' /\ FrameInv' /\ FSR' = FSR /\ RSR' = RSR
  BY <1>1, RingsStay DEF Reading
<1>3. Sized' = Sized /\ Sized \in Nat
  <2>1. sockPc # "sending"
    BY <1>1 DEF Reading
  <2>. QED BY <1>1, <1>2, <2>1, SizedIs DEF Sized
<1>4. /\ hi \in Nat /\ val1 \in Nat /\ val \in Nat
      /\ hi * Base <= Sized /\ val1 <= Sized /\ val <= Sized
  BY <1>1 DEF CallInv
<1>5. /\ hi * Base + (Sized % Base) \in Nat /\ hi * Base + (Sized % Base) <= Sized
      /\ (Sized \div Base) \in Nat /\ (Sized \div Base) * Base <= Sized
  BY <1>3, <1>4, Composed
<1>6. 0 \in Nat /\ 0 * Base <= Sized /\ 0 <= Sized
  BY <1>3, SizesAre
<1>. DEFINE high == Sized \div Base
            both == hi * Base + (Sized % Base)
<1>7. \/ hi' = high /\ val1' = val1 /\ val' = val
      \/ hi' = 0 /\ val1' = both /\ val' = val
      \/ hi' = 0 /\ val1' = val1 /\ val' = both
      \/ hi' = 0 /\ val1' = 0 /\ val' = 0
  BY DEF ReadHigh, ReadLow1, ReadLow2, SendAgain, ReadSize
<1>8. high \in Nat /\ both \in Nat /\ high * Base <= Sized /\ both <= Sized
  BY <1>5
<1>. HIDE DEF high, both
<1>9. /\ hi' \in Nat /\ val1' \in Nat /\ val' \in Nat
      /\ hi' * Base <= Sized' /\ val1' <= Sized' /\ val' <= Sized'
  BY <1>3, <1>4, <1>6, <1>7, <1>8
<1>10. CallInv'
  BY <1>1, <1>9 DEF CallInv, txVars, Reading
<1>. QED BY <1>2, <1>10 DEF RingsInv

LEMMA BeginStep ==
  ASSUME RingsInv, CallSend \/ CallRecv \/ CallParse \/ CallBuffer
  PROVE  RingsInv'
<1>1. PICK c : /\ CallBegins(c)
               /\ \/ c.name = "send" /\ c.data \in Writes /\ proto = "TCP"
                  \/ /\ c.name = "buffer" /\ c.data \in Writes /\ proto = "UDP"
                     /\ offset + Len(c.data) <= MaxDatagram
                  \/ c.name = "recv" /\ c.len \in Reads
                  \/ c.name = "parse" /\ proto = "UDP"
  <2>1. CASE CallSend
    <3>1. PICK d \in Writes : proto = "TCP" /\ CallBegins([name |-> "send", data |-> d])
      BY <2>1 DEF CallSend
    <3>. QED BY <3>1
  <2>2. CASE CallRecv
    <3>1. PICK num \in Reads : CallBegins([name |-> "recv", len |-> num])
      BY <2>2 DEF CallRecv
    <3>. QED BY <3>1
  <2>3. CASE CallParse
    <3>1. proto = "UDP" /\ CallBegins([name |-> "parse"])
      BY <2>3 DEF CallParse
    <3>. QED BY <3>1
  <2>4. CASE CallBuffer
    <3>1. PICK d \in Writes : /\ proto = "UDP" /\ offset + Len(d) <= MaxDatagram
                              /\ CallBegins([name |-> "buffer", data |-> d])
      BY <2>4 DEF CallBuffer
    <3>. QED BY <3>1
  <2>. QED BY <2>1, <2>2, <2>3, <2>4
<1>2. /\ TxInv /\ UdpInv /\ RxInv /\ FrameInv
      /\ UNCHANGED << proto, link, txVars, rxVars, sendOk, noAnswer >>
      /\ sockPc = "idle" /\ sockPc' = "high1" /\ hi' = 0 /\ val1' = 0 /\ val' = 0 /\ op' = c
  BY <1>1 DEF RingsInv, CallBegins, ReadSize
<1>3. TxInv' /\ UdpInv' /\ RxInv' /\ FrameInv' /\ FSR' = FSR /\ RSR' = RSR
  BY <1>2, RingsStay
<1>4. Sized' \in Nat
  BY <1>2, <1>3, SizedIs DEF Sized
<1>5. 0 * Base <= Sized' /\ 0 <= Sized'
  BY <1>4, SizesAre
<1>6. CallInv'
  BY <1>1, <1>2, <1>5 DEF CallInv, txVars
<1>. QED BY <1>3, <1>6 DEF RingsInv

LEMMA Apart ==
  ASSUME NEW x \in Int, NEW y \in Int, NEW d \in Nat, d < PtrMod, Same(PtrMod, x, y + d)
  PROVE  Dist(x, y) = d
<1>1. d \in 0 .. PtrMod - 1
  BY SizesAre
<1>2. (x - y) % PtrMod = d
  BY <1>1, SizesAre, SameApart
<1>. QED BY <1>2 DEF Dist

\* What a call has read of a size is not more than what it has become.
LEMMA SizedAfter ==
  ASSUME TxInv', RxInv'
  PROVE  /\ FSR' = SSize - (Len(txQ') - offset') /\ RSR' = Len(rxQ')
         /\ Len(txQ') \in Nat /\ offset' \in Nat /\ Len(rxQ') \in Nat
         /\ FSR' \in Int /\ RSR' \in Nat /\ Sized' \in Int
<1>1. Len(txQ') \in Nat /\ offset' \in Nat /\ offset' <= Len(txQ') /\ Len(txQ') <= MaxDatagram
  BY DEF TxInv
<1>2. Len(rxQ') \in Nat /\ Len(rxQ') <= RSize
  BY DEF RxInv
<1>3. FSR' = SSize - (Len(txQ') - offset')
  <2>. DEFINE d == Len(txQ') - offset'
              x == txWr'
              y == txRd'
  <2>1. d \in Nat /\ d < PtrMod
    BY <1>1, SizesAre
  <2>2. x \in Int /\ y \in Int /\ Same(PtrMod, x, y + d)
    BY DEF TxInv
  <2>. HIDE DEF d, x, y
  <2>3. Dist(x, y) = d
    BY <2>1, <2>2, Apart
  <2>. QED BY <2>3 DEF FSR, d, x, y
<1>4. RSR' = Len(rxQ')
  <2>. DEFINE d == Len(rxQ')
              x == rxWr'
              y == rxRd'
  <2>1. d \in Nat /\ d < PtrMod
    BY <1>2, SizesAre
  <2>2. x \in Int /\ y \in Int /\ Same(PtrMod, x, y + d) /\ rxFree' = y
    BY DEF RxInv
  <2>. HIDE DEF d, x, y
  <2>3. Dist(x, y) = d
    BY <2>1, <2>2, Apart
  <2>. QED BY <2>2, <2>3 DEF RSR, d, x, y
<1>5. FSR' \in Int /\ RSR' \in Nat
  <2>1. SSize - (Len(txQ') - offset') \in Int
    BY <1>1, SizesAre
  <2>. QED BY <1>2, <1>3, <1>4, <2>1
<1>. QED BY <1>1, <1>2, <1>3, <1>4, <1>5 DEF Sized

\* The chip and the other side only make it grow.
LEMMA CallStays ==
  ASSUME TxInv, RxInv, TxInv', RxInv', CallInv,
         UNCHANGED << proto, sockPc, op, sizeVars, offset >>,
         Len(txQ') <= Len(txQ), Len(rxQ) <= Len(rxQ')
  PROVE  CallInv'
<1>1. FSR = SSize - (Len(txQ) - offset) /\ RSR = Len(rxQ) /\ Len(txQ) \in Nat /\ offset \in Nat
      /\ Len(rxQ) \in Nat
  BY FreeIs, FilledIs
<1>2. /\ FSR' = SSize - (Len(txQ') - offset') /\ RSR' = Len(rxQ')
      /\ Len(txQ') \in Nat /\ Len(rxQ') \in Nat /\ Sized' \in Int
  BY SizedAfter
<1>3. offset' = offset /\ op' = op /\ hi' = hi /\ val1' = val1 /\ val' = val /\ sockPc' = sockPc /\ proto' = proto
  BY DEF sizeVars
<1>4. FSR <= FSR' /\ RSR <= RSR' /\ FSR \in Int /\ RSR \in Int /\ FSR' \in Int /\ RSR' \in Int
  BY <1>1, <1>2, <1>3, SizesAre
<1>5. Sized <= Sized' /\ Sized \in Int /\ Sized' \in Int
  BY <1>3, <1>4 DEF Sized
<1>6. hi \in Nat /\ val1 \in Nat /\ val \in Nat
  BY DEF CallInv
<1>7. hi * Base \in Int
  BY <1>6, SizesAre
<1>8. Reading => hi' * Base <= Sized' /\ val1' <= Sized' /\ val' <= Sized'
  <2>1. SUFFICES ASSUME Reading PROVE hi' * Base <= Sized' /\ val1' <= Sized' /\ val' <= Sized'
    OBVIOUS
  <2>2. hi * Base <= Sized /\ val1 <= Sized /\ val <= Sized
    BY <2>1 DEF CallInv
  <2>. DEFINE m == hi * Base
  <2>3. m \in Int /\ m <= Sized /\ hi' * Base = m
    BY <1>3, <1>7, <2>2
  <2>. HIDE DEF m
  <2>4. m <= Sized' /\ val1 <= Sized' /\ val <= Sized'
    BY <1>5, <1>6, <2>2, <2>3
  <2>. QED BY <1>3, <2>3, <2>4
<1>9. Reading' <=> Reading
  BY <1>3 DEF Reading
<1>. QED BY <1>3, <1>6, <1>8, <1>9 DEF CallInv

\* Between the calls, and while one is sent, no size is looked at.
LEMMA CallOver ==
  ASSUME hi' \in Nat, val1' \in Nat, val' \in Nat, sockPc' \in { "idle", "sending" }
  PROVE  CallInv'
BY DEF CallInv, Reading

LEMMA SendCommandStep == ASSUME RingsInv, SendCommand PROVE RingsInv'
<1>1. /\ TxInv /\ UdpInv /\ RxInv /\ FrameInv /\ CallInv
      /\ sockPc = "sized" /\ op.name = "send" /\ Reading
  BY DEF RingsInv, SendCommand, Reading
<1>2. proto = "TCP" /\ op.data \in Writes /\ offset = 0 /\ val \in Nat /\ val <= FSR
  BY <1>1 DEF CallInv, UdpInv, Sized
<1>3. op.data \in Seq(Payload)
  BY <1>2, W5100Assumption
<1>. DEFINE num == IF Connected THEN Accepted ELSE 0
<1>4. Len(txQ) \in Nat /\ FSR = SSize - Len(txQ)
  BY <1>1, <1>2, FreeIs
<1>5. num \in 0 .. Len(op.data) /\ Len(txQ) + num <= SSize
  <2>1. Len(op.data) \in Nat
    BY <1>3
  <2>2. Accepted \in 0 .. Len(op.data)
    BY <2>1, SizesAre DEF Accepted
  <2>3. Len(txQ) <= SSize
    BY <1>1, <1>2 DEF UdpInv
  <2>4. CASE Connected
    <3>1. val >= Accepted /\ num = Accepted
      BY <2>4 DEF SendCommand
    <3>. QED BY <1>2, <1>4, <2>1, <2>2, <3>1, SizesAre
  <2>5. CASE ~Connected
    BY <1>4, <2>1, <2>3, <2>5, SizesAre
  <2>. QED BY <2>4, <2>5
<1>6. Place(op.data, num, offset) /\ txRd' = txRd /\ txWr' = txNew' /\ offset' = offset
  BY <1>2 DEF SendCommand
<1>7. /\ sockPc' = "sending" /\ proto' = proto /\ sendOk' = sendOk /\ noAnswer' = noAnswer
      /\ hi' = hi /\ val1' = val1 /\ val' = val
      /\ rxMem' = rxMem /\ rxRd' = rxRd /\ rxWr' = rxWr /\ rxFree' = rxFree /\ rxQ' = rxQ
      /\ remaining' = remaining
  BY DEF SendCommand, sizeVars, rxVars
<1>. HIDE DEF num
<1>8. /\ txQ' \in Seq(Payload) /\ Len(txQ') = Len(txQ) + num
      /\ txNew' \in Int /\ Same(PtrMod, txNew', txRd + Len(txQ'))
      /\ Fetched(txMem', SSize, txRd, Len(txQ')) = txQ'
  BY <1>1, <1>3, <1>5, <1>6, <1>4, TxPlaced
<1>9. num \in Nat /\ Len(txQ') \in Nat /\ Len(txQ') <= SSize /\ offset' = 0 /\ 0 \in 0 .. Len(txQ')
      /\ Len(txQ') - offset' = Len(txQ') /\ Len(txQ') <= MaxDatagram
  BY <1>2, <1>4, <1>5, <1>6, <1>8, SizesAre
<1>10. TxInv'
  BY <1>1, <1>6, <1>8, <1>9 DEF TxInv
<1>11. UdpInv'
  BY <1>1, <1>2, <1>7, <1>9 DEF UdpInv
<1>12. RxInv' /\ FrameInv'
  BY <1>1, <1>7 DEF RxInv, FrameInv
<1>13. CallInv'
  BY <1>1, <1>7, CallOver DEF CallInv
<1>. QED BY <1>10, <1>11, <1>12, <1>13 DEF RingsInv

LEMMA SendDoneStep == ASSUME RingsInv, SendDone PROVE RingsInv'
<1>1. TxInv /\ UdpInv /\ RxInv /\ FrameInv /\ sockPc = "sending"
  BY DEF RingsInv, SendDone
<1>2. /\ sockPc' = "idle" /\ hi' = 0 /\ val1' = 0 /\ val' = 0 /\ proto' = proto
      /\ UNCHANGED << txVars, rxVars >>
  BY DEF SendDone, CallEnds
<1>3. TxInv' /\ RxInv' /\ FrameInv'
  BY <1>1, <1>2 DEF TxInv, RxInv, FrameInv, txVars, rxVars
<1>4. UdpInv'
  <2>1. offset' = offset /\ txQ' = txQ
    BY <1>2 DEF txVars
  <2>2. \/ sendOk /\ sendOk' = FALSE /\ noAnswer' = noAnswer
        \/ ~sendOk /\ proto = "TCP" /\ sendOk' = sendOk /\ noAnswer' = noAnswer
        \/ ~sendOk /\ noAnswer /\ sendOk' = sendOk /\ noAnswer' = FALSE
    BY DEF SendDone
  <2>3. /\ proto \in { "TCP", "UDP" } /\ sendOk \in BOOLEAN /\ noAnswer \in BOOLEAN
        /\ proto = "TCP" => offset = 0 /\ Len(txQ) <= SSize
        /\ proto = "UDP" /\ (sendOk \/ noAnswer) => offset = Len(txQ) /\ ~(sendOk /\ noAnswer)
    BY <1>1 DEF UdpInv
  <2>4. sendOk' \in BOOLEAN /\ noAnswer' \in BOOLEAN
    BY <2>2, <2>3
  <2>5. proto = "UDP" => offset = Len(txQ) /\ ~sendOk' /\ ~noAnswer'
    <3>1. SUFFICES ASSUME proto = "UDP" PROVE offset = Len(txQ) /\ ~sendOk' /\ ~noAnswer'
      OBVIOUS
    <3>2. CASE sendOk /\ sendOk' = FALSE /\ noAnswer' = noAnswer
      <4>1. offset = Len(txQ) /\ ~noAnswer
        BY <2>3, <3>1, <3>2
      <4>. QED BY <3>2, <4>1
    <3>3. CASE ~sendOk /\ noAnswer /\ sendOk' = sendOk /\ noAnswer' = FALSE
      <4>1. offset = Len(txQ)
        BY <2>3, <3>1, <3>3
      <4>. QED BY <3>3, <4>1
    <3>. QED BY <2>2, <3>1, <3>2, <3>3
  <2>. QED BY <1>2, <2>1, <2>3, <2>4, <2>5 DEF UdpInv
<1>5. CallInv'
  BY <1>2, CallOver
<1>. QED BY <1>3, <1>4, <1>5 DEF RingsInv

LEMMA BufferStep == ASSUME RingsInv, Buffer PROVE RingsInv'
<1>1. /\ TxInv /\ UdpInv /\ RxInv /\ FrameInv /\ CallInv
      /\ sockPc = "sized" /\ op.name = "buffer" /\ Reading
  BY DEF RingsInv, Buffer, Reading
<1>2. /\ proto = "UDP" /\ op.data \in Writes /\ offset + Len(op.data) <= MaxDatagram /\ val \in Nat
      /\ offset = Len(txQ) /\ ~sendOk /\ ~noAnswer
  BY <1>1 DEF CallInv, UdpInv
<1>3. op.data \in Seq(Payload)
  BY <1>2, W5100Assumption
<1>. DEFINE num == IF Len(op.data) > val THEN val ELSE Len(op.data)
<1>4. Len(txQ) \in Nat /\ Len(op.data) \in Nat
  BY <1>1, <1>3, FreeIs
<1>5. num \in 0 .. Len(op.data) /\ Len(txQ) + num <= MaxDatagram /\ num \in Nat
  BY <1>2, <1>4, SizesAre
<1>6. /\ Place(op.data, num, offset) /\ offset' = offset + num /\ txRd' = txRd /\ txWr' = txWr
      /\ sockPc' = "idle" /\ hi' = 0 /\ val1' = 0 /\ val' = 0 /\ proto' = proto
      /\ UNCHANGED << rxVars, sendOk, noAnswer >>
  BY DEF Buffer, CallEnds
<1>. HIDE DEF num
<1>7. /\ txQ' \in Seq(Payload) /\ Len(txQ') = Len(txQ) + num
      /\ txNew' \in Int /\ Same(PtrMod, txNew', txRd + Len(txQ'))
      /\ Len(txQ') <= SSize => Fetched(txMem', SSize, txRd, Len(txQ')) = txQ'
  BY <1>1, <1>3, <1>5, <1>6, TxPlaced
<1>8. /\ Len(txQ') \in Nat /\ Len(txQ') <= MaxDatagram /\ offset' \in 0 .. Len(txQ') /\ offset' = Len(txQ')
      /\ Len(txQ') - offset' = Len(txQ) - offset
  BY <1>2, <1>4, <1>5, <1>6, <1>7
<1>9. TxInv'
  <2>1. Same(PtrMod, txWr, txRd + (Len(txQ) - offset)) /\ txWr \in Int /\ txRd \in Int
    BY <1>1 DEF TxInv
  <2>. QED BY <1>6, <1>7, <1>8, <2>1 DEF TxInv
<1>10. UdpInv'
  BY <1>1, <1>2, <1>6, <1>8 DEF UdpInv
<1>11. RxInv' /\ FrameInv'
  BY <1>1, <1>6 DEF RxInv, FrameInv, rxVars
<1>12. CallInv'
  BY <1>6, CallOver
<1>. QED BY <1>9, <1>10, <1>11, <1>12 DEF RingsInv

LEMMA EndPacketStep == ASSUME RingsInv, EndPacket PROVE RingsInv'
<1>1. /\ TxInv /\ UdpInv /\ RxInv /\ FrameInv /\ CallInv
      /\ sockPc = "idle" /\ proto = "UDP" /\ ~sendOk /\ ~noAnswer
  BY DEF RingsInv, EndPacket, UdpInv
<1>2. /\ txWr' = txNew /\ offset' = 0 /\ sockPc' = "sending" /\ proto' = proto
      /\ txMem' = txMem /\ txRd' = txRd /\ txNew' = txNew /\ txQ' = txQ
      /\ UNCHANGED << rxVars, sendOk, noAnswer, sizeVars >>
  BY DEF EndPacket
<1>3. Len(txQ) \in Nat /\ 0 \in 0 .. Len(txQ) /\ Len(txQ') - offset' = Len(txQ)
  BY <1>1, <1>2, FreeIs
<1>4. TxInv'
  BY <1>1, <1>2, <1>3 DEF TxInv
<1>5. UdpInv'
  BY <1>1, <1>2 DEF UdpInv
<1>6. RxInv' /\ FrameInv'
  BY <1>1, <1>2 DEF RxInv, FrameInv, rxVars
<1>7. CallInv'
  BY <1>1, <1>2, CallOver DEF CallInv, sizeVars
<1>. QED BY <1>4, <1>5, <1>6, <1>7 DEF RingsInv

\* The chip only reports an end of what it sends, and of a datagram as a whole.
LEMMA DeliverStep == ASSUME RingsInv, Deliver PROVE RingsInv'
<1>1. /\ TxInv /\ UdpInv /\ RxInv /\ FrameInv /\ CallInv
  BY DEF RingsInv
<1>2. Pending = Len(txQ) - offset /\ Len(txQ) - offset \in Nat /\ Len(txQ) \in Nat /\ offset \in Nat
  BY <1>1, FreeIs
<1>3. PICK num \in IF proto = "TCP" THEN 1 .. Pending ELSE { Pending } \ {0} :
         /\ txRd' = (txRd + num) % PtrMod
         /\ txQ' = SubSeq(txQ, num + 1, Len(txQ))
         /\ sendOk' = (sendOk \/ (num = Pending /\ sockPc = "sending"))
  BY DEF Deliver
<1>4. /\ num \in 0 .. Len(txQ) - offset /\ num \in Nat /\ num > 0
      /\ proto # "TCP" => num = Pending
  BY <1>2, <1>3
<1>5. Len(txQ) <= SSize \/ num = Len(txQ)
  <2>1. CASE proto = "TCP"
    BY <1>1, <2>1 DEF UdpInv
  <2>2. CASE proto = "UDP"
    <3>1. num = Len(txQ) - offset /\ offset # Len(txQ)
      BY <1>2, <1>4, <2>2
    <3>2. offset = 0
      BY <1>1, <2>2, <3>1 DEF UdpInv
    <3>. QED BY <1>2, <3>1, <3>2
  <2>. QED BY <1>1, <2>1, <2>2 DEF UdpInv
<1>6. /\ UNCHANGED << proto, txMem, txWr, txNew, offset, rxVars, noAnswer, sockPc, op, sizeVars >>
  BY DEF Deliver
<1>7. TxInv' /\ Len(txQ') = Len(txQ) - num
  BY <1>1, <1>3, <1>4, <1>5, <1>6, TxTaken
<1>8. RxInv' /\ FrameInv' /\ rxQ' = rxQ
  BY <1>1, <1>6 DEF RxInv, FrameInv, rxVars
<1>9. UdpInv'
  <2>1. CASE proto = "TCP"
    <3>1. sendOk' \in BOOLEAN /\ noAnswer' = noAnswer /\ proto' = "TCP" /\ offset' = offset
          /\ Len(txQ') <= SSize
      BY <1>1, <1>2, <1>3, <1>4, <1>6, <1>7, <2>1, SizesAre DEF UdpInv
    <3>. QED BY <1>1, <2>1, <3>1 DEF UdpInv
  <2>2. CASE proto = "UDP"
    <3>1. num = Len(txQ) - offset /\ offset # Len(txQ)
      BY <1>2, <1>4, <2>2
    <3>2. sockPc = "sending" /\ offset = 0 /\ ~sendOk /\ ~noAnswer
      BY <1>1, <2>2, <3>1 DEF UdpInv
    <3>3. offset' = 0 /\ Len(txQ') = 0 /\ ~noAnswer' /\ sockPc' = "sending" /\ proto' = "UDP"
      BY <1>2, <1>6, <1>7, <2>2, <3>1, <3>2
    <3>4. sendOk' \in BOOLEAN /\ noAnswer' \in BOOLEAN
      BY <1>1, <1>3, <1>6 DEF UdpInv
    <3>. QED BY <3>3, <3>4 DEF UdpInv
  <2>. QED BY <1>1, <2>1, <2>2 DEF UdpInv
<1>10. CallInv'
  <2>1. Len(txQ') <= Len(txQ) /\ Len(rxQ) <= Len(rxQ')
    <3>1. Len(rxQ) \in Nat
      BY <1>1, FilledIs
    <3>. QED BY <1>2, <1>4, <1>7, <1>8, <3>1
  <2>. QED BY <1>1, <1>6, <1>7, <1>8, <2>1, CallStays
<1>. QED BY <1>7, <1>8, <1>9, <1>10 DEF RingsInv

LEMMA ReportSentStep == ASSUME RingsInv, ReportSent PROVE RingsInv'
<1>1. /\ TxInv /\ UdpInv /\ RxInv /\ FrameInv /\ CallInv /\ proto = "TCP" /\ sendOk' = TRUE
      /\ UNCHANGED << proto, txVars, rxVars, noAnswer, sockPc, op, sizeVars >>
  BY DEF RingsInv, ReportSent
<1>2. TxInv' /\ RxInv' /\ FrameInv' /\ txQ' = txQ /\ rxQ' = rxQ /\ offset' = offset
  BY <1>1 DEF TxInv, RxInv, FrameInv, txVars, rxVars
<1>3. UdpInv'
  BY <1>1, <1>2 DEF UdpInv
<1>4. Len(txQ') <= Len(txQ) /\ Len(rxQ) <= Len(rxQ')
  <2>1. Len(rxQ) \in Nat /\ Len(txQ) \in Nat
    BY <1>1, FilledIs, FreeIs
  <2>. QED BY <1>2, <2>1
<1>5. CallInv'
  BY <1>1, <1>2, <1>4, CallStays
<1>. QED BY <1>2, <1>3, <1>5 DEF RingsInv

\* Nothing is dropped but what was on its way.
LEMMA DropStep == ASSUME RingsInv, GiveUp \/ Break PROVE RingsInv'
<1>1. /\ TxInv /\ UdpInv /\ RxInv /\ FrameInv /\ CallInv
      /\ txRd' = txWr /\ txQ' = << >>
      /\ UNCHANGED << proto, txMem, txWr, txNew, offset, rxVars, sendOk, sockPc, op, sizeVars >>
  BY DEF RingsInv, GiveUp, Break
<1>2. /\ Len(txQ) \in Nat /\ offset \in Nat /\ Pending = Len(txQ) - offset
      /\ proto \in { "TCP", "UDP" } /\ sendOk \in BOOLEAN /\ noAnswer \in BOOLEAN
  BY <1>1, FreeIs DEF UdpInv
<1>3. /\ offset = 0
      /\ \/ proto = "TCP" /\ noAnswer' = noAnswer
         \/ proto = "UDP" /\ noAnswer' = TRUE /\ sockPc = "sending" /\ ~sendOk
  <2>1. CASE GiveUp
    <3>1. proto = "UDP" /\ noAnswer' = TRUE /\ offset # Len(txQ)
      BY <1>2, <2>1 DEF GiveUp
    <3>2. sockPc = "sending" /\ offset = 0 /\ ~sendOk
      BY <1>1, <3>1 DEF UdpInv
    <3>. QED BY <3>1, <3>2
  <2>2. CASE Break
    BY <1>1, <2>2 DEF Break, UdpInv
  <2>. QED BY <2>1, <2>2
<1>4. TxInv' /\ Len(txQ') = 0
  BY <1>1, <1>3, TxDropped
<1>5. RxInv' /\ FrameInv' /\ rxQ' = rxQ
  BY <1>1 DEF RxInv, FrameInv, rxVars
<1>6. UdpInv'
  <2>1. CASE proto = "TCP" /\ noAnswer' = noAnswer
    BY <1>1, <1>2, <1>3, <1>4, <2>1, SizesAre DEF UdpInv
  <2>2. CASE proto = "UDP" /\ noAnswer' = TRUE /\ sockPc = "sending" /\ ~sendOk
    <3>1. offset' = Len(txQ') /\ offset' = 0 /\ ~sendOk' /\ noAnswer' /\ sockPc' = "sending" /\ proto' = "UDP"
      BY <1>1, <1>3, <1>4, <2>2
    <3>2. sendOk' \in BOOLEAN /\ noAnswer' \in BOOLEAN
      BY <1>1, <1>2, <2>2
    <3>. QED BY <3>1, <3>2 DEF UdpInv
  <2>. QED BY <1>3, <2>1, <2>2
<1>7. CallInv'
  <2>1. Len(txQ') <= Len(txQ) /\ Len(rxQ) <= Len(rxQ')
    <3>1. Len(rxQ) \in Nat
      BY <1>1, FilledIs
    <3>. QED BY <1>2, <1>4, <1>5, <3>1
  <2>. QED BY <1>1, <1>4, <1>5, <2>1, CallStays
<1>. QED BY <1>4, <1>5, <1>6, <1>7 DEF RingsInv

LEMMA FinStep == ASSUME RingsInv, Fin \/ UNCHANGED w5100Vars PROVE RingsInv'
<1>1. /\ TxInv /\ UdpInv /\ RxInv /\ FrameInv /\ CallInv
      /\ UNCHANGED << proto, txVars, rxVars, sendOk, noAnswer, sockPc, op, sizeVars >>
  BY DEF RingsInv, Fin, w5100Vars
<1>2. TxInv' /\ RxInv' /\ FrameInv' /\ txQ' = txQ /\ rxQ' = rxQ /\ offset' = offset
  BY <1>1 DEF TxInv, RxInv, FrameInv, txVars, rxVars
<1>3. UdpInv'
  BY <1>1, <1>2 DEF UdpInv
<1>4. Len(txQ') <= Len(txQ) /\ Len(rxQ) <= Len(rxQ')
  <2>1. Len(rxQ) \in Nat /\ Len(txQ) \in Nat
    BY <1>1, FilledIs, FreeIs
  <2>. QED BY <1>2, <2>1
<1>5. CallInv'
  BY <1>1, <1>2, <1>4, CallStays
<1>. QED BY <1>2, <1>3, <1>5 DEF RingsInv

\* What arrives is framed; a header holds what follows it.
LEMMA ArriveStep == ASSUME RingsInv, ArriveTcp \/ ArriveUdp PROVE RingsInv'
<1>1. TxInv /\ UdpInv /\ RxInv /\ FrameInv /\ CallInv
  BY DEF RingsInv
<1>2. ASSUME NEW data \in Seq(Nat), NEW tagged \in Seq(Nat \X Nat), Len(tagged) = Len(data),
             \A i \in 1 .. Len(data) : tagged[i][1] = data[i],
             Arrive(data), rxQ' = rxQ \o tagged,
             proto = "UDP" => /\ Len(data) > 0 /\ tagged[1][1] = tagged[1][2]
                              /\ \A i \in 1 .. Len(data) : tagged[i][2] = Len(data) - i
      PROVE  RingsInv'
  <2>1. Firsts(tagged) = data
    <3>. DEFINE f == Firsts(tagged)
    <3>1. f \in Seq(Nat) /\ Len(f) = Len(tagged) /\ \A i \in 1 .. Len(tagged) : f[i] = tagged[i][1]
      BY FirstsAre
    <3>. HIDE DEF f
    <3>2. f \in Seq(Nat) /\ data \in Seq(Nat) /\ Len(f) = Len(data) /\ \A i \in 1 .. Len(f) : f[i] = data[i]
      BY <1>2, <3>1
    <3>3. f = data
      BY <3>2, SeqEqual
    <3>. QED BY <3>3 DEF f
  <2>2. RxInv'
    BY <1>1, <1>2, <2>1, RxArrived
  <2>3. /\ UNCHANGED << proto, txVars, remaining, sendOk, noAnswer, sockPc, op, sizeVars >>
    BY <1>2 DEF Arrive
  <2>4. TxInv' /\ txQ' = txQ /\ offset' = offset
    BY <1>1, <2>3 DEF TxInv, txVars
  <2>5. UdpInv'
    BY <1>1, <2>3, <2>4 DEF UdpInv
  <2>6. /\ rxQ \in Seq(Nat \X Nat) /\ Len(rxQ) \in Nat /\ Len(data) \in Nat
        /\ Len(rxQ') = Len(rxQ) + Len(data)
        /\ \A i \in 1 .. Len(rxQ) + Len(data) :
             rxQ'[i] = IF i <= Len(rxQ) THEN rxQ[i] ELSE tagged[i - Len(rxQ)]
    <3>1. rxQ \in Seq(Nat \X Nat) /\ Len(rxQ) \in Nat /\ Len(data) \in Nat
      BY <1>1, <1>2, FilledIs DEF RxInv
    <3>2. /\ Len(rxQ \o tagged) = Len(rxQ) + Len(tagged)
          /\ \A i \in 1 .. Len(rxQ) + Len(tagged) :
               (rxQ \o tagged)[i] = IF i <= Len(rxQ) THEN rxQ[i] ELSE tagged[i - Len(rxQ)]
      BY <3>1, ConcatProperties, ZenonT(30)
    <3>. QED BY <1>2, <3>1, <3>2
  <2>7. FrameInv'
    <3>1. SUFFICES ASSUME proto = "UDP"
                   PROVE  Framed(rxQ', Len(rxQ')) /\ Stands(rxQ', Len(rxQ'), remaining)
      <4>1. remaining' = remaining /\ remaining \in Nat /\ proto' = proto
        BY <1>1, <2>3 DEF FrameInv
      <4>. QED BY <4>1 DEF FrameInv
    <3>. DEFINE n == Len(rxQ)
                l == Len(data)
                r == rxQ'
    <3>2. /\ n \in Nat /\ l \in Nat /\ l > 0 /\ remaining \in Nat
          /\ Framed(rxQ, n) /\ Stands(rxQ, n, remaining)
          /\ \A i \in 1 .. l : tagged[i][2] = l - i
          /\ tagged[1][1] = tagged[1][2]
          /\ \A i \in 1 .. n + l : r[i] = IF i <= n THEN rxQ[i] ELSE tagged[i - n]
      BY <1>1, <1>2, <2>6, <3>1 DEF FrameInv
    <3>3. \A i \in 1 .. n : rxQ[i][2] \in Nat
      <4>1. \A i \in 1 .. Len(rxQ) : rxQ[i] \in Nat \X Nat
        BY <2>6, ElementOfSeq
      <4>. QED BY <4>1
    <3>4. Len(rxQ') = n + l
      BY <2>6
    <3>. HIDE DEF n, l, r
    <3>5. Headed(tagged, l)
      BY <3>2 DEF Headed
    <3>6. Continues(r, rxQ, n, tagged, l)
      BY <3>2, <3>3 DEF Continues
    <3>7. Framed(r, n + l) /\ Stands(r, n + l, remaining)
      BY <3>2, <3>5, <3>6, FramesArrived
    <3>. QED BY <3>4, <3>7 DEF r
  <2>8. Len(txQ') <= Len(txQ) /\ Len(rxQ) <= Len(rxQ')
    <3>1. Len(txQ) \in Nat
      BY <1>1, FreeIs
    <3>. QED BY <2>4, <2>6, <3>1
  <2>9. CallInv'
    BY <1>1, <2>2, <2>3, <2>4, <2>8, CallStays
  <2>. QED BY <2>2, <2>4, <2>5, <2>7, <2>9 DEF RingsInv
<1>3. ASSUME NEW d \in Datagrams \cup Segments PROVE d \in Seq(Nat) /\ Len(d) \in Nat
  <2>1. d \in Seq(Payload) /\ Payload \subseteq Nat
    BY W5100Assumption
  <2>2. Len(d) \in Nat /\ \A i \in 1 .. Len(d) : d[i] \in Nat
    <3>1. Len(d) \in Nat
      BY <2>1, LenProperties
    <3>2. \A i \in 1 .. Len(d) : d[i] \in Payload
      BY <2>1, ElementOfSeq
    <3>. QED BY <2>1, <3>1, <3>2
  <2>. QED BY <2>1, <2>2, SeqDef
<1>4. CASE ArriveTcp
  <2>1. PICK d \in Segments : Arrive(d) /\ rxQ' = rxQ \o [i \in 1 .. Len(d) |-> << d[i], 0 >>]
    BY <1>4 DEF ArriveTcp
  <2>. DEFINE tagged == [i \in 1 .. Len(d) |-> << d[i], 0 >>]
  <2>2. d \in Seq(Nat) /\ Len(d) \in Nat /\ proto # "UDP"
    BY <1>3, <1>4 DEF ArriveTcp
  <2>3. /\ tagged \in Seq(Nat \X Nat) /\ Len(tagged) = Len(d)
        /\ \A i \in 1 .. Len(d) : tagged[i][1] = d[i]
    BY <2>2
  <2>4. rxQ' = rxQ \o tagged
    BY <2>1
  <2>. HIDE DEF tagged
  <2>. QED BY <1>2, <2>1, <2>2, <2>3, <2>4
<1>5. CASE ArriveUdp
  <2>1. PICK d \in Datagrams :
          /\ Arrive(<< Len(d) >> \o d)
          /\ rxQ' = rxQ \o [i \in 1 .. Len(<< Len(d) >> \o d) |->
                              << (<< Len(d) >> \o d)[i], Len(<< Len(d) >> \o d) - i >>]
    BY <1>5 DEF ArriveUdp
  <2>. DEFINE frame == << Len(d) >> \o d
              tagged == [i \in 1 .. Len(frame) |-> << frame[i], Len(frame) - i >>]
  <2>2. d \in Seq(Nat) /\ Len(d) \in Nat
    BY <1>3
  <2>3. frame \in Seq(Nat) /\ Len(frame) = Len(d) + 1 /\ frame[1] = Len(d)
    <3>1. << Len(d) >> \in Seq(Nat) /\ Len(<< Len(d) >>) = 1 /\ << Len(d) >>[1] = Len(d)
      BY <2>2
    <3>2. frame \in Seq(Nat) /\ Len(frame) = Len(<< Len(d) >>) + Len(d)
      BY <2>2, <3>1, ConcatProperties
    <3>3. frame[1] = << Len(d) >>[1]
      BY <2>2, <3>1
    <3>. QED BY <2>2, <3>1, <3>2, <3>3
  <2>4. Arrive(frame) /\ rxQ' = rxQ \o tagged
    BY <2>1
  <2>. HIDE DEF frame
  <2>5. Len(frame) \in Nat /\ Len(frame) > 0 /\ 1 \in 1 .. Len(frame)
    BY <2>2, <2>3
  <2>6. \A i \in 1 .. Len(frame) : frame[i] \in Nat /\ Len(frame) - i \in Nat
    BY <2>3, <2>5, ElementOfSeq
  <2>7. /\ tagged \in Seq(Nat \X Nat) /\ Len(tagged) = Len(frame)
        /\ \A i \in 1 .. Len(frame) : tagged[i][1] = frame[i]
        /\ \A i \in 1 .. Len(frame) : tagged[i][2] = Len(frame) - i
    BY <2>5, <2>6
  <2>. HIDE DEF tagged
  <2>8. tagged[1][1] = tagged[1][2]
    <3>1. tagged[1][1] = frame[1] /\ tagged[1][2] = Len(frame) - 1
      BY <2>5, <2>7
    <3>. QED BY <2>2, <2>3, <3>1
  <2>. QED BY <1>2, <2>3, <2>4, <2>5, <2>7, <2>8
<1>. QED BY <1>4, <1>5

\* What a call takes had arrived, and is within the datagram it reads.
LEMMA TakeStep ==
  ASSUME RingsInv, sockPc = "sized", op.name \in { "recv", "parse" },
         NEW num \in Nat, num <= val, TakeBytes(num), proto = "UDP" => num <= remaining,
         remaining' = IF proto = "UDP" THEN remaining - num ELSE remaining,
         UNCHANGED << proto, txVars, sendOk, noAnswer >>, sockPc' \in { "idle", "high1" }
  PROVE  TxInv' /\ UdpInv' /\ RxInv' /\ FrameInv'
<1>1. /\ TxInv /\ UdpInv /\ RxInv /\ FrameInv /\ CallInv /\ Reading
  BY DEF RingsInv, Reading
<1>2. Sized = RSR /\ val \in Nat /\ val <= Sized /\ RSR = Len(rxQ) /\ Len(rxQ) \in Nat
  BY <1>1, FilledIs DEF CallInv, Sized
<1>3. num \in 0 .. Len(rxQ)
  BY <1>2
<1>4. /\ RxInv' /\ Len(rxQ') = Len(rxQ) - num
      /\ \A i \in 1 .. Len(rxQ') : rxQ'[i] = rxQ[num + i]
  BY <1>1, <1>3, RxTaken
<1>5. TxInv' /\ UdpInv'
  BY <1>1 DEF TxInv, UdpInv, txVars
<1>6. \A i \in 1 .. Len(rxQ) : rxQ[i][2] \in Nat
  <2>1. rxQ \in Seq(Nat \X Nat)
    BY <1>1 DEF RxInv
  <2>2. \A i \in 1 .. Len(rxQ) : rxQ[i] \in Nat \X Nat
    BY <2>1, ElementOfSeq
  <2>. QED BY <2>2
<1>7. FrameInv'
  <2>0. remaining \in Nat /\ proto' = proto
    BY <1>1 DEF FrameInv
  <2>1. CASE proto = "UDP"
    <3>. DEFINE n == Len(rxQ)
                r == rxQ'
    <3>1. /\ Framed(rxQ, n) /\ Stands(rxQ, n, remaining) /\ num <= remaining
          /\ remaining' = remaining - num /\ remaining - num \in Nat
          /\ n \in Nat /\ num \in 0 .. n /\ Len(rxQ') = n - num
          /\ (\A i \in 1 .. n : rxQ[i][2] \in Nat)
          /\ (\A i \in 1 .. n - num : r[i] = rxQ[num + i])
      BY <1>1, <1>2, <1>3, <1>4, <1>6, <2>0, <2>1 DEF FrameInv
    <3>. HIDE DEF n, r
    <3>2. Framed(r, n - num)
      BY <3>1, FramesTaken, ZenonT(30)
    <3>3. Stands(r, n - num, remaining - num)
      BY <2>0, <3>1, StandsTaken, ZenonT(30)
    <3>4. Framed(rxQ', Len(rxQ')) /\ Stands(rxQ', Len(rxQ'), remaining')
      BY <3>1, <3>2, <3>3 DEF r
    <3>. QED BY <3>1, <3>4 DEF FrameInv
  <2>2. CASE proto # "UDP"
    BY <2>0, <2>2 DEF FrameInv
  <2>. QED BY <2>1, <2>2
<1>. QED BY <1>4, <1>5, <1>7

LEMMA RecvStep == ASSUME RingsInv, Recv PROVE RingsInv'
<1>. DEFINE most == IF proto = "UDP" /\ remaining < op.len THEN remaining ELSE op.len
            num == AtMost(most)
<1>1. /\ sockPc = "sized" /\ op.name = "recv" /\ TakeBytes(num)
      /\ remaining' = IF proto = "UDP" THEN remaining - num ELSE remaining
      /\ UNCHANGED << proto, txVars, sendOk, noAnswer >>
      /\ sockPc' = "idle" /\ hi' = 0 /\ val1' = 0 /\ val' = 0
  BY DEF Recv, CallEnds
<1>2. val \in Nat /\ op.len \in Reads /\ remaining \in Nat
  BY <1>1 DEF RingsInv, CallInv, FrameInv, Reading
<1>3. op.len \in Nat
  BY <1>2, W5100Assumption
<1>4. num \in Nat /\ num <= val /\ (proto = "UDP" => num <= remaining)
  <2>1. most \in Nat /\ (proto = "UDP" => most <= remaining)
    BY <1>2, <1>3
  <2>. HIDE DEF most
  <2>. QED BY <1>2, <2>1 DEF AtMost
<1>. HIDE DEF num
<1>5. TxInv' /\ UdpInv' /\ RxInv' /\ FrameInv'
  BY <1>1, <1>4, TakeStep
<1>6. CallInv'
  BY <1>1, CallOver
<1>. QED BY <1>5, <1>6 DEF RingsInv

LEMMA DiscardStep == ASSUME RingsInv, Discard PROVE RingsInv'
<1>. DEFINE num == AtMost(1)
<1>1. /\ sockPc = "sized" /\ op.name = "parse" /\ TakeBytes(num) /\ remaining > 0
      /\ remaining' = remaining - num
      /\ UNCHANGED << proto, txVars, sendOk, noAnswer, op >>
      /\ sockPc' = "high1" /\ hi' = 0 /\ val1' = 0 /\ val' = 0
  BY DEF Discard, ReadSize
<1>2. val \in Nat /\ remaining \in Nat /\ proto = "UDP"
  BY <1>1 DEF RingsInv, CallInv, FrameInv, Reading
<1>3. num \in Nat /\ num <= val /\ num <= remaining
  BY <1>1, <1>2 DEF AtMost
<1>. HIDE DEF num
<1>4. TxInv' /\ UdpInv' /\ RxInv' /\ FrameInv'
  BY <1>1, <1>2, <1>3, TakeStep
<1>5. 0 * Base <= Sized' /\ 0 <= Sized'
  <2>1. Sized' = RSR' /\ RSR' \in Nat
    BY <1>1, <1>4, SizedAfter DEF Sized
  <2>. QED BY <2>1, SizesAre
<1>6. CallInv'
  BY <1>1, <1>2, <1>5 DEF CallInv
<1>. QED BY <1>4, <1>6 DEF RingsInv

\* The header says how much follows it.
LEMMA ParseStep == ASSUME RingsInv, Parse PROVE RingsInv'
<1>. DEFINE num == AtMost(1)
<1>1. /\ sockPc = "sized" /\ op.name = "parse" /\ TakeBytes(num) /\ remaining = 0
      /\ remaining' = IF val > 0 THEN Fetched(rxMem, RSize, rxRd, 1)[1] ELSE 0
      /\ UNCHANGED << proto, txVars, sendOk, noAnswer >>
      /\ sockPc' = "idle" /\ hi' = 0 /\ val1' = 0 /\ val' = 0
  BY DEF Parse, CallEnds
<1>2. /\ TxInv /\ UdpInv /\ RxInv /\ FrameInv /\ CallInv
      /\ val \in Nat /\ proto = "UDP" /\ val <= Sized
  BY <1>1 DEF RingsInv, CallInv, Reading
<1>3. Len(rxQ) \in Nat /\ Sized = Len(rxQ)
  BY <1>1, <1>2, FilledIs DEF Sized
<1>4. CallInv'
  BY <1>1, CallOver
<1>5. CASE val = 0
  <2>1. num = 0 /\ num \in Nat /\ remaining' = remaining - num /\ num <= val
    BY <1>1, <1>5 DEF AtMost
  <2>. HIDE DEF num
  <2>2. num <= remaining
    BY <1>1, <2>1
  <2>3. TxInv' /\ UdpInv' /\ RxInv' /\ FrameInv'
    BY <1>1, <1>2, <2>1, <2>2, TakeStep
  <2>. QED BY <1>4, <2>3 DEF RingsInv
<1>6. CASE val # 0
  <2>1. num = 1 /\ val > 0 /\ 1 \in 0 .. Len(rxQ) /\ 1 \in 1 .. Len(rxQ)
    BY <1>2, <1>3, <1>6 DEF AtMost
  <2>. HIDE DEF num
  <2>2. /\ RxInv' /\ Len(rxQ') = Len(rxQ) - 1
        /\ \A i \in 1 .. Len(rxQ') : rxQ'[i] = rxQ[1 + i]
    BY <1>1, <1>2, <2>1, RxTaken
  <2>3. TxInv' /\ UdpInv'
    BY <1>1, <1>2 DEF TxInv, UdpInv, txVars
  <2>4. \A i \in 1 .. Len(rxQ) : rxQ[i][1] \in Nat /\ rxQ[i][2] \in Nat
    <3>1. rxQ \in Seq(Nat \X Nat)
      BY <1>2 DEF RxInv
    <3>2. \A i \in 1 .. Len(rxQ) : rxQ[i] \in Nat \X Nat
      BY <3>1, ElementOfSeq
    <3>. QED BY <3>2
  <2>5. remaining' = rxQ[1][2]
    <3>1. Framed(rxQ, Len(rxQ)) /\ Stands(rxQ, Len(rxQ), remaining)
      BY <1>2 DEF FrameInv
    <3>2. rxQ[1][1] = rxQ[1][2]
      BY <1>1, <1>3, <2>1, <3>1 DEF Stands
    <3>3. Fetched(rxMem, RSize, rxRd, Len(rxQ)) = Firsts(rxQ)
      BY <1>2 DEF RxInv
    <3>4. Fetched(rxMem, RSize, rxRd, Len(rxQ))[1] = rxMem[(rxRd + 1 - 1) % RSize]
      BY <2>1 DEF Fetched
    <3>5. Fetched(rxMem, RSize, rxRd, 1)[1] = rxMem[(rxRd + 1 - 1) % RSize]
      BY DEF Fetched
    <3>6. Firsts(rxQ)[1] = rxQ[1][1]
      BY <2>1 DEF Firsts
    <3>. QED BY <1>1, <2>1, <3>2, <3>3, <3>4, <3>5, <3>6
  <2>6. Framed(rxQ', Len(rxQ'))
    <3>. DEFINE n == Len(rxQ)
                r == rxQ'
    <3>1. /\ Framed(rxQ, n) /\ n \in Nat /\ 1 \in 0 .. n /\ Len(rxQ') = n - 1
          /\ (\A i \in 1 .. n : rxQ[i][2] \in Nat)
          /\ (\A i \in 1 .. n - 1 : r[i] = rxQ[1 + i])
      BY <1>2, <1>3, <2>1, <2>2, <2>4 DEF FrameInv
    <3>. HIDE DEF n, r
    <3>2. Framed(r, n - 1)
      BY <3>1, FramesTaken, ZenonT(30)
    <3>. QED BY <3>1, <3>2 DEF r
  <2>7. Stands(rxQ', Len(rxQ'), remaining')
    <3>1. Framed(rxQ, Len(rxQ))
      BY <1>2 DEF FrameInv
    <3>. DEFINE h == rxQ[1][2]
                n == Len(rxQ)
    <3>2. h \in Nat /\ n \in Nat /\ n > 0 /\ 1 \in 1 .. n /\ Len(rxQ') = n - 1
      BY <1>3, <2>1, <2>2, <2>4
    <3>3. n - 1 > 0 => rxQ'[1] = rxQ[2]
      <4>1. n - 1 > 0 => 1 \in 1 .. Len(rxQ') /\ 1 + 1 = 2
        BY <3>2
      <4>. QED BY <2>2, <4>1
    <3>4. CASE h > 0
      <4>1. 1 \in 0 .. h
        BY <3>2, <3>4
      <4>2. 1 + 1 <= n /\ rxQ[1 + 1][2] = h - 1
        BY <3>1, <3>2, <4>1 DEF Framed
      <4>3. n - 1 > 0 /\ rxQ'[1][2] = h - 1
        <5>1. 1 + 1 = 2 /\ n - 1 > 0
          BY <3>2, <4>2
        <5>. QED BY <3>3, <4>2, <5>1
      <4>. QED BY <2>5, <3>2, <3>4, <4>3 DEF Stands
    <3>5. CASE h = 0
      <4>1. ASSUME n - 1 > 0 PROVE rxQ'[1][1] = rxQ'[1][2]
        <5>1. 1 \in 1 .. n - 1 /\ 1 + 1 = 2
          BY <3>2, <4>1
        <5>2. rxQ[1 + 1][1] = rxQ[1 + 1][2]
          BY <3>1, <3>5, <5>1 DEF Framed
        <5>. QED BY <3>3, <4>1, <5>1, <5>2
      <4>. QED BY <2>5, <3>2, <3>5, <4>1 DEF Stands
    <3>. QED BY <3>2, <3>4, <3>5
  <2>8. FrameInv'
    BY <2>1, <2>4, <2>5, <2>6, <2>7 DEF FrameInv
  <2>. QED BY <1>4, <2>2, <2>3, <2>8 DEF RingsInv
<1>. QED BY <1>5, <1>6

LEMMA RingsInit == W5100Init => RingsInv
<1>. SUFFICES ASSUME W5100Init PROVE RingsInv
  OBVIOUS
<1>0. SSize \in Nat /\ RSize \in Nat
  BY SizesAre
<1>1. TxInv
  <2>1. /\ txQ = << >> /\ txRd = 0 /\ txWr = 0 /\ txNew = 0 /\ offset = 0
    BY DEF W5100Init
  <2>2. txQ \in Seq(Payload) /\ Len(txQ) = 0
    BY <2>1
  <2>3. Fetched(txMem, SSize, txRd, Len(txQ)) = txQ
    BY <2>1, <2>2 DEF Fetched
  <2>4. txRd + (Len(txQ) - offset) = 0 /\ txRd + Len(txQ) = 0
    BY <2>1, <2>2
  <2>5. Same(PtrMod, 0, 0)
    BY DEF Same
  <2>6. 0 <= MaxDatagram /\ 0 \in 0 .. 0
    BY SizesAre
  <2>. QED BY <2>1, <2>2, <2>3, <2>4, <2>5, <2>6 DEF TxInv
<1>2. RxInv
  <2>1. /\ rxQ = << >> /\ rxRd = 0 /\ rxWr = 0 /\ rxFree = 0
    BY DEF W5100Init
  <2>2. rxQ \in Seq(Nat \X Nat) /\ Len(rxQ) = 0
    BY <2>1
  <2>3. Fetched(rxMem, RSize, rxRd, Len(rxQ)) = Firsts(rxQ)
    BY <2>1, <2>2 DEF Fetched, Firsts
  <2>4. rxRd + Len(rxQ) = 0
    BY <2>1, <2>2
  <2>5. Same(PtrMod, 0, 0)
    BY DEF Same
  <2>. QED BY <1>0, <2>1, <2>2, <2>3, <2>4, <2>5 DEF RxInv
<1>3. UdpInv
  <2>1. Len(<< >>) = 0 /\ 0 <= SSize
    BY <1>0
  <2>. QED BY <2>1 DEF W5100Init, UdpInv
<1>4. FrameInv
  <2>1. Len(rxQ) = 0 /\ remaining = 0
    BY DEF W5100Init
  <2>. QED BY <2>1 DEF FrameInv, Framed, Stands
<1>5. CallInv
  BY DEF W5100Init, CallInv, Reading
<1>. QED BY <1>1, <1>2, <1>3, <1>4, <1>5 DEF RingsInv

LEMMA RingsStep == ASSUME RingsInv, [W5100Next]_w5100Vars PROVE RingsInv'
<1>1. CASE W5100Next
  <2>1. CASE SketchStep
    <3>1. CASE ReadHigh \/ ReadLow1 \/ ReadLow2 \/ SendAgain
      BY <3>1, ReadStep
    <3>2. CASE SendCommand
      BY <3>2, SendCommandStep
    <3>3. CASE SendDone
      BY <3>3, SendDoneStep
    <3>4. CASE Buffer
      BY <3>4, BufferStep
    <3>5. CASE Recv
      BY <3>5, RecvStep
    <3>6. CASE Discard
      BY <3>6, DiscardStep
    <3>7. CASE Parse
      BY <3>7, ParseStep
    <3>. QED BY <2>1, <3>1, <3>2, <3>3, <3>4, <3>5, <3>6, <3>7 DEF SketchStep
  <2>2. CASE SketchCalls
    BY <2>2, BeginStep, EndPacketStep DEF SketchCalls
  <2>3. CASE Chip
    BY <2>3, DeliverStep, ReportSentStep, DropStep DEF Chip
  <2>4. CASE ArriveTcp \/ ArriveUdp
    BY <2>4, ArriveStep
  <2>5. CASE Fin
    BY <2>5, FinStep
  <2>. QED BY <1>1, <2>1, <2>2, <2>3, <2>4, <2>5 DEF W5100Next
<1>2. CASE UNCHANGED w5100Vars
  BY <1>2, FinStep
<1>. QED BY <1>1, <1>2

\* The rings hold what the calls accepted and what arrived, however the chip
\* moves its pointers while a size is read; a sketch that reads datagrams stands
\* where _remaining says (socket.cpp, w5100.cpp, EthernetUdp.cpp:118-150).  What
\* the transmit ring holds of a datagram longer than itself, which bufferData
\* lets grow, is not what was accepted.
THEOREM RingsAreSound == W5100Spec => []SocketsAreSound
<1>1. ASSUME RingsInv PROVE SocketsAreSound
  <2>1. TxInv /\ RxInv /\ FrameInv
    BY <1>1 DEF RingsInv
  <2>2. TxIsAccepted
    <3>1. /\ Len(txQ) \in Nat /\ Len(txQ) <= MaxDatagram /\ txNew \in Int /\ txRd \in Int
          /\ Same(PtrMod, txNew, txRd + Len(txQ))
          /\ Len(txQ) <= SSize => Fetched(txMem, SSize, txRd, Len(txQ)) = txQ
      BY <2>1, FreeIs DEF TxInv
    <3>2. Len(txQ) < PtrMod
      BY <3>1, SizesAre
    <3>3. Dist(txNew, txRd) = Len(txQ)
      BY <3>1, <3>2, Apart
    <3>. QED BY <3>1, <3>3 DEF TxIsAccepted
  <2>3. RxIsUnread
    BY <2>1, FilledIs DEF RxIsUnread, RxInv, Firsts
  <2>4. InFrame
    <3>1. rxQ \in Seq(Nat \X Nat) /\ Len(rxQ) \in Nat
      BY <2>1, FilledIs DEF RxInv
    <3>2. rxQ # << >> <=> Len(rxQ) > 0
      BY <3>1, EmptySeq
    <3>. QED BY <2>1, <3>2 DEF InFrame, FrameInv, Stands
  <2>. QED BY <2>2, <2>3, <2>4 DEF SocketsAreSound
<1>. QED BY <1>1, RingsInit, RingsStep, PTL DEF W5100Spec

-----------------------------------------------------------------------------
(* The boot loader caterina.                                               *)

(* A block on its way: the address is in its page, which is erased; no     *)
(* other page differs from what was sent; and the buffer holds what was    *)
(* sent for the page, unless the cable was pulled.                         *)
BlockOK ==
  left > 0 =>
    /\ PageOf(CurrAddress) = PageOf(start) /\ (CurrAddress % PageWords) + left <= PageWords
    /\ \A a \in FlashAddresses : PageOf(a) # PageOf(start) => flash[a] = intended[a]
    /\ \A a \in FlashAddresses : PageOf(a) = PageOf(start) =>
         flash[a] = Erased /\ (attached => intended[a] = fill[a % PageWords])

(* Between two blocks the buffer is empty. *)
BufferIsEmpty == left = 0 => fill = EmptyBuffer

(* The count is no further than the silence of the host, unless it said    *)
(* that it was done.                                                       *)
CountIsSilence ==
  /\ ~exited => Timeout <= quiet
  /\ ~RunBootloader => exited \/ quiet > TIMEOUT_PERIOD

CatInv == CaterinaTypeOK /\ BlockOK /\ BufferIsEmpty /\ FlashIsSent /\ CountIsSilence /\ (left > 0 => RunBootloader)

LEMMA WordsOfPages ==
  ASSUME NEW a \in FlashAddresses
  PROVE  /\ a % PageWords \in 0 .. PageWords - 1 /\ PageOf(a) \in Nat
         /\ a = PageOf(a) * PageWords + (a % PageWords)
<1>1. PageWords \in Nat /\ PageWords > 0 /\ a \in Nat
  BY CaterinaAssumption DEF FlashAddresses
<1>2. a = (a \div PageWords) * PageWords + (a % PageWords) /\ (a % PageWords) \in 0 .. PageWords - 1
  BY <1>1
<1>3. a \div PageWords \in Nat
  BY <1>1
<1>. QED BY <1>2, <1>3 DEF PageOf

(* Two words of a page are apart in the buffer. *)
LEMMA PlaceTells ==
  ASSUME NEW a \in FlashAddresses, NEW b \in FlashAddresses, PageOf(a) = PageOf(b)
  PROVE  a % PageWords = b % PageWords <=> a = b
BY WordsOfPages

(* The next word of a block is in the same page. *)
LEMMA NextWord ==
  ASSUME NEW a \in FlashAddresses, (a % PageWords) + 1 < PageWords
  PROVE  /\ a + 1 \in FlashAddresses /\ (a + 1) % (Pages * PageWords) = a + 1
         /\ PageOf(a + 1) = PageOf(a) /\ (a + 1) % PageWords = (a % PageWords) + 1
<1>. DEFINE p == PageOf(a)
            w == a % PageWords
<1>1. PageWords \in Nat /\ PageWords > 0 /\ Pages \in Nat /\ a \in Nat
  BY CaterinaAssumption DEF FlashAddresses
<1>2. p \in Nat /\ w \in 0 .. PageWords - 1 /\ w + 1 \in 0 .. PageWords - 1 /\ a = p * PageWords + w
  BY <1>1, WordsOfPages
<1>3. Pages * PageWords \in Nat /\ a < Pages * PageWords
  BY <1>1 DEF FlashAddresses
<1>4. p < Pages
  <2>. HIDE DEF p, w
  <2>1. p >= Pages => p * PageWords >= Pages * PageWords
    BY <1>1, <1>2
  <2>2. p * PageWords <= a
    BY <1>1, <1>2
  <2>3. p * PageWords \in Nat
    BY <1>1, <1>2
  <2>. QED BY <1>1, <1>2, <1>3, <2>1, <2>2, <2>3
<1>5. a + 1 < Pages * PageWords
  <2>. HIDE DEF p, w
  <2>1. (p + 1) * PageWords <= Pages * PageWords
    BY <1>1, <1>2, <1>4
  <2>2. (p + 1) * PageWords = p * PageWords + PageWords /\ p * PageWords \in Nat
    BY <1>1, <1>2
  <2>. QED BY <1>1, <1>2, <1>3, <2>1, <2>2
<1>6. (p * PageWords + (w + 1)) \div PageWords = p /\ (p * PageWords + (w + 1)) % PageWords = w + 1
  <2>. HIDE DEF p, w
  <2>. QED BY <1>1, <1>2
<1>7. a + 1 = p * PageWords + (w + 1)
  <2>. HIDE DEF p, w
  <2>1. p * PageWords \in Nat
    BY <1>1, <1>2
  <2>. QED BY <1>1, <1>2, <2>1
<1>8. (a + 1) % (Pages * PageWords) = a + 1
  <2>. DEFINE N == Pages * PageWords
  <2>1. N \in Nat /\ a + 1 \in 0 .. N - 1 /\ N > 0
    BY <1>1, <1>3, <1>5
  <2>. HIDE DEF N
  <2>2. (a + 1) % N = a + 1
    BY <2>1
  <2>. QED BY <2>2 DEF N
<1>. QED BY <1>1, <1>3, <1>5, <1>6, <1>7, <1>8 DEF PageOf, FlashAddresses

(* An address wraps at the end of the section. *)
LEMMA AddressWraps ==
  ASSUME NEW a \in FlashAddresses, NEW k \in Nat
  PROVE  (a + k) % (Pages * PageWords) \in FlashAddresses
<1>1. Pages \in Nat /\ Pages > 0 /\ PageWords \in Nat /\ PageWords > 0 /\ a \in Nat
  BY CaterinaAssumption DEF FlashAddresses
<1>. DEFINE N == Pages * PageWords
<1>2. N \in Nat /\ N > 0
  BY <1>1
<1>3. (a + k) % N \in 0 .. N - 1
  <2>. HIDE DEF N
  <2>. QED BY <1>1, <1>2
<1>. QED BY <1>3 DEF FlashAddresses

(* What was erased holds what is written. *)
LEMMA ErasedTakesAll == \A new : Written(Erased, new) = new
BY DEF Written

LEMMA CatStart == CaterinaInit => CatInv
<1>. SUFFICES ASSUME CaterinaInit PROVE CatInv
  OBVIOUS
<1>1. 0 \in FlashAddresses
  <2>1. Pages \in Nat /\ Pages > 0 /\ PageWords \in Nat /\ PageWords > 0
    BY CaterinaAssumption
  <2>2. Pages * PageWords > 0 /\ Pages * PageWords \in Nat
    BY <2>1
  <2>. QED BY <2>2 DEF FlashAddresses
<1>2. EmptyBuffer \in [0 .. PageWords - 1 -> Data \cup { Erased }]
  BY DEF EmptyBuffer
<1>3. PICK w \in Data \cup { Erased } : flash = [a \in FlashAddresses |-> w]
  BY DEF CaterinaInit
<1>4. /\ { PageWords, TIMEOUT_PERIOD, MaxCommands } \subseteq Nat
      /\ 0 \in 0 .. TIMEOUT_PERIOD + 1 /\ 0 \in 0 .. PageWords /\ 0 \in 0 .. MaxCommands
  BY CaterinaAssumption
<1>5. CaterinaTypeOK
  BY <1>1, <1>2, <1>3, <1>4 DEF CaterinaInit, CaterinaTypeOK
<1>6. BlockOK /\ BufferIsEmpty /\ FlashIsSent /\ CountIsSilence /\ (left > 0 => RunBootloader)
  BY DEF CaterinaInit, BlockOK, BufferIsEmpty, FlashIsSent, CountIsSilence
<1>. QED BY <1>5, <1>6 DEF CatInv

LEMMA CatStep == ASSUME CatInv, [CaterinaNext]_catVars PROVE CatInv'
<1>. USE CaterinaAssumption
<1>t. /\ CaterinaTypeOK /\ { TIMEOUT_PERIOD, PageWords } \subseteq Nat /\ PageWords > 0
      /\ Grace \in 0 .. TIMEOUT_PERIOD
  BY DEF CatInv
<1>1. CASE SetAddress
  BY <1>1, <1>t DEF SetAddress, Command, catTime, catMemory, CatInv, CaterinaTypeOK, BlockOK,
     BufferIsEmpty, FlashIsSent, CountIsSilence
<1>2. CASE EraseAll
  <2>1. /\ flash' = [a \in FlashAddresses |-> Erased] /\ intended' = flash' /\ left = 0 /\ commands' \in 0 .. MaxCommands
        /\ readable' = FALSE
        /\ UNCHANGED << RunBootloader, catTime, CurrAddress, fill, left, start, attached >>
    BY <1>2, <1>t DEF EraseAll, Command, CaterinaTypeOK
  <2>. QED BY <2>1, <1>t DEF catTime, CatInv, CaterinaTypeOK, BlockOK,
     BufferIsEmpty, FlashIsSent, CountIsSilence
<1>3. CASE Exit
  <2>1. TIMEOUT_PERIOD - Grace \in 0 .. TIMEOUT_PERIOD + 1
    BY <1>t
  <2>. QED BY <1>3, <1>t, <2>1 DEF Exit, Command, CatInv, CaterinaTypeOK, BlockOK,
     BufferIsEmpty, FlashIsSent, CountIsSilence
<1>4. CASE BlockWrite
  <2>1. /\ RunBootloader /\ left = 0 /\ attached /\ commands' \in 0 .. MaxCommands
        /\ left' \in 1 .. PageWords - (CurrAddress % PageWords) /\ start' = CurrAddress
        /\ flash' = boot_page_erase(CurrAddress, flash)
        /\ intended' = boot_page_erase(CurrAddress, intended)
        /\ Timeout' = 0 /\ quiet' = 0 /\ exited' = FALSE /\ timer' = FALSE /\ readable' = FALSE
        /\ UNCHANGED << RunBootloader, CurrAddress, fill, attached >>
    BY <1>4, <1>t DEF BlockWrite, Command, CaterinaTypeOK
  <2>2. CurrAddress \in FlashAddresses /\ CurrAddress % PageWords \in 0 .. PageWords - 1
    BY <1>t, WordsOfPages DEF CaterinaTypeOK
  <2>3. left' \in 1 .. PageWords /\ (CurrAddress % PageWords) + left' <= PageWords
    BY <1>t, <2>1, <2>2
  <2>4. fill = EmptyBuffer /\ \A a \in FlashAddresses : flash[a] = intended[a]
    BY <2>1 DEF CatInv, BufferIsEmpty, FlashIsSent
  <2>5. \A a \in FlashAddresses :
          /\ flash'[a] = IF PageOf(a) = PageOf(CurrAddress) THEN Erased ELSE flash[a]
          /\ intended'[a] = IF PageOf(a) = PageOf(CurrAddress) THEN Erased ELSE intended[a]
    BY <2>1 DEF boot_page_erase
  <2>6. BlockOK'
    <3>1. \A a \in FlashAddresses : fill[a % PageWords] = Erased
      BY <2>4, WordsOfPages DEF EmptyBuffer
    <3>. QED BY <2>1, <2>3, <2>4, <2>5, <3>1 DEF BlockOK
  <2>7. CaterinaTypeOK'
    <3>1. /\ flash' \in [FlashAddresses -> Data \cup { Erased, Mixed }]
          /\ intended' \in [FlashAddresses -> Data \cup { Erased }]
      BY <1>t, <2>1 DEF boot_page_erase, CaterinaTypeOK
    <3>2. 0 \in 0 .. TIMEOUT_PERIOD + 1 /\ left' \in 0 .. PageWords
      BY <1>t, <2>3
    <3>3. start' \in FlashAddresses /\ CurrAddress' \in FlashAddresses
      BY <2>1, <2>2
    <3>4. { timer', readable', exited', RunBootloader', attached' } \subseteq BOOLEAN
      BY <1>t, <2>1 DEF CaterinaTypeOK
    <3>5. fill' \in [0 .. PageWords - 1 -> Data \cup { Erased }]
      BY <1>t, <2>1 DEF CaterinaTypeOK
    <3>. QED BY <2>1, <3>1, <3>2, <3>3, <3>4, <3>5 DEF CaterinaTypeOK
  <2>8. BufferIsEmpty' /\ FlashIsSent' /\ CountIsSilence' /\ (left > 0 => RunBootloader)'
    BY <1>t, <2>1, <2>3 DEF BufferIsEmpty, FlashIsSent, CountIsSilence
  <2>. QED BY <2>6, <2>7, <2>8 DEF CatInv
<1>5. CASE BlockWord
  <2>. DEFINE place == CurrAddress % PageWords
              page == PageOf(start)
  <2>1. PICK w \in Data :
          LET buffer == [fill EXCEPT ![place] = w] IN
          /\ intended' = IF attached THEN [intended EXCEPT ![CurrAddress] = w] ELSE intended
          /\ left = 1 => flash' = boot_page_write(start, flash, buffer) /\ fill' = EmptyBuffer
          /\ left # 1 => fill' = buffer /\ flash' = flash
    BY <1>5 DEF BlockWord
  <2>2. /\ left > 0 /\ left' = left - 1 /\ timer' = (left = 1)
        /\ CurrAddress' = (CurrAddress + 1) % (Pages * PageWords)
        /\ UNCHANGED << RunBootloader, Timeout, quiet, exited, readable, start, attached, commands >>
    BY <1>5 DEF BlockWord
  <2>3. /\ CurrAddress \in FlashAddresses /\ start \in FlashAddresses
        /\ left \in 1 .. PageWords /\ fill \in [0 .. PageWords - 1 -> Data \cup { Erased }]
        /\ flash \in [FlashAddresses -> Data \cup { Erased, Mixed }]
        /\ intended \in [FlashAddresses -> Data \cup { Erased }]
    BY <1>t, <2>2 DEF CaterinaTypeOK
  <2>4. place \in 0 .. PageWords - 1
    BY <2>3, WordsOfPages
  <2>5. /\ PageOf(CurrAddress) = page /\ place + left <= PageWords
        /\ \A a \in FlashAddresses : PageOf(a) # page => flash[a] = intended[a]
        /\ \A a \in FlashAddresses : PageOf(a) = page =>
             flash[a] = Erased /\ (attached => intended[a] = fill[a % PageWords])
    BY <2>2 DEF CatInv, BlockOK
  <2>. DEFINE buffer == [fill EXCEPT ![place] = w]
  <2>6. buffer \in [0 .. PageWords - 1 -> Data \cup { Erased }]
    BY <2>3
  <2>7. intended' \in [FlashAddresses -> Data \cup { Erased }]
    BY <2>1, <2>3
  <2>8. /\ \A a \in FlashAddresses : PageOf(a) # page => intended'[a] = intended[a]
        /\ attached => \A a \in FlashAddresses : PageOf(a) = page => intended'[a] = buffer[a % PageWords]
    <3>1. \A a \in FlashAddresses : a # CurrAddress => intended'[a] = intended[a]
      BY <2>1, <2>3
    <3>2. attached => intended'[CurrAddress] = w /\ buffer[place] = w
      BY <2>1, <2>3, <2>4
    <3>3. \A a \in FlashAddresses : PageOf(a) = page /\ a # CurrAddress =>
            a % PageWords # place /\ a % PageWords \in 0 .. PageWords - 1
      BY <2>3, <2>5, PlaceTells, WordsOfPages
    <3>4. \A a \in FlashAddresses : PageOf(a) = page /\ a # CurrAddress =>
            buffer[a % PageWords] = fill[a % PageWords]
      BY <2>3, <3>3
    <3>. QED BY <2>5, <3>1, <3>2, <3>4
  <2>9. CurrAddress' \in FlashAddresses
    BY <2>2, <2>3, AddressWraps
  <2>10. left' \in 0 .. PageWords
    BY <1>t, <2>2, <2>3
  <2>. HIDE DEF buffer
  <2>11. CASE left = 1
    <3>1. flash' = boot_page_write(start, flash, buffer) /\ fill' = EmptyBuffer /\ left' = 0
      BY <2>1, <2>2, <2>11 DEF buffer
    <3>2. \A a \in FlashAddresses :
             flash'[a] = IF PageOf(a) = page THEN buffer[a % PageWords] ELSE flash[a]
      BY <2>5, <3>1, ErasedTakesAll DEF boot_page_write
    <3>3. \A a \in FlashAddresses : buffer[a % PageWords] \in Data \cup { Erased }
      BY <2>6, WordsOfPages
    <3>4. flash' \in [FlashAddresses -> Data \cup { Erased, Mixed }]
      <4>1. DOMAIN flash' = FlashAddresses /\ flash' = [a \in FlashAddresses |-> flash'[a]]
        BY <3>1 DEF boot_page_write
      <4>2. \A a \in FlashAddresses : flash'[a] \in Data \cup { Erased, Mixed }
        BY <2>3, <3>2, <3>3
      <4>. QED BY <4>1, <4>2
    <3>5. EmptyBuffer \in [0 .. PageWords - 1 -> Data \cup { Erased }]
      BY DEF EmptyBuffer
    <3>6. CaterinaTypeOK'
      BY <1>t, <2>2, <2>7, <2>9, <2>10, <3>1, <3>4, <3>5 DEF CaterinaTypeOK
    <3>7. FlashIsSent'
      BY <2>2, <2>5, <2>8, <3>2 DEF FlashIsSent
    <3>. QED BY <2>2, <3>1, <3>6, <3>7 DEF CatInv, BlockOK, BufferIsEmpty, CountIsSilence
  <2>12. CASE left # 1
    <3>1. flash' = flash /\ fill' = buffer /\ left' > 0
      BY <2>1, <2>2, <2>3, <2>12 DEF buffer
    <3>2. place + 1 < PageWords
      BY <1>t, <2>3, <2>4, <2>5, <2>12
    <3>3. CurrAddress' = CurrAddress + 1 /\ PageOf(CurrAddress') = page /\ CurrAddress' % PageWords = place + 1
      BY <2>2, <2>3, <2>5, <3>2, NextWord
    <3>4. (CurrAddress' % PageWords) + left' <= PageWords
      BY <1>t, <2>2, <2>3, <2>4, <2>5, <3>3
    <3>5. BlockOK'
      BY <2>2, <2>5, <2>8, <3>1, <3>3, <3>4 DEF BlockOK
    <3>6. CaterinaTypeOK'
      BY <1>t, <2>2, <2>6, <2>7, <2>9, <2>10, <3>1 DEF CaterinaTypeOK
    <3>. QED BY <2>2, <3>1, <3>5, <3>6, <2>10 DEF CatInv, BufferIsEmpty, FlashIsSent, CountIsSilence
  <2>. QED BY <2>11, <2>12
<1>6. CASE BlockRead
  <2>1. CurrAddress' \in FlashAddresses
    <3>1. PICK size \in 1 .. PageWords : CurrAddress' = (CurrAddress + size) % (Pages * PageWords)
      BY <1>6 DEF BlockRead
    <3>. QED BY <1>t, <3>1, AddressWraps DEF CaterinaTypeOK
  <2>2. /\ left = 0 /\ RunBootloader /\ commands' \in 0 .. MaxCommands
        /\ Timeout' = 0 /\ quiet' = 0 /\ exited' = FALSE /\ readable' = TRUE
        /\ UNCHANGED << RunBootloader, timer, flash, fill, intended, left, start, attached >>
    BY <1>6, <1>t DEF BlockRead, Command, CaterinaTypeOK
  <2>3. 0 \in 0 .. TIMEOUT_PERIOD + 1
    BY <1>t
  <2>4. CaterinaTypeOK'
    BY <1>t, <2>1, <2>2, <2>3 DEF CaterinaTypeOK
  <2>. QED BY <2>2, <2>4 DEF CatInv, BlockOK, BufferIsEmpty, FlashIsSent, CountIsSilence
<1>7. CASE TimerTick
  <2>1. /\ RunBootloader /\ Timeout <= TIMEOUT_PERIOD
        /\ Timeout' \in { Timeout, Timeout + 1 }
        /\ quiet' = IF quiet <= TIMEOUT_PERIOD THEN quiet + 1 ELSE quiet
        /\ UNCHANGED << RunBootloader, timer, exited, CurrAddress, catMemory, left, start, attached, commands >>
    BY <1>7 DEF TimerTick
  <2>2. /\ Timeout' \in 0 .. TIMEOUT_PERIOD + 1 /\ quiet' \in 0 .. TIMEOUT_PERIOD + 1
        /\ Timeout <= quiet => Timeout' <= quiet'
    BY <1>t, <2>1 DEF CaterinaTypeOK
  <2>. QED BY <1>t, <2>1, <2>2 DEF catMemory, CatInv, CaterinaTypeOK, BlockOK,
     BufferIsEmpty, FlashIsSent, CountIsSilence
<1>8. CASE TimesOut
  <2>1. /\ left = 0 /\ Timeout > TIMEOUT_PERIOD /\ RunBootloader' = FALSE
        /\ UNCHANGED << catTime, CurrAddress, catMemory, left, start, attached, commands >>
    BY <1>8 DEF TimesOut
  <2>2. ~exited => quiet > TIMEOUT_PERIOD
    BY <1>t, <2>1 DEF CaterinaTypeOK, CatInv, CountIsSilence
  <2>3. CaterinaTypeOK'
    BY <1>t, <2>1 DEF catTime, catMemory, CaterinaTypeOK
  <2>. QED BY <2>1, <2>2, <2>3 DEF catTime, catMemory, CatInv, BlockOK, BufferIsEmpty,
     FlashIsSent, CountIsSilence
<1>9. CASE Unplug
  BY <1>9, <1>t DEF Unplug, catTime, catMemory, CatInv, CaterinaTypeOK, BlockOK,
     BufferIsEmpty, FlashIsSent, CountIsSilence
<1>10. CASE UNCHANGED catVars
  BY <1>10, <1>t DEF catVars, catTime, catMemory, CatInv, CaterinaTypeOK, BlockOK,
     BufferIsEmpty, FlashIsSent, CountIsSilence
<1>. QED BY <1>1, <1>2, <1>3, <1>4, <1>5, <1>6, <1>7, <1>8, <1>9, <1>10 DEF CaterinaNext

(* Between blocks flash holds what the host sent, though a block begins    *)
(* anywhere in a page and the cable may be pulled; and the sketch starts   *)
(* only when the host was silent for the whole period or said that it was  *)
(* done (Caterina.c:157, :343-382): for any number of pages of any size,   *)
(* every data, period and host.                                            *)
THEOREM LoaderIsSound == CaterinaSpec => [](FlashIsSent /\ StartsWhenQuiet)
<1>1. CatInv => FlashIsSent /\ StartsWhenQuiet
  BY DEF CatInv, CountIsSilence, StartsWhenQuiet
<1>. QED BY <1>1, CatStart, CatStep, PTL DEF CaterinaSpec

-----------------------------------------------------------------------------
(* The boot loader optiboot.                                               *)

(* What comes as an argument.                                              *)
OptChars == { "CRC_EOP", "any", "E", "F" } \cup Commands \cup PageLengths \cup PageStarts \cup AppWords

(* The arguments of a command as far as they have come: the first is the   *)
(* length of the page, and the words of a page are in the buffer.          *)
ArgsOK ==
  /\ args \in Seq(OptChars)
  /\ command # "none" => Len(args) <= Needs(command, args)
  /\ command \in { "PROG_PAGE", "READ_PAGE" } /\ args # NoArgs => args[1] \in PageLengths
  /\ command = "PROG_PAGE" => \A i \in 0 .. Len(args) - 3 : buff[i] \in AppWords

(* The buffer: the loader's jump is in it only where it was patched in.    *)
BufferOK ==
  /\ buff \in [0 .. PageSize - 1 -> AppWords \cup { Loader, Unset }]
  /\ \A i \in 1 .. PageSize - 1 : buff[i] \in AppWords \cup { Unset }

(* A page on its way to flash: its words have come, those of the first     *)
(* page are patched, and nothing is promised of the two vectors.           *)
UnderWay ==
  optPc \in { "erase", "write" } =>
    /\ args # NoArgs /\ args[1] \in PageLengths
    /\ \A i \in 0 .. args[1].length - 1 : buff[i] \in AppWords \/ (i = 0 /\ address = 0)
    /\ address = 0 =>
         /\ buff[0] = Loader /\ buff[save_vect_num] = rstVect /\ rstVect \in AppWords
         /\ programmed[0] = Unset /\ programmed[save_vect_num] = Unset

(* Flash holds what was programmed, whatever the loader is doing, and RAM  *)
(* the vectors, unless it was lost.                                        *)
FlashFollows ==
  \A a \in Cells : programmed[a] # Unset =>
    cells[a] = CASE a = 0 -> Loader
                 [] a = save_vect_num -> programmed[0]
                 [] OTHER -> programmed[a]
VectorsFollow ==
  /\ programmed[0] # Unset => rstVect \in { programmed[0], Unset }
  /\ programmed[save_vect_num] # Unset =>
       programmed[0] # Unset /\ saveVect \in { programmed[save_vect_num], Unset }

OptInv ==
  /\ OptTypeOK /\ address \in PageStarts /\ programmed \in [Cells -> AppWords \cup { Unset }]
  /\ ArgsOK /\ BufferOK /\ UnderWay /\ FlashFollows /\ VectorsFollow
  /\ LoaderIsKept /\ ~misread

LEMMA DivisionIs ==
  ASSUME NEW N \in Nat, N > 0, NEW q \in Int, NEW r \in 0 .. N - 1
  PROVE  (q * N + r) \div N = q /\ (q * N + r) % N = r
OBVIOUS

LEMMA DivisionOf ==
  ASSUME NEW N \in Nat, N > 0, NEW x \in Int
  PROVE  x = (x \div N) * N + (x % N) /\ (x \div N) \in Int /\ (x % N) \in 0 .. N - 1
OBVIOUS

(* The two vectors lie in the first page, and a page begins at a multiple  *)
(* of its size.                                                            *)
LEMMA TheVectors ==
  /\ 0 \in Cells /\ save_vect_num \in Cells /\ 0 \in PageStarts /\ save_vect_num # 0
  /\ 0 \in 0 .. PageSize - 1 /\ save_vect_num \in 0 .. PageSize - 1
  /\ Page(0) = 0 /\ Page(save_vect_num) = 0
  /\ 0 % PageSize = 0 /\ save_vect_num % PageSize = save_vect_num
<1>1. /\ PageSize \in Nat /\ PageSize > 0 /\ LastPage \in Nat
      /\ save_vect_num \in Nat /\ save_vect_num # 0 /\ save_vect_num < PageSize
  BY OptibootAssumption
<1>2. PageSize <= (LastPage + 1) * PageSize /\ (LastPage + 1) * PageSize \in Nat
  BY <1>1
<1>3. 0 = 0 * PageSize + 0 /\ save_vect_num = 0 * PageSize + save_vect_num
  BY <1>1
<1>4. /\ 0 \div PageSize = 0 /\ save_vect_num \div PageSize = 0
      /\ 0 % PageSize = 0 /\ save_vect_num % PageSize = save_vect_num
  BY <1>1, <1>3, DivisionIs
<1>5. 0 \in PageStarts
  BY <1>1, <1>3 DEF PageStarts
<1>. QED BY <1>1, <1>2, <1>4, <1>5 DEF Cells, Page

LEMMA StartIsCell ==
  ASSUME NEW s \in PageStarts
  PROVE  s \in Cells /\ (s # 0 => Page(s) # 0)
<1>1. PageSize \in Nat /\ PageSize > 0 /\ LastPage \in Nat
  BY OptibootAssumption
<1>2. PICK p \in 0 .. LastPage : s = p * PageSize
  BY DEF PageStarts
<1>3. p * PageSize + PageSize = (p + 1) * PageSize
  BY <1>1
<1>4. (p + 1) * PageSize <= (LastPage + 1) * PageSize /\ (LastPage + 1) * PageSize \in Int
  BY <1>1
<1>5. p * PageSize \in Nat
  BY <1>1
<1>6. s \in Cells
  BY <1>1, <1>2, <1>3, <1>4, <1>5 DEF Cells
<1>7. s \div PageSize = p
  <2>1. s = p * PageSize + 0
    BY <1>2, <1>5
  <2>. QED BY <1>1, <2>1, DivisionIs
<1>. QED BY <1>1, <1>2, <1>6, <1>7 DEF Page

LEMMA CellsOfPages ==
  ASSUME NEW a \in Cells
  PROVE  /\ a % PageSize \in 0 .. PageSize - 1
         /\ Page(a) = 0 => a % PageSize = a
<1>1. PageSize \in Nat /\ PageSize > 0 /\ a \in Int
  BY OptibootAssumption DEF Cells
<1>2. a = (a \div PageSize) * PageSize + (a % PageSize) /\ (a % PageSize) \in 0 .. PageSize - 1
  BY <1>1, DivisionOf
<1>3. a \div PageSize = 0 => a = a % PageSize
  BY <1>1, <1>2
<1>. QED BY <1>2, <1>3 DEF Page

-----------------------------------------------------------------------------
(* A character.                                                            *)

(* What may come where an argument is due.                                 *)
LEMMA ArgumentIs ==
  ASSUME OptInv, command # "none", ~AtSpace, NEW char \in Expected
  PROVE  /\ char \in OptChars
         /\ Len(args) < Needs(command, args)
         /\ command \in { "PROG_PAGE", "READ_PAGE" } /\ args = NoArgs => char \in PageLengths
         /\ command = "PROG_PAGE" /\ Len(args) >= 2 =>
              char \in AppWords /\ Len(args) - 2 \in 0 .. PageSize - 1
         /\ command = "LOAD_ADDRESS" => char \in PageStarts
<1>1. args \in Seq(OptChars) /\ Len(args) \in Nat /\ (args = NoArgs <=> Len(args) = 0)
  BY DEF OptInv, ArgsOK, NoArgs
<1>2. command \in Commands
  BY DEF OptInv, OptTypeOK
<1>3. command \in { "PROG_PAGE", "READ_PAGE" } /\ args # NoArgs => args[1].length \in 1 .. PageSize
  BY DEF OptInv, ArgsOK, PageLengths
<1>4. PageSize \in Nat
  BY OptibootAssumption
<1>5. Needs(command, args) \in Nat
  BY <1>1, <1>3, <1>4 DEF Needs
<1>6. Len(args) < Needs(command, args)
  BY <1>1, <1>5 DEF AtSpace, OptInv, ArgsOK
<1>7. command = "PROG_PAGE" /\ Len(args) >= 2 => Len(args) - 2 \in 0 .. PageSize - 1
  BY <1>1, <1>3, <1>4, <1>6 DEF Needs
<1>8. /\ command \in { "PROG_PAGE", "READ_PAGE" } /\ args = NoArgs => char \in PageLengths
      /\ command = "PROG_PAGE" /\ Len(args) >= 2 => char \in AppWords
      /\ char \in { "any", "E", "F" } \cup PageLengths \cup PageStarts \cup AppWords
      /\ command = "LOAD_ADDRESS" => char \in PageStarts
      /\ command \notin { "PROG_PAGE", "READ_PAGE", "LOAD_ADDRESS" } => char = "any"
  <2>1. CASE command \in { "PROG_PAGE", "READ_PAGE" } /\ args = NoArgs
    <3>0. Len(args) # 1 /\ ~(Len(args) > 1)
      BY <1>1, <2>1
    <3>1. char \in PageLengths
      BY <2>1, <3>0 DEF Expected
    <3>. QED BY <1>1, <2>1, <3>1
  <2>2. CASE command \in { "PROG_PAGE", "READ_PAGE" } /\ Len(args) = 1
    <3>1. args # NoArgs
      BY <1>1, <2>2
    <3>2. char \in { "F", "E" }
      BY <2>2, <3>1 DEF Expected
    <3>. QED BY <2>2, <3>1, <3>2
  <2>3. CASE command \in { "PROG_PAGE", "READ_PAGE" } /\ Len(args) \notin { 0, 1 }
    <3>0. Len(args) # 0 /\ Len(args) # 1 /\ Len(args) \in Nat /\ args # NoArgs
      BY <1>1, <2>3
    <3>. DEFINE k == Len(args)
    <3>1. k > 1
      <4>1. k # 0 /\ k # 1 /\ k \in Nat
        BY <3>0
      <4>. HIDE DEF k
      <4>. QED BY <4>1
    <3>2. command = "READ_PAGE" => Needs(command, args) = 2
      BY DEF Needs
    <3>3. command = "PROG_PAGE"
      BY <1>6, <2>3, <3>0, <3>1, <3>2
    <3>4. char \in AppWords
      BY <3>0, <3>1, <3>3 DEF Expected
    <3>. QED BY <3>0, <3>1, <3>3, <3>4
  <2>4. CASE command \notin { "PROG_PAGE", "READ_PAGE" }
    BY <2>4 DEF Expected
  <2>. QED BY <1>1, <2>1, <2>2, <2>3, <2>4
<1>9. char \in OptChars
  BY <1>8 DEF OptChars
<1>. QED BY <1>6, <1>7, <1>8, <1>9

LEMMA Periods ==
  ASSUME OptInv, NEW char, TakeChar(char)
  PROVE  /\ period' \in { WATCHDOG_1S, WATCHDOG_16MS }
         /\ period' \in 1 .. WATCHDOG_1S /\ wdtLeft \in 1 .. WATCHDOG_1S
<1>1. period' \in { period, WATCHDOG_16MS }
  BY DEF TakeChar
<1>. QED BY <1>1, OptibootAssumption DEF OptInv, OptTypeOK

(* Of the invariant, what the counts and the watchdog have no part in.     *)
Kept ==
  /\ optPc \in { "boot", "stuck", "erase", "write", "app" } /\ command \in Commands \cup { "none" }
  /\ Len(args) <= 2 + PageSize
  /\ cells \in [Cells -> AppWords \cup { Loader, Blank }]
  /\ { rstVect, saveVect } \subseteq AppWords \cup { Unset }
  /\ address \in PageStarts /\ programmed \in [Cells -> AppWords \cup { Unset }]
  /\ ArgsOK /\ BufferOK /\ UnderWay /\ FlashFollows /\ VectorsFollow
  /\ LoaderIsKept /\ misread = FALSE

LEMMA KeptIs ==
  OptInv <=> /\ Kept /\ wdtLeft \in 1 .. WATCHDOG_1S
             /\ period \in { WATCHDOG_1S, WATCHDOG_16MS }
BY StartIsCell DEF OptInv, OptTypeOK, Kept

(* The first character of a command. *)
LEMMA CommandComes ==
  ASSUME OptInv, NEW char, TakeChar(char), command = "none", optPc = "boot", cells' = cells
  PROVE  Kept'
<1>1. /\ command' \in Commands /\ args' = NoArgs
      /\ UNCHANGED << optPc, address, buff, rstVect, saveVect, programmed, misread, cells >>
  BY DEF TakeChar, Commands
<1>2. NoArgs \in Seq(OptChars) /\ Len(NoArgs) = 0
  BY DEF NoArgs
<1>3. 0 <= Needs(command', NoArgs) /\ 0 <= 2 + PageSize
  BY <1>1, OptibootAssumption DEF Needs, Commands
<1>4. ArgsOK'
  BY <1>1, <1>2, <1>3 DEF ArgsOK
<1>5. (BufferOK /\ FlashFollows /\ VectorsFollow /\ LoaderIsKept)' /\ UnderWay'
  BY <1>1 DEF OptInv, BufferOK, FlashFollows, VectorsFollow, LoaderIsKept, UnderWay
<1>. QED BY <1>1, <1>2, <1>3, <1>4, <1>5, KeptIs DEF Kept

(* An argument. *)
LEMMA ArgumentComes ==
  ASSUME OptInv, NEW char \in Expected, TakeChar(char), command # "none", ~AtSpace,
         optPc = "boot", cells' = cells
  PROVE  Kept'
<1>. DEFINE place == Len(args) - 2
<1>1. /\ args \in Seq(OptChars) /\ Len(args) \in Nat /\ (args = NoArgs <=> Len(args) = 0)
      /\ command \in Commands
  BY DEF OptInv, OptTypeOK, ArgsOK, NoArgs
<1>2. /\ char \in OptChars
      /\ Len(args) < Needs(command, args)
      /\ command \in { "PROG_PAGE", "READ_PAGE" } /\ args = NoArgs => char \in PageLengths
      /\ command = "PROG_PAGE" /\ Len(args) >= 2 => char \in AppWords /\ place \in 0 .. PageSize - 1
      /\ command = "LOAD_ADDRESS" => char \in PageStarts
  BY ArgumentIs
<1>3. /\ args' = Append(args, char)
      /\ address' = IF command = "LOAD_ADDRESS" THEN char ELSE address
      /\ buff' = IF command = "PROG_PAGE" /\ Len(args) >= 2 THEN [buff EXCEPT ![place] = char] ELSE buff
      /\ UNCHANGED << optPc, command, rstVect, saveVect, programmed, misread, cells >>
  BY <1>2 DEF TakeChar
<1>4. /\ args' \in Seq(OptChars) /\ Len(args') = Len(args) + 1
      /\ args'[1] = IF args = NoArgs THEN char ELSE args[1]
  <2>1. \A i \in 1 .. Len(args) : args'[i] = args[i]
    BY <1>1, <1>2, <1>3, AppendProperties
  <2>2. args' \in Seq(OptChars) /\ Len(args') = Len(args) + 1 /\ args'[Len(args) + 1] = char
    BY <1>1, <1>2, <1>3, AppendProperties
  <2>. QED BY <1>1, <2>1, <2>2
<1>5. address' \in PageStarts
  BY <1>2, <1>3 DEF OptInv
<1>6. BufferOK'
  BY <1>2, <1>3 DEF OptInv, BufferOK
<1>7. command \in { "PROG_PAGE", "READ_PAGE" } => args'[1] \in PageLengths
  BY <1>2, <1>4 DEF OptInv, ArgsOK
<1>8. Len(args') <= Needs(command, args') /\ Len(args') <= 2 + PageSize
  <2>1. CASE command = "PROG_PAGE"
    <3>1. args'[1].length \in 1 .. PageSize
      BY <1>7, <2>1 DEF PageLengths
    <3>2. args' # NoArgs
      BY <1>1, <1>4 DEF NoArgs
    <3>3. Needs(command, args') = 2 + args'[1].length
      BY <2>1, <3>2 DEF Needs
    <3>4. args # NoArgs => Needs(command, args) = 2 + args'[1].length
      BY <1>4, <2>1 DEF Needs
    <3>. QED BY <1>1, <1>2, <1>4, <3>1, <3>3, <3>4, OptibootAssumption
  <2>2. CASE command # "PROG_PAGE"
    <3>1. Needs(command, args') = Needs(command, args) /\ Needs(command, args) \in 0 .. 2
      BY <1>1, <2>2 DEF Needs, Commands
    <3>. QED BY <1>1, <1>2, <1>4, <3>1, OptibootAssumption
  <2>. QED BY <2>1, <2>2
<1>9. ASSUME command = "PROG_PAGE", NEW i \in 0 .. Len(args') - 3 PROVE buff'[i] \in AppWords
  <2>1. Len(args) >= 2 /\ place \in 0 .. PageSize - 1 /\ char \in AppWords /\ i \in 0 .. place
    BY <1>1, <1>2, <1>4, <1>9
  <2>2. buff' = [buff EXCEPT ![place] = char] /\ DOMAIN buff = 0 .. PageSize - 1
    BY <1>3, <1>9, <2>1 DEF OptInv, BufferOK
  <2>3. CASE i = place
    BY <2>1, <2>2, <2>3
  <2>4. CASE i # place
    <3>1. i \in 0 .. Len(args) - 3
      BY <1>1, <2>1, <2>4
    <3>2. buff[i] \in AppWords
      BY <1>9, <3>1 DEF OptInv, ArgsOK
    <3>. QED BY <2>1, <2>2, <2>4, <3>2
  <2>. QED BY <2>3, <2>4
<1>10. ArgsOK'
  BY <1>3, <1>4, <1>7, <1>8, <1>9 DEF ArgsOK
<1>11. (FlashFollows /\ VectorsFollow /\ LoaderIsKept)' /\ UnderWay'
  BY <1>3 DEF OptInv, FlashFollows, VectorsFollow, LoaderIsKept, UnderWay
<1>. QED BY <1>1, <1>3, <1>5, <1>6, <1>8, <1>10, <1>11, KeptIs DEF Kept

(* A verify reads what was programmed. *)
LEMMA ReadsAreTrue == ASSUME OptInv, ReadPage PROVE misread' = FALSE
<1>1. ASSUME NEW a \in Cells, programmed[a] # Unset PROVE ReadWord(a) \in { programmed[a], Unset }
  <2>1. CASE a = 0
    BY <1>1, <2>1 DEF OptInv, VectorsFollow, ReadWord
  <2>2. CASE a = save_vect_num
    BY <1>1, <2>2, TheVectors DEF OptInv, VectorsFollow, ReadWord
  <2>3. CASE a # 0 /\ a # save_vect_num
    BY <1>1, <2>3 DEF OptInv, FlashFollows, ReadWord
  <2>. QED BY <2>1, <2>2, <2>3
<1>. QED BY <1>1 DEF ReadPage, OptInv

(* A page is patched: flash is not touched, and nothing more is promised   *)
(* of the vectors.                                                         *)
LEMMA PageComes ==
  ASSUME OptInv, command = "PROG_PAGE", AtSpace, ProgPage,
         args' = args, command' = "none", address' = address, cells' = cells
  PROVE  Kept'
<1>1. /\ args \in Seq(OptChars) /\ Len(args) \in Nat /\ args # NoArgs /\ args[1] \in PageLengths
      /\ args[1].length \in 1 .. PageSize /\ Len(args) = 2 + args[1].length
  <2>1. args \in Seq(OptChars) /\ Len(args) \in Nat /\ (args = NoArgs <=> Len(args) = 0)
    BY DEF OptInv, ArgsOK, NoArgs
  <2>2. args # NoArgs
    BY <2>1 DEF AtSpace, Needs
  <2>. QED BY <2>1, <2>2 DEF AtSpace, Needs, OptInv, ArgsOK, PageLengths
<1>2. \A i \in 0 .. args[1].length - 1 : buff[i] \in AppWords
  BY <1>1 DEF OptInv, ArgsOK
<1>3. /\ PageSize \in Nat /\ save_vect_num \in 1 .. PageSize - 1
      /\ 0 \in 0 .. PageSize - 1 /\ 0 \in 0 .. args[1].length - 1
  BY SMTT(40), <1>1, OptibootAssumption
<1>4. /\ optPc' \in { "stuck", "erase" } /\ misread' = misread
      /\ buff' = Patched(buff)
      /\ address = 0 => rstVect' = buff[0] /\ saveVect' = buff[save_vect_num]
      /\ address # 0 => rstVect' = rstVect /\ saveVect' = saveVect
      /\ programmed' = IF address = 0 THEN [programmed EXCEPT ![0] = Unset, ![save_vect_num] = Unset]
                       ELSE programmed
  BY DEF ProgPage
<1>5. buff \in [0 .. PageSize - 1 -> AppWords \cup { Loader, Unset }]
      /\ \A i \in 1 .. PageSize - 1 : buff[i] \in AppWords \cup { Unset }
  BY DEF OptInv, BufferOK
<1>6. /\ address # 0 => buff' = buff
      /\ address = 0 =>
           buff' = [i \in 0 .. PageSize - 1 |->
                      IF i = 0 THEN Loader ELSE IF i = save_vect_num THEN buff[0] ELSE buff[i]]
  BY <1>4, <1>5 DEF Patched
<1>7. buff[0] \in AppWords /\ buff[save_vect_num] \in AppWords \cup { Unset }
  BY <1>2, <1>3, <1>5
<1>8. { rstVect', saveVect' } \subseteq AppWords \cup { Unset }
  BY <1>4, <1>7 DEF OptInv, OptTypeOK
<1>9. programmed' \in [Cells -> AppWords \cup { Unset }]
  BY <1>4 DEF OptInv
<1>10. BufferOK'
  <2>1. CASE address = 0
    BY <1>3, <1>5, <1>6, <1>7, <2>1 DEF BufferOK
  <2>2. CASE address # 0
    BY <1>5, <1>6, <2>2 DEF BufferOK
  <2>. QED BY <2>1, <2>2
<1>11. address = 0 => /\ programmed'[0] = Unset /\ programmed'[save_vect_num] = Unset
                      /\ \A a \in Cells : a # 0 /\ a # save_vect_num => programmed'[a] = programmed[a]
  BY <1>4, TheVectors DEF OptInv
<1>12. FlashFollows'
  <2>1. CASE address = 0
    BY <1>11, <2>1 DEF OptInv, FlashFollows
  <2>2. CASE address # 0
    BY <1>4, <2>2 DEF OptInv, FlashFollows
  <2>. QED BY <2>1, <2>2
<1>13. VectorsFollow'
  BY <1>4, <1>11 DEF OptInv, VectorsFollow
<1>14. UnderWay'
  <2>1. CASE address = 0
    <3>1. buff'[0] = Loader /\ buff'[save_vect_num] = buff[0]
      BY <1>3, <1>6, <2>1
    <3>2. \A i \in 0 .. args[1].length - 1 : i # 0 => buff'[i] \in AppWords
      BY SMTT(40), <1>1, <1>2, <1>3, <1>6, <1>7, <2>1
    <3>. QED BY <1>1, <1>4, <1>7, <1>11, <2>1, <3>1, <3>2 DEF UnderWay
  <2>2. CASE address # 0
    BY <1>1, <1>2, <1>6, <2>2, SMTT(30) DEF UnderWay
  <2>. QED BY <2>1, <2>2
<1>15. ArgsOK'
  BY <1>1 DEF ArgsOK
<1>16. Kept
  BY KeptIs
<1>17. Len(args') <= 2 + PageSize /\ LoaderIsKept'
  BY <1>16 DEF Kept, LoaderIsKept
<1>18. cells' \in [Cells -> AppWords \cup { Loader, Blank }] /\ address' \in PageStarts
       /\ optPc' \in { "boot", "stuck", "erase", "write", "app" } /\ misread' = FALSE
  BY <1>4, <1>16 DEF Kept
<1>. QED BY <1>8, <1>9, <1>10, <1>12, <1>13, <1>14, <1>15, <1>17, <1>18 DEF Kept

(* The character after the arguments. *)
LEMMA SpaceComes ==
  ASSUME OptInv, NEW char, TakeChar(char), AtSpace, optPc = "boot", cells' = cells
  PROVE  Kept'
<1>1. command # "none" /\ ~(Len(args) < Needs(command, args))
  <2>1. Len(args) \in Nat /\ Len(args) = Needs(command, args)
    BY DEF OptInv, ArgsOK, AtSpace
  <2>. QED BY <2>1 DEF AtSpace
<1>2. command' = "none" /\ args' = args /\ address' = address
  BY <1>1 DEF TakeChar
<1>3. ArgsOK'
  BY <1>2 DEF OptInv, ArgsOK
<1>4. CASE char = "CRC_EOP" /\ command = "PROG_PAGE"
  BY <1>1, <1>2, <1>4, PageComes DEF TakeChar, Execute
<1>5. CASE ~(char = "CRC_EOP" /\ command = "PROG_PAGE")
  <2>1. /\ UNCHANGED << buff, rstVect, saveVect, programmed >>
        /\ optPc' \in { "boot", "stuck" } /\ misread' = FALSE
    <3>1. CASE char = "CRC_EOP" /\ command = "READ_PAGE"
      <4>1. ReadPage
        BY <1>1, <3>1 DEF TakeChar, Execute
      <4>. QED BY <4>1, ReadsAreTrue DEF ReadPage
    <3>2. CASE char = "CRC_EOP" /\ command \notin { "READ_PAGE", "PROG_PAGE" }
      BY <1>1, <3>2 DEF TakeChar, Execute, OptInv
    <3>3. CASE char # "CRC_EOP"
      BY <1>1, <3>3 DEF TakeChar, OptInv
    <3>. QED BY <1>5, <3>1, <3>2, <3>3
  <2>2. (BufferOK /\ FlashFollows /\ VectorsFollow /\ LoaderIsKept)' /\ UnderWay'
    BY <1>2, <2>1 DEF OptInv, BufferOK, FlashFollows, VectorsFollow, LoaderIsKept, UnderWay
  <2>. QED BY <1>2, <1>3, <2>1, <2>2, KeptIs DEF Kept
<1>. QED BY <1>4, <1>5

-----------------------------------------------------------------------------
(* A page is erased, then written.                                         *)

LEMMA PageGoes == ASSUME OptInv, ErasePage PROVE OptInv'
<1>1. /\ optPc = "erase" /\ optPc' = "write"
      /\ UNCHANGED << command, args, address, buff, rstVect, saveVect, misread, period, wdtLeft >>
      /\ cells' = [a \in Cells |-> IF Page(a) = Page(address) THEN Blank ELSE cells[a]]
      /\ programmed' = [a \in Cells |-> IF Page(a) = Page(address) THEN Unset ELSE programmed[a]]
  BY DEF ErasePage
<1>2. cells' \in [Cells -> AppWords \cup { Loader, Blank }]
      /\ programmed' \in [Cells -> AppWords \cup { Unset }]
  BY <1>1 DEF OptInv, OptTypeOK
<1>3. /\ address = 0 => programmed'[0] = Unset /\ programmed'[save_vect_num] = Unset
      /\ address # 0 => UNCHANGED << cells[0], cells[save_vect_num], programmed[0], programmed[save_vect_num] >>
      /\ cells'[0] \in { Loader, Blank }
  BY <1>1, TheVectors, StartIsCell DEF OptInv, LoaderIsKept
<1>4. FlashFollows'
  <2>1. SUFFICES ASSUME NEW a \in Cells, programmed'[a] # Unset
                 PROVE  cells'[a] = CASE a = 0 -> Loader
                                      [] a = save_vect_num -> programmed'[0]
                                      [] OTHER -> programmed'[a]
    BY DEF FlashFollows
  <2>2. programmed'[a] = programmed[a] /\ cells'[a] = cells[a]
    BY <1>1, <2>1
  <2>3. a = save_vect_num => programmed'[0] = programmed[0]
    BY <1>3, <2>1
  <2>. QED BY <2>1, <2>2, <2>3 DEF OptInv, FlashFollows
<1>5. VectorsFollow'
  BY <1>1, <1>3 DEF OptInv, VectorsFollow
<1>6. UnderWay'
  BY <1>1, <1>3 DEF OptInv, UnderWay
<1>7. ArgsOK' /\ BufferOK' /\ LoaderIsKept'
  BY <1>1, <1>3 DEF OptInv, ArgsOK, BufferOK, LoaderIsKept
<1>. QED BY <1>1, <1>2, <1>4, <1>5, <1>6, <1>7 DEF OptInv, OptTypeOK

LEMMA PageIsWritten == ASSUME OptInv, WritePage PROVE OptInv'
<1>. DEFINE written == { a \in Cells : Page(a) = Page(address) /\ a % PageSize < args[1].length }
<1>1. /\ optPc = "write" /\ optPc' = "boot"
      /\ UNCHANGED << command, args, address, buff, rstVect, saveVect, misread, period, wdtLeft >>
      /\ cells' = [a \in Cells |-> IF a \in written THEN buff[a % PageSize] ELSE cells[a]]
      /\ programmed' = [a \in Cells |-> IF a \in written THEN Meant(a % PageSize) ELSE programmed[a]]
  BY DEF WritePage
<1>2. /\ args[1].length \in 1 .. PageSize /\ PageSize \in Nat
      /\ \A i \in 0 .. args[1].length - 1 : buff[i] \in AppWords \/ (i = 0 /\ address = 0)
  BY <1>1, OptibootAssumption DEF OptInv, UnderWay, PageLengths
<1>3. address = 0 =>
         /\ buff[0] = Loader /\ buff[save_vect_num] = rstVect /\ rstVect \in AppWords
         /\ programmed[0] = Unset /\ programmed[save_vect_num] = Unset
  BY <1>1 DEF OptInv, UnderWay
<1>4. ASSUME NEW a \in written PROVE a % PageSize \in 0 .. args[1].length - 1
  BY <1>2, CellsOfPages
<1>5. ASSUME NEW a \in written, a # 0, a # save_vect_num
      PROVE  Meant(a % PageSize) = buff[a % PageSize] /\ buff[a % PageSize] \in AppWords
  <2>1. CASE address = 0
    <3>1. Page(a) = 0
      BY <2>1, TheVectors
    <3>2. a % PageSize = a
      BY <3>1, CellsOfPages
    <3>. QED BY <1>2, <1>4, <1>5, <3>2 DEF Meant
  <2>2. CASE address # 0
    BY <1>2, <1>4, <2>2 DEF Meant
  <2>. QED BY <2>1, <2>2
<1>6. address # 0 => 0 \notin written /\ save_vect_num \notin written
  BY TheVectors, StartIsCell DEF OptInv
<1>7. address = 0 => /\ 0 \in written /\ programmed'[0] = rstVect /\ cells'[0] = Loader
                     /\ Meant(0) = rstVect /\ Meant(save_vect_num) = saveVect
  BY <1>1, <1>2, <1>3, TheVectors DEF Meant
<1>8. save_vect_num \in written =>
         programmed'[save_vect_num] = saveVect /\ cells'[save_vect_num] = rstVect
  <2>1. save_vect_num \in written => address = 0
    BY <1>6
  <2>. QED BY <1>1, <1>3, <1>7, <2>1, TheVectors
<1>9. /\ address # 0 => UNCHANGED << cells[0], programmed[0] >>
      /\ save_vect_num \notin written =>
           UNCHANGED << cells[save_vect_num], programmed[save_vect_num] >>
  BY <1>1, <1>6, TheVectors
<1>10. ASSUME NEW a \in Cells
       PROVE  cells'[a] \in AppWords \cup { Loader, Blank } /\ programmed'[a] \in AppWords \cup { Unset }
  <2>1. CASE a \notin written
    BY <1>1, <2>1 DEF OptInv, OptTypeOK
  <2>2. CASE a \in written /\ a # 0 /\ a # save_vect_num
    BY <1>1, <1>5, <2>2
  <2>3. CASE a \in written /\ a = 0
    BY <1>3, <1>6, <1>7, <2>3
  <2>4. CASE a \in written /\ a = save_vect_num
    BY <1>3, <1>6, <1>8, <2>4 DEF OptInv, OptTypeOK
  <2>. QED BY <2>1, <2>2, <2>3, <2>4
<1>11. cells' \in [Cells -> AppWords \cup { Loader, Blank }] /\ programmed' \in [Cells -> AppWords \cup { Unset }]
  BY <1>1, <1>10
<1>12. LoaderIsKept'
  BY <1>7, <1>9 DEF OptInv, LoaderIsKept
<1>13. FlashFollows'
  <2>1. SUFFICES ASSUME NEW a \in Cells, programmed'[a] # Unset
                 PROVE  cells'[a] = CASE a = 0 -> Loader
                                      [] a = save_vect_num -> programmed'[0]
                                      [] OTHER -> programmed'[a]
    BY DEF FlashFollows
  <2>2. CASE a = 0
    BY <1>7, <1>9, <2>1, <2>2, TheVectors DEF OptInv, FlashFollows
  <2>3. CASE a = save_vect_num
    <3>1. CASE save_vect_num \in written
      BY <1>6, <1>7, <1>8, <2>3, <3>1, TheVectors
    <3>2. CASE save_vect_num \notin written
      <4>1. address # 0
        BY <1>3, <1>9, <2>1, <2>3, <3>2
      <4>2. cells[save_vect_num] = programmed[0]
        BY <1>9, <2>1, <2>3, <3>2, TheVectors DEF OptInv, FlashFollows
      <4>. QED BY <1>9, <2>3, <3>2, <4>1, <4>2, TheVectors
    <3>. QED BY <3>1, <3>2
  <2>4. CASE a # 0 /\ a # save_vect_num
    <3>1. CASE a \in written
      BY <1>1, <1>5, <2>4, <3>1
    <3>2. CASE a \notin written
      BY <1>1, <2>1, <2>4, <3>2 DEF OptInv, FlashFollows
    <3>. QED BY <3>1, <3>2
  <2>. QED BY <2>2, <2>3, <2>4
<1>14. VectorsFollow'
  <2>1. CASE address = 0
    <3>1. programmed'[save_vect_num] \in { saveVect, Unset }
      BY <1>3, <1>8, <1>9, <2>1
    <3>2. programmed'[save_vect_num] # Unset => programmed'[0] # Unset
      <4>1. rstVect # Unset
        BY <1>3, <2>1, OptibootAssumption
      <4>. QED BY <1>7, <2>1, <4>1
    <3>. QED BY <1>1, <1>7, <2>1, <3>1, <3>2 DEF VectorsFollow
  <2>2. CASE address # 0
    BY <1>1, <1>6, <1>9, <2>2 DEF OptInv, VectorsFollow
  <2>. QED BY <2>1, <2>2
<1>15. UnderWay' /\ ArgsOK' /\ BufferOK'
  BY <1>1 DEF OptInv, UnderWay, ArgsOK, BufferOK
<1>. QED BY <1>1, <1>11, <1>12, <1>13, <1>14, <1>15 DEF OptInv, OptTypeOK

-----------------------------------------------------------------------------
(* Resets, and the theorem.                                                *)

(* A reset keeps flash, and RAM or nothing that it held.                   *)
LEMMA ResetKeeps ==
  ASSUME OptInv, NEW m \in { "boot", "app" }, ResetTo(m),
         RamIsLost \/ UNCHANGED << buff, rstVect, saveVect >>,
         programmed' = programmed \/ (programmed' = [a \in Cells |-> Unset])
  PROVE  OptInv'
<1>1. /\ optPc' = m /\ command' = "none" /\ args' = NoArgs /\ address' = 0
      /\ period' = WATCHDOG_1S /\ wdtLeft' = WATCHDOG_1S /\ UNCHANGED << cells, misread >>
  BY DEF ResetTo
<1>2. /\ BufferOK' /\ { rstVect', saveVect' } \subseteq AppWords \cup { Unset }
      /\ rstVect' \in { rstVect, Unset } /\ saveVect' \in { saveVect, Unset }
  <2>1. BufferOK /\ { rstVect, saveVect } \subseteq AppWords \cup { Unset }
    BY DEF OptInv, OptTypeOK
  <2>2. CASE RamIsLost
    BY <2>2 DEF RamIsLost, BufferOK
  <2>3. CASE UNCHANGED << buff, rstVect, saveVect >>
    BY <2>1, <2>3 DEF BufferOK
  <2>. QED BY <2>2, <2>3
<1>3. programmed' \in [Cells -> AppWords \cup { Unset }] /\ FlashFollows' /\ VectorsFollow'
  <2>1. CASE programmed' = programmed
    BY <1>1, <1>2, <2>1 DEF OptInv, FlashFollows, VectorsFollow
  <2>2. CASE programmed' = [a \in Cells |-> Unset]
    BY <2>2, TheVectors DEF FlashFollows, VectorsFollow
  <2>. QED BY <2>1, <2>2
<1>4. ArgsOK' /\ UnderWay' /\ LoaderIsKept'
  <2>1. NoArgs \in Seq(OptChars)
    BY DEF NoArgs
  <2>. QED BY <1>1, <2>1 DEF OptInv, ArgsOK, UnderWay, LoaderIsKept, NoArgs
<1>5. WATCHDOG_1S \in 1 .. WATCHDOG_1S /\ Len(NoArgs) <= 2 + PageSize
  BY OptibootAssumption DEF NoArgs
<1>. QED BY <1>1, <1>2, <1>3, <1>4, <1>5, TheVectors DEF OptInv, OptTypeOK

LEMMA OptStep == ASSUME OptInv, [OptNext]_optVars PROVE OptInv'
<1>1. CASE GoodChar \/ BadChar
  <2>1. PICK char : /\ TakeChar(char)
                    /\ char \in Expected \/ command = "none" \/ AtSpace
    BY <1>1 DEF GoodChar, BadChar
  <2>2. optPc = "boot" /\ cells' = cells /\ wdtLeft' \in { wdtLeft, period' }
    BY <1>1 DEF GoodChar, BadChar
  <2>3. Kept'
    BY <2>1, <2>2, CommandComes, ArgumentComes, SpaceComes
  <2>4. /\ period' \in { WATCHDOG_1S, WATCHDOG_16MS }
        /\ period' \in 1 .. WATCHDOG_1S /\ wdtLeft \in 1 .. WATCHDOG_1S
    BY <2>1, Periods
  <2>5. OptInv' <=> (Kept /\ wdtLeft \in 1 .. WATCHDOG_1S /\ period \in { WATCHDOG_1S, WATCHDOG_16MS })'
    BY StartIsCell DEF OptInv, OptTypeOK, Kept
  <2>. QED BY <2>2, <2>3, <2>4, <2>5
<1>2. CASE ErasePage
  BY <1>2, PageGoes
<1>3. CASE WritePage
  BY <1>3, PageIsWritten
<1>4. CASE WatchdogTick
  <2>1. CASE wdtLeft > 1
    <3>1. wdtLeft' \in 1 .. WATCHDOG_1S
      <4>1. wdtLeft \in 1 .. WATCHDOG_1S /\ WATCHDOG_1S \in Nat /\ wdtLeft' = wdtLeft - 1
        BY <1>4, <2>1, OptibootAssumption DEF WatchdogTick, OptInv, OptTypeOK
      <4>. QED BY <2>1, <4>1
    <3>2. UNCHANGED << optPc, command, args, address, period, cells, buff, rstVect, saveVect, misread, programmed >>
      BY <1>4, <2>1 DEF WatchdogTick
    <3>. QED BY <3>1, <3>2
         DEF OptInv, OptTypeOK, ArgsOK, BufferOK, UnderWay, FlashFollows, VectorsFollow, LoaderIsKept
  <2>2. CASE ~(wdtLeft > 1)
    BY <1>4, <2>2, ResetKeeps DEF WatchdogTick
  <2>. QED BY <2>1, <2>2
<1>5. CASE ResetPin
  BY <1>5, ResetKeeps DEF ResetPin
<1>6. CASE PowerLost
  BY <1>6, ResetKeeps DEF PowerLost
<1>7. CASE UNCHANGED optVars
  BY <1>7 DEF optVars, optMemory, OptInv, OptTypeOK, ArgsOK, BufferOK, UnderWay, FlashFollows,
     VectorsFollow, LoaderIsKept
<1>. QED BY <1>1, <1>2, <1>3, <1>4, <1>5, <1>6, <1>7 DEF OptNext

LEMMA OptStart == OptInit => OptInv
<1>. SUFFICES ASSUME OptInit PROVE OptInv
  OBVIOUS
<1>1. NoArgs \in Seq(OptChars) /\ Len(NoArgs) = 0
  BY DEF NoArgs
<1>2. Len(NoArgs) <= 2 + PageSize /\ WATCHDOG_1S \in 1 .. WATCHDOG_1S
  BY <1>1, OptibootAssumption
<1>3. /\ cells \in [Cells -> AppWords \cup { Loader, Blank }]
      /\ programmed \in [Cells -> AppWords \cup { Unset }]
      /\ \A a \in Cells : programmed[a] = Unset
  BY DEF OptInit
<1>4. OptTypeOK
  BY <1>2, <1>3, TheVectors DEF OptInit, OptTypeOK
<1>5. ArgsOK /\ UnderWay
  BY <1>1 DEF OptInit, ArgsOK, UnderWay
<1>6. BufferOK /\ FlashFollows /\ VectorsFollow /\ LoaderIsKept
  BY <1>3, TheVectors DEF OptInit, BufferOK, FlashFollows, VectorsFollow, LoaderIsKept
<1>. QED BY <1>3, <1>4, <1>5, <1>6, TheVectors DEF OptInit, OptInv

(* Wherever power or the watchdog cuts an upload short, the reset vector   *)
(* leads to the loader; a verify reads what was programmed, and flash holds *)
(* it, with the application's own vector where the loader jumps            *)
(* (optiboot.c:601-618, :863-949): for pages of any size and number, any   *)
(* place of the saved vector, every watchdog, any number of characters,    *)
(* resets and losses of power.                                             *)
THEOREM UploadsAreSound == OptSpec => [](LoaderIsKept /\ UploadIsSound)
<1>1. OptInv => LoaderIsKept /\ UploadIsSound
  BY DEF OptInv, UploadIsSound, FlashFollows
<1>. QED BY <1>1, OptStart, OptStep, PTL DEF OptSpec

-----------------------------------------------------------------------------
(* The endpoint that sends.                                                *)

(* The bytes in the order in which the host gets them.                     *)
Stream == taken \o Loaded
Rising(s) == \A i, j \in 1 .. Len(s) : i < j => s[i] < s[j]

(* In a call some bytes are left, or the empty packet that ends them.      *)
InSend ==
  usbPc \in { "space", "write" } =>
    /\ patience > 0 /\ returned = "no"
    /\ sent = goal <=> sendZlp
    /\ first + 1 .. sent \subseteq ToSet(Stream) \cup voided

(* The space that the sketch has seen is still there when it writes: the   *)
(* interrupts only empty the bank.                                         *)
SpaceStays ==
  usbPc = "write" => chunk <= len /\ Len(bank) + chunk <= USB_EP_SIZE /\ (chunk = 0 => sendZlp)

(* What was sent whole ends with a packet that is not full, in the bank,   *)
(* released, or taken.                                                     *)
EndIsShort ==
  returned = "ok" =>
    \/ bank # << >>
    \/ released # << >> /\ Len(released[Len(released)]) < USB_EP_SIZE
    \/ released = << >> /\ (short \/ taken = << >>)

CallIsOver ==
  /\ usbPc \notin { "space", "write" } => sent = goal
  /\ returned = "ok" => first + 1 .. goal \subseteq ToSet(Stream) \cup voided

EpTyped ==
  /\ bank \in Seq(Nat) /\ released \in Seq(Seq(Nat)) /\ taken \in Seq(Nat)
  /\ Len(bank) < USB_EP_SIZE /\ Len(released) <= Banks
  /\ voided \subseteq 1 .. MaxBytes
  /\ configuration \in { 0, 1 } /\ uenum \in { "tx", "0" }
  /\ usbPc \in { "idle", "space", "write", "count", "release" }
  /\ { first, sent, goal, resets, chunk, patience, count } \subseteq Nat
  /\ first <= sent /\ sent <= goal /\ goal <= MaxBytes /\ resets <= MaxResets
  /\ chunk <= USB_EP_SIZE /\ patience <= Patience /\ count <= USB_EP_SIZE
  /\ { short, sendZlp, busIdle } \subseteq BOOLEAN /\ returned \in { "no", "ok", "failed" }
  /\ udint \subseteq { "SUSPI", "WAKEUPI" } /\ udien \in { "SUSPI", "WAKEUPI" }
  /\ suspendState \in { "none", "SUSPI", "WAKEUPI" }

InOrder == Rising(Stream) /\ \A i \in 1 .. Len(Stream) : Stream[i] \in 1 .. sent

UsbInv == EpTyped /\ InSend /\ SpaceStays /\ EndIsShort /\ CallIsOver /\ InOrder

LEMMA EpFacts ==
  /\ USB_EP_SIZE \in Nat /\ USB_EP_SIZE > 0 /\ Banks \in Nat /\ Banks > 0 /\ Patience \in Nat /\ Patience > 0
  /\ MaxBytes \in Nat /\ MaxResets \in Nat
  /\ \A k \in Lengths : k \in Nat /\ k > 0
BY UsbEndpointAssumption

LEMMA ToSetIs ==
  ASSUME NEW S, NEW s \in Seq(S)
  PROVE  \A x : x \in ToSet(s) <=> \E i \in 1 .. Len(s) : x = s[i]
<1>1. DOMAIN s = 1 .. Len(s)
  OBVIOUS
<1>. QED BY <1>1, Zenon DEF ToSet

LEMMA StreamIs ==
  ASSUME EpTyped
  PROVE  Loaded \in Seq(Nat) /\ Stream \in Seq(Nat) /\ FlattenSeq(released) \in Seq(Nat)
BY FlattenTypes DEF EpTyped, Loaded, Stream

(* A release moves bytes, and appends none.                                *)
LEMMA ReleaseMoves ==
  ASSUME EpTyped, NEW bytes \in Seq(Nat)
  PROVE  /\ FlattenSeq(Append(released, bytes)) \o << >> = FlattenSeq(released) \o bytes
         /\ Append(released, bytes) \in Seq(Seq(Nat)) /\ Append(released, bytes) # << >>
         /\ Len(Append(released, bytes)) = Len(released) + 1
         /\ Append(released, bytes)[Len(Append(released, bytes))] = bytes
<1>1. released \in Seq(Seq(Nat)) /\ FlattenSeq(released) \in Seq(Nat)
  BY StreamIs DEF EpTyped
<1>2. FlattenSeq(Append(released, bytes)) = FlattenSeq(released) \o bytes
  BY <1>1, FlattenAppend
<1>3. FlattenSeq(released) \o bytes \in Seq(Nat)
  BY <1>1
<1>4. FlattenSeq(Append(released, bytes)) \o << >> = FlattenSeq(Append(released, bytes))
  BY <1>2, <1>3, ConcatEmptySeq
<1>5. /\ Append(released, bytes) \in Seq(Seq(Nat)) /\ Append(released, bytes) # << >>
      /\ Len(Append(released, bytes)) = Len(released) + 1
      /\ Append(released, bytes)[Len(Append(released, bytes))] = bytes
  BY <1>1, AppendProperties
<1>. QED BY <1>2, <1>4, <1>5, Zenon

LEMMA TakeMoves ==
  ASSUME EpTyped, released # << >>
  PROVE  /\ (taken \o Head(released)) \o (FlattenSeq(Tail(released)) \o bank) = Stream
         /\ Head(released) \in Seq(Nat) /\ Tail(released) \in Seq(Seq(Nat))
         /\ taken \o Head(released) \in Seq(Nat)
<1>1. released \in Seq(Seq(Nat)) /\ Head(released) \in Seq(Nat) /\ Tail(released) \in Seq(Seq(Nat))
  BY HeadTailProperties DEF EpTyped
<1>2. FlattenSeq(released) = Head(released) \o FlattenSeq(Tail(released))
  BY <1>1, FlattenTail
<1>3. FlattenSeq(Tail(released)) \in Seq(Nat)
  BY <1>1, FlattenTypes
<1>. DEFINE h == Head(released)
            f == FlattenSeq(Tail(released))
<1>4. taken \in Seq(Nat) /\ bank \in Seq(Nat) /\ h \in Seq(Nat) /\ f \in Seq(Nat)
  BY <1>1, <1>3 DEF EpTyped
<1>. HIDE DEF h, f
<1>5. f \o bank \in Seq(Nat)
  BY <1>4
<1>6. /\ Joined(Joined(taken, h), Joined(f, bank)) = Joined(taken, Joined(h, Joined(f, bank)))
      /\ Joined(Joined(h, f), bank) = Joined(h, Joined(f, bank))
  <2>1. Joined(f, bank) \in Seq(Nat)
    BY <1>5 DEF Joined
  <2>. QED BY <1>4, <2>1, Associates
<1>7. Joined(Joined(taken, h), Joined(f, bank)) = Joined(taken, Joined(Joined(h, f), bank))
  BY <1>6
<1>8. (taken \o h) \o (f \o bank) = taken \o ((h \o f) \o bank)
  BY <1>7, Zenon DEF Joined
<1>9. taken \o h \in Seq(Nat)
  BY <1>4
<1>. QED BY <1>1, <1>2, <1>8, <1>9, Zenon DEF Stream, Loaded, h, f

(* What follows on the bytes sent so far.                                  *)
LEMMA Longer ==
  ASSUME NEW s \in Seq(Nat), NEW k \in Nat, NEW c \in Nat, Rising(s), \A i \in 1 .. Len(s) : s[i] \in 1 .. k,
         NEW t \in Seq(Nat), Len(t) = Len(s) + c,
         \A i \in 1 .. Len(s) + c : t[i] = IF i <= Len(s) THEN s[i] ELSE k + (i - Len(s))
  PROVE  /\ Rising(t) /\ \A i \in 1 .. Len(t) : t[i] \in 1 .. k + c
         /\ ToSet(s) \cup (k + 1 .. k + c) \subseteq ToSet(t)
<1>. DEFINE n == Len(s)
            m == Len(t)
<1>1. n \in Nat /\ m = n + c
  OBVIOUS
<1>a. /\ \A i \in 1 .. n : s[i] \in 1 .. k /\ t[i] = s[i]
      /\ \A i \in n + 1 .. m : t[i] = k + (i - n)
  BY <1>1
<1>b. \A i, j \in 1 .. n : i < j => s[i] < s[j]
  BY DEF Rising
<1>. HIDE DEF n, m
<1>2. Rising(t)
  <2>. SUFFICES ASSUME NEW i \in 1 .. m, NEW j \in 1 .. m, i < j PROVE t[i] < t[j]
    BY DEF Rising, m
  <2>1. CASE j <= n
    <3>1. i \in 1 .. n /\ j \in 1 .. n
      BY <1>1, <2>1
    <3>. QED BY <1>a, <1>b, <3>1
  <2>2. CASE i <= n /\ ~(j <= n)
    <3>1. i \in 1 .. n /\ j \in n + 1 .. m
      BY <1>1, <2>2
    <3>2. t[i] \in 1 .. k
      BY <1>a, <3>1
    <3>3. t[j] = k + (j - n)
      BY <1>a, <3>1
    <3>4. t[i] <= k /\ t[i] \in Nat /\ j - n > 0 /\ j - n \in Nat
      BY <1>1, <3>1, <3>2
    <3>. QED BY <3>3, <3>4
  <2>3. CASE ~(i <= n)
    <3>1. i \in n + 1 .. m /\ j \in n + 1 .. m
      BY <1>1, <2>3
    <3>2. t[i] = k + (i - n) /\ t[j] = k + (j - n)
      BY <1>a, <3>1
    <3>. QED BY <1>1, <3>2
  <2>. QED BY <2>1, <2>2, <2>3
<1>3. \A i \in 1 .. Len(t) : t[i] \in 1 .. k + c
  <2>. SUFFICES ASSUME NEW i \in 1 .. m PROVE t[i] \in 1 .. k + c
    BY DEF m
  <2>1. CASE i <= n
    <3>1. i \in 1 .. n
      BY <1>1, <2>1
    <3>2. t[i] \in 1 .. k
      BY <1>a, <3>1
    <3>. QED BY <3>2
  <2>2. CASE ~(i <= n)
    <3>1. i \in n + 1 .. m
      BY <1>1, <2>2
    <3>2. t[i] = k + (i - n)
      BY <1>a, <3>1
    <3>. QED BY <1>1, <3>1, <3>2
  <2>. QED BY <2>1, <2>2
<1>4. ToSet(s) \subseteq ToSet(t)
  <2>1. \A i \in 1 .. Len(s) : i \in 1 .. Len(t) /\ t[i] = s[i]
    BY <1>1, <1>a DEF n, m
  <2>. SUFFICES ASSUME NEW x \in ToSet(s) PROVE x \in ToSet(t)
    OBVIOUS
  <2>2. PICK i \in 1 .. Len(s) : x = s[i]
    BY ToSetIs
  <2>. QED BY <2>1, <2>2, ToSetIs
<1>5. k + 1 .. k + c \subseteq ToSet(t)
  <2>. SUFFICES ASSUME NEW x \in k + 1 .. k + c PROVE x \in ToSet(t)
    OBVIOUS
  <2>1. n + (x - k) \in n + 1 .. m /\ n + (x - k) \in 1 .. m
    BY <1>1
  <2>2. t[n + (x - k)] = x
    BY <1>1, <1>a, <2>1
  <2>. QED BY <2>1, <2>2, ToSetIs, Zenon DEF m
<1>. QED BY <1>2, <1>3, <1>4, <1>5

Numbers(k, c) == [i \in 1 .. c |-> k + i]

LEMMA GrowsBy ==
  ASSUME NEW s \in Seq(Nat), NEW k \in Nat, NEW c \in Nat, Rising(s), \A i \in 1 .. Len(s) : s[i] \in 1 .. k
  PROVE  LET t == Joined(s, Numbers(k, c))
         IN  /\ t \in Seq(Nat) /\ Rising(t) /\ \A i \in 1 .. Len(t) : t[i] \in 1 .. k + c
             /\ ToSet(s) \cup (k + 1 .. k + c) \subseteq ToSet(t)
<1>. DEFINE b == Numbers(k, c)
            t == Joined(s, b)
<1>1. b \in Seq(Nat) /\ Len(b) = c /\ \A i \in 1 .. c : b[i] = k + i
  BY DEF Numbers
<1>. HIDE DEF b
<1>2. t \in Seq(Nat) /\ Len(t) = Len(s) + c /\ Len(s) \in Nat
  <2>1. b \in Seq(Nat)
    BY <1>1
  <2>2. t \in Seq(Nat) /\ Len(t) = Len(s) + Len(b) /\ Len(s) \in Nat
    BY <2>1 DEF Joined
  <2>. QED BY <1>1, <2>2
<1>3. \A i \in 1 .. Len(s) + c : t[i] = IF i <= Len(s) THEN s[i] ELSE b[i - Len(s)]
  BY <1>1, ConcatProperties DEF Joined
<1>4. \A i \in 1 .. Len(s) + c : ~(i <= Len(s)) => i - Len(s) \in 1 .. c
  BY <1>2
<1>5. \A i \in 1 .. Len(s) + c : t[i] = IF i <= Len(s) THEN s[i] ELSE k + (i - Len(s))
  BY <1>1, <1>3, <1>4
<1>. HIDE DEF t
<1>6. Rising(t) /\ (\A i \in 1 .. Len(t) : t[i] \in 1 .. k + c) /\ ToSet(s) \cup (k + 1 .. k + c) \subseteq ToSet(t)
  BY <1>2, <1>5, Longer
<1>. QED BY <1>2, <1>6 DEF t, b

(* What the steps do to the bytes: none is lost or comes twice.            *)
LEMMA ReleaseKeeps ==
  ASSUME EpTyped, NEW bytes \in Seq(Nat), Len(bytes) <= USB_EP_SIZE, ReleaseTX(bytes), BankFree
  PROVE  /\ bank' = << >> /\ released' \in Seq(Seq(Nat)) /\ Len(released') <= Banks
         /\ Loaded' = FlattenSeq(released) \o bytes
         /\ released' # << >> /\ released'[Len(released')] = bytes
<1>1. bank' = << >> /\ released' = Append(released, bytes) /\ Len(released) < Banks
  BY DEF ReleaseTX, BankFree
<1>2. Len(released) \in Nat /\ Banks \in Nat
  BY EpFacts DEF EpTyped
<1>3. Len(released') <= Banks
  BY <1>1, <1>2, ReleaseMoves
<1>. QED BY <1>1, <1>3, ReleaseMoves DEF Loaded

\* Of the invariant, what a step that moves no byte has to keep.
LEMMA SameStream ==
  ASSUME UsbInv, Stream' = Stream, EpTyped', EndIsShort',
         UNCHANGED << voided, sent, goal, first, returned, sendZlp, patience >>,
         usbPc' = usbPc \/ { usbPc, usbPc' } \subseteq { "idle", "count", "release" },
         usbPc = "write" => chunk' = chunk /\ Len(bank') <= Len(bank)
  PROVE  UsbInv'
<1>1. InOrder' /\ CallIsOver'
  BY DEF UsbInv, InOrder, Rising, CallIsOver
<1>2. InSend'
  BY DEF UsbInv, InSend
<1>3. SpaceStays'
  <2>1. Len(bank) \in Nat /\ Len(bank') \in Nat /\ chunk \in Nat /\ USB_EP_SIZE \in Nat
    <3>1. EpTyped
      BY DEF UsbInv
    <3>2. bank \in Seq(Nat) /\ bank' \in Seq(Nat) /\ chunk \in Nat
      BY <3>1 DEF EpTyped
    <3>. QED BY <3>2, EpFacts
  <2>. QED BY <2>1 DEF UsbInv, SpaceStays, len
<1>. QED BY <1>1, <1>2, <1>3 DEF UsbInv

(* Bytes move from the bank to the host's, and end with a packet that is   *)
(* not full.                                                               *)
BankMoves ==
  /\ Loaded' = Loaded
  /\ bank' \in Seq(Nat) /\ Len(bank') < USB_EP_SIZE /\ Len(bank') <= Len(bank)
  /\ released' \in Seq(Seq(Nat)) /\ Len(released') <= Banks
  /\ \/ UNCHANGED << bank, released >>
     \/ released' # << >> /\ Len(released'[Len(released')]) < USB_EP_SIZE

LEMMA BankStays == ASSUME EpTyped, UNCHANGED << bank, released >> PROVE BankMoves
<1>1. bank \in Seq(Nat) /\ Len(bank) < USB_EP_SIZE /\ released \in Seq(Seq(Nat)) /\ Len(released) <= Banks
  BY DEF EpTyped
<1>2. Loaded' = Loaded
  BY DEF Loaded
<1>3. Len(bank) \in Nat
  BY <1>1
<1>. QED BY <1>1, <1>2, <1>3 DEF BankMoves

LEMMA ReleaseOrNot == ASSUME EpTyped, ReleaseTX(bank) PROVE BankMoves
<1>1. bank \in Seq(Nat) /\ Len(bank) < USB_EP_SIZE
  BY DEF EpTyped
<1>2. Len(bank) \in Nat /\ USB_EP_SIZE \in Nat /\ Len(<< >>) = 0 /\ << >> \in Seq(Nat) /\ USB_EP_SIZE > 0
  BY <1>1, EpFacts
<1>3. CASE BankFree
  <2>1. /\ bank' = << >> /\ released' \in Seq(Seq(Nat)) /\ Len(released') <= Banks
        /\ Loaded' = FlattenSeq(released) \o bank
        /\ released' # << >> /\ released'[Len(released')] = bank
    BY <1>1, <1>2, <1>3, ReleaseKeeps
  <2>2. Loaded' = Loaded
    BY <2>1 DEF Loaded
  <2>. QED BY <1>1, <1>2, <2>1, <2>2 DEF BankMoves
<1>4. CASE ~BankFree
  BY <1>4, BankStays DEF ReleaseTX
<1>. QED BY <1>3, <1>4

LEMMA ShortEnds ==
  ASSUME UsbInv, UNCHANGED << short, taken, returned >>, BankMoves
  PROVE  EndIsShort'
BY DEF UsbInv, EndIsShort, BankMoves

LEMMA FrameKeeps == ASSUME UsbInv, StartOfFrame PROVE UsbInv'
<1>1. /\ uenum' = "tx" /\ ReleaseTxIfFound
      /\ UNCHANGED << taken, short, resets, voided, configuration, usbPc, sent, goal, chunk, patience, sendZlp, count,
                      first, returned, busIdle, udint, udien, suspendState >>
  BY DEF StartOfFrame, usbCall, usbBus
<1>2. BankMoves
  <2>1. CASE FifoByteCount > 0
    <3>1. ReleaseTX(bank)
      BY <1>1, <2>1 DEF ReleaseTxIfFound
    <3>. QED BY <3>1, ReleaseOrNot DEF UsbInv
  <2>2. CASE ~(FifoByteCount > 0)
    <3>1. UNCHANGED << bank, released >>
      BY <1>1, <2>2 DEF ReleaseTxIfFound
    <3>. QED BY <3>1, BankStays DEF UsbInv
  <2>. QED BY <2>1, <2>2
<1>3. EndIsShort'
  BY <1>1, <1>2, ShortEnds
<1>4. EpTyped'
  BY <1>1, <1>2 DEF UsbInv, EpTyped, BankMoves
<1>. QED BY <1>1, <1>2, <1>3, <1>4, SameStream DEF Stream, BankMoves

LEMMA FlushKeeps == ASSUME UsbInv, USB_Flush PROVE UsbInv'
<1>1. /\ UNCHANGED << taken, short, resets, voided, configuration, sent, goal, chunk, patience, sendZlp,
                      first, returned, busIdle, udint, udien, suspendState >>
      /\ { usbPc, usbPc' } \subseteq { "idle", "count", "release" }
      /\ uenum' \in { "tx", "0" }
      /\ count' = count \/ count' = FifoByteCount \/ count' = 0
      /\ UNCHANGED << bank, released >> \/ ReleaseTX(bank)
  <2>1. usbPc \in { "idle", "count", "release" } /\ uenum \in { "tx", "0" }
    BY DEF USB_Flush, UsbInv, EpTyped
  <2>. QED BY <2>1 DEF USB_Flush, usbBus
<1>2. BankMoves
  <2>1. CASE ReleaseTX(bank)
    BY <2>1, ReleaseOrNot DEF UsbInv
  <2>2. CASE UNCHANGED << bank, released >>
    BY <2>2, BankStays DEF UsbInv
  <2>. QED BY <1>1, <2>1, <2>2
<1>3. EndIsShort'
  BY <1>1, <1>2, ShortEnds
<1>4. EpTyped'
  <2>1. EpTyped
    BY DEF UsbInv
  <2>2. Len(bank) \in Nat /\ USB_EP_SIZE \in Nat /\ Len(bank) < USB_EP_SIZE
    BY <2>1, EpFacts DEF EpTyped
  <2>3. count' \in Nat /\ count' <= USB_EP_SIZE
    BY <1>1, <2>1, <2>2 DEF EpTyped, FifoByteCount
  <2>. QED BY <1>1, <1>2, <2>1, <2>3 DEF EpTyped, BankMoves
<1>. QED BY <1>1, <1>2, <1>3, <1>4, SameStream DEF Stream, BankMoves

LEMMA TakeKeeps == ASSUME UsbInv, TakePacket PROVE UsbInv'
<1>1. /\ released # << >>
      /\ taken' = taken \o Head(released) /\ short' = (Len(Head(released)) < USB_EP_SIZE)
      /\ released' = Tail(released)
      /\ UNCHANGED << bank, resets, voided, configuration, uenum, usbPc, sent, goal, chunk, patience, sendZlp, count,
                      first, returned, busIdle, udint, udien, suspendState >>
  BY DEF TakePacket, usbCall, usbBus
<1>2. EpTyped
  BY DEF UsbInv
<1>3. /\ Stream' = Stream
      /\ released' \in Seq(Seq(Nat)) /\ taken' \in Seq(Nat)
  BY <1>1, <1>2, TakeMoves DEF Stream, Loaded
<1>4. /\ Len(released') = Len(released) - 1 /\ Len(released) \in Nat /\ Head(released) = released[1]
      /\ \A i \in 1 .. Len(released') : released'[i] = released[i + 1]
  BY <1>1, <1>2, HeadTailProperties DEF EpTyped
<1>5. EpTyped'
  <2>1. Len(released') <= Banks
    BY <1>2, <1>4, EpFacts DEF EpTyped
  <2>2. short' \in BOOLEAN
    BY <1>1
  <2>. QED BY <1>1, <1>2, <1>3, <2>1, <2>2 DEF EpTyped
<1>6. EndIsShort'
  <2>. SUFFICES ASSUME returned = "ok", bank = << >>
                PROVE  \/ released' # << >> /\ Len(released'[Len(released')]) < USB_EP_SIZE
                       \/ released' = << >> /\ short'
    BY <1>1 DEF EndIsShort
  <2>1. Len(released[Len(released)]) < USB_EP_SIZE
    BY <1>1 DEF UsbInv, EndIsShort
  <2>2. CASE released' = << >>
    <3>1. \A r : r = << >> => Len(r) = 0
      OBVIOUS
    <3>2. Len(released') = 0
      BY <2>2, <3>1, Zenon
    <3>3. Len(released) = 1
      BY ONLY <1>4, <3>2
    <3>. QED BY <1>1, <1>4, <2>1, <2>2, <3>3
  <2>3. CASE released' # << >>
    <3>1. Len(released') \in Nat /\ Len(released') > 0
      BY <1>3, <2>3
    <3>2. released'[Len(released')] = released[Len(released)]
      <4>1. Len(released') \in 1 .. Len(released') /\ Len(released') + 1 = Len(released)
        BY <1>4, <3>1
      <4>. QED BY <1>4, <4>1
    <3>. QED BY <2>1, <2>3, <3>2
  <2>. QED BY <2>2, <2>3
<1>. QED BY <1>1, <1>3, <1>5, <1>6, SameStream

LEMMA OfTwo ==
  ASSUME NEW s \in Seq(Nat), NEW t \in Seq(Nat)
  PROVE  /\ Rising(s \o t) => Rising(s)
         /\ \A i \in 1 .. Len(s) : i \in 1 .. Len(s \o t) /\ (s \o t)[i] = s[i]
         /\ \A x : x \in ToSet(s \o t) <=> x \in ToSet(s) \/ x \in ToSet(t)
<1>. DEFINE u == s \o t
<1>1. /\ u \in Seq(Nat) /\ Len(u) = Len(s) + Len(t) /\ Len(s) \in Nat /\ Len(t) \in Nat
      /\ \A i \in 1 .. Len(s) : u[i] = s[i]
      /\ \A i \in 1 .. Len(t) : u[Len(s) + i] = t[i]
  OBVIOUS
<1>. HIDE DEF u
<1>2. Rising(u) => Rising(s)
  BY <1>1 DEF Rising
<1>3. ASSUME NEW x, x \in ToSet(u) PROVE x \in ToSet(s) \/ x \in ToSet(t)
  <2>1. PICK i \in 1 .. Len(u) : x = u[i]
    <3>1. \A y : y \in ToSet(u) <=> \E i \in 1 .. Len(u) : y = u[i]
      BY <1>1, ToSetIs
    <3>. QED BY <1>3, <3>1
  <2>2. CASE i <= Len(s)
    <3>1. i \in 1 .. Len(s) /\ x = s[i]
      BY <1>1, <2>1, <2>2
    <3>. QED BY <3>1, ToSetIs
  <2>3. CASE ~(i <= Len(s))
    <3>1. i - Len(s) \in 1 .. Len(t) /\ Len(s) + (i - Len(s)) = i
      BY <1>1, <2>3
    <3>2. x = t[i - Len(s)]
      BY <1>1, <2>1, <3>1
    <3>. QED BY <3>1, <3>2, ToSetIs
  <2>. QED BY <2>2, <2>3
<1>4. ASSUME NEW x, x \in ToSet(s) \/ x \in ToSet(t) PROVE x \in ToSet(u)
  <2>1. CASE x \in ToSet(s)
    <3>1. PICK i \in 1 .. Len(s) : x = s[i]
      BY <2>1, ToSetIs
    <3>2. i \in 1 .. Len(u) /\ x = u[i]
      BY <1>1, <3>1
    <3>. QED BY <1>1, <3>2, ToSetIs
  <2>2. CASE x \in ToSet(t)
    <3>1. PICK i \in 1 .. Len(t) : x = t[i]
      BY <2>2, ToSetIs
    <3>2. Len(s) + i \in 1 .. Len(u) /\ x = u[Len(s) + i]
      BY <1>1, <3>1
    <3>. QED BY <1>1, <3>2, ToSetIs
  <2>. QED BY <1>4, <2>1, <2>2
<1>5. \A i \in 1 .. Len(s) : i \in 1 .. Len(u) /\ u[i] = s[i]
  BY <1>1
<1>. QED BY <1>2, <1>3, <1>4, <1>5 DEF u

LEMMA ForgetKeeps ==
  ASSUME UsbInv, NEW c \in { 0, 1 }, Forget(c), uenum' = "0", UNCHANGED << taken, usbCall, usbBus >>
  PROVE  UsbInv'
<1>1. /\ configuration' = c /\ bank' = << >> /\ released' = << >> /\ short' = TRUE
      /\ resets < MaxResets /\ resets' = resets + 1 /\ voided' = voided \cup ToSet(Loaded)
      /\ UNCHANGED << taken, usbPc, sent, goal, chunk, patience, sendZlp, count, first, returned, busIdle, udint,
                      udien, suspendState >>
  BY DEF Forget, usbCall, usbBus
<1>2. EpTyped /\ taken \in Seq(Nat) /\ Loaded \in Seq(Nat)
  BY StreamIs DEF UsbInv, EpTyped
<1>3. Stream' = taken
  <2>1. Loaded' = << >>
    <3>1. << >> \in Seq(Nat)
      OBVIOUS
    <3>. QED BY <1>1, <3>1, FlattenEmpty, ConcatEmptySeq DEF Loaded
  <2>2. taken \o << >> = taken
    BY <1>2, ConcatEmptySeq
  <2>. QED BY <1>1, <2>1, <2>2 DEF Stream
<1>4. /\ Rising(Stream) => Rising(taken)
      /\ \A i \in 1 .. Len(taken) : i \in 1 .. Len(Stream) /\ Stream[i] = taken[i]
      /\ \A x : x \in ToSet(Stream) <=> x \in ToSet(taken) \/ x \in ToSet(Loaded)
  BY <1>2, OfTwo DEF Stream
<1>5. InOrder'
  <2>1. Rising(Stream)' = Rising(taken)
    BY <1>3 DEF Rising
  <2>2. \A i \in 1 .. Len(taken) : taken[i] \in 1 .. sent
    BY <1>4 DEF UsbInv, InOrder
  <2>. QED BY <1>1, <1>3, <1>4, <2>1, <2>2 DEF UsbInv, InOrder
<1>6. ToSet(Stream)' \cup voided' = ToSet(Stream) \cup voided
  BY <1>1, <1>3, <1>4, Zenon
<1>7. InSend' /\ CallIsOver'
  BY <1>1, <1>6 DEF UsbInv, InSend, CallIsOver
<1>8. EndIsShort'
  BY <1>1 DEF EndIsShort
<1>9. SpaceStays'
  <2>1. Len(bank') = 0 /\ chunk \in Nat /\ USB_EP_SIZE \in Nat /\ chunk <= USB_EP_SIZE
    BY <1>1, <1>2, EpFacts DEF EpTyped
  <2>. QED BY <1>1, <2>1 DEF UsbInv, SpaceStays, len
<1>10. EpTyped'
  <2>1. ToSet(Loaded) \subseteq 1 .. MaxBytes
    <3>. SUFFICES ASSUME NEW x \in ToSet(Loaded) PROVE x \in 1 .. MaxBytes
      OBVIOUS
    <3>1. Stream \in Seq(Nat) /\ x \in ToSet(Stream)
      BY <1>2, <1>4, StreamIs
    <3>2. PICK i \in 1 .. Len(Stream) : x = Stream[i]
      BY <3>1, ToSetIs
    <3>3. x \in 1 .. sent
      BY <3>2 DEF UsbInv, InOrder
    <3>. QED BY SMTT(40), <1>2, <3>3, EpFacts DEF EpTyped
  <2>2. << >> \in Seq(Nat) /\ << >> \in Seq(Seq(Nat)) /\ Len(<< >>) = 0
    OBVIOUS
  <2>3. resets' \in Nat /\ resets' <= MaxResets
    <3>1. resets \in Nat
      BY <1>2 DEF EpTyped
    <3>. QED BY <1>1, <3>1, EpFacts
  <2>4. Len(bank') < USB_EP_SIZE /\ Len(released') <= Banks
    BY <1>1, <2>2, EpFacts
  <2>. QED BY <1>1, <1>2, <2>1, <2>2, <2>3, <2>4 DEF EpTyped
<1>. QED BY <1>5, <1>7, <1>8, <1>9, <1>10 DEF UsbInv

LEMMA SendBegins == ASSUME UsbInv, NEW k \in Lengths, USB_Send(k) PROVE UsbInv'
<1>1. /\ usbPc = "idle" /\ goal + k <= MaxBytes /\ goal' = goal + k /\ first' = goal
      /\ patience' = Patience /\ sendZlp' = FALSE /\ chunk' = 0
      /\ UNCHANGED << bank, released, taken, short, resets, voided, busIdle, udint, udien, suspendState,
                      configuration, uenum, count >>
      /\ \/ usbPc' = "idle" /\ sent' = goal' /\ returned' = "failed"
         \/ usbPc' = "space" /\ sent' = sent /\ returned' = "no"
  BY DEF USB_Send, usbEp, usbBus
<1>2. EpTyped /\ sent \in Nat /\ goal \in Nat /\ k \in Nat /\ k > 0 /\ sent = goal /\ goal' \in Nat
      /\ sent <= sent' /\ sent' \in Nat /\ sent' <= goal' /\ goal < goal'
  <2>1. sent \in Nat /\ goal \in Nat /\ EpTyped
    BY DEF UsbInv, EpTyped
  <2>2. sent = goal
    BY <1>1 DEF UsbInv, CallIsOver
  <2>3. k \in Nat /\ k > 0
    BY EpFacts
  <2>. QED BY <1>1, <2>1, <2>2, <2>3
<1>3. EpTyped'
  <2>1. Patience \in Nat /\ 0 \in Nat /\ 0 <= USB_EP_SIZE /\ Patience <= Patience
    BY EpFacts
  <2>2. first' <= sent' /\ first' \in Nat
    BY <1>1, <1>2
  <2>. QED BY <1>1, <1>2, <2>1, <2>2 DEF EpTyped
<1>4. Stream' = Stream
  BY <1>1 DEF Stream, Loaded
<1>5. InOrder'
  BY <1>2, <1>4 DEF UsbInv, InOrder, Rising
<1>6. InSend'
  <2>1. sent' = goal' => usbPc' = "idle"
    BY <1>1, <1>2
  <2>2. usbPc' = "space" => first' + 1 .. sent' = {}
    BY <1>1, <1>2
  <2>. QED BY <1>1, <1>2, <2>1, <2>2, EpFacts DEF InSend
<1>7. SpaceStays' /\ EndIsShort' /\ CallIsOver'
  BY <1>1, <1>2 DEF SpaceStays, EndIsShort, CallIsOver
<1>. QED BY <1>3, <1>5, <1>6, <1>7 DEF UsbInv

LEMMA SpaceKeeps == ASSUME UsbInv, USB_SendSpace PROVE UsbInv'
<1>. DEFINE space == IF ReadWriteAllowed THEN USB_EP_SIZE - FifoByteCount ELSE 0
<1>1. /\ usbPc = "space" /\ uenum' = "tx"
      /\ UNCHANGED << bank, released, taken, short, resets, voided, busIdle, udint, udien, suspendState,
                      configuration, goal, first, sendZlp, count >>
      /\ \/ /\ patience' = patience - 1 /\ UNCHANGED chunk
            /\ \/ patience = 1 /\ usbPc' = "idle" /\ sent' = goal /\ returned' = "failed"
               \/ patience # 1 /\ UNCHANGED << usbPc, sent, returned >>
         \/ /\ space # 0 /\ usbPc' = "write" /\ chunk' = (IF space > len THEN len ELSE space)
            /\ UNCHANGED << patience, sent, returned >>
  BY DEF USB_SendSpace, usbEp, usbBus
<1>2. /\ EpTyped /\ { sent, goal, patience, chunk, USB_EP_SIZE } \subseteq Nat /\ patience > 0 /\ sent <= goal
      /\ len = goal - sent /\ Len(bank) \in Nat /\ Len(bank) < USB_EP_SIZE /\ (sent = goal <=> sendZlp)
  BY SMTT(40), <1>1, EpFacts DEF UsbInv, EpTyped, InSend, len
<1>3. space # 0 => space = USB_EP_SIZE - Len(bank)
  BY DEF ReadWriteAllowed, FifoByteCount
<1>. HIDE DEF space
<1>4. usbPc' = "write" => chunk' \in Nat /\ chunk' <= len /\ Len(bank) + chunk' <= USB_EP_SIZE
                          /\ (chunk' = 0 => sendZlp)
  BY <1>1, <1>2, <1>3
<1>5. EpTyped'
  <2>1. chunk' \in Nat /\ chunk' <= USB_EP_SIZE
    <3>1. chunk <= USB_EP_SIZE /\ (chunk' = chunk \/ usbPc' = "write")
      BY <1>1, <1>2 DEF EpTyped
    <3>2. chunk' \in Nat /\ Len(bank) + chunk' <= USB_EP_SIZE => chunk' <= USB_EP_SIZE
      BY <1>2
    <3>. QED BY <1>2, <1>4, <3>1, <3>2
  <2>2. patience' \in Nat /\ patience' <= Patience
    <3>1. patience <= Patience
      BY <1>2 DEF EpTyped
    <3>. QED BY <1>1, <1>2, <3>1, EpFacts
  <2>3. sent' \in Nat /\ sent <= sent' /\ sent' <= goal
    BY <1>1, <1>2
  <2>4. first \in Nat /\ first <= sent'
    BY <1>2, <2>3 DEF EpTyped
  <2>. QED BY <1>1, <1>2, <2>1, <2>2, <2>3, <2>4 DEF EpTyped
<1>6. Stream' = Stream
  BY <1>1 DEF Stream, Loaded
<1>7. InOrder'
  <2>1. sent' \in Nat /\ sent <= sent'
    BY <1>1, <1>2
  <2>. QED BY <1>2, <1>6, <2>1 DEF UsbInv, InOrder, Rising
<1>8. InSend'
  BY <1>1, <1>2, <1>6 DEF UsbInv, InSend
<1>9. SpaceStays'
  BY <1>1, <1>4 DEF SpaceStays, len
<1>10. EndIsShort' /\ CallIsOver'
  BY <1>1, <1>2, <1>6 DEF UsbInv, InSend, EndIsShort, CallIsOver
<1>. QED BY <1>5, <1>7, <1>8, <1>9, <1>10 DEF UsbInv

\* A pass that finds space appends what it has bytes for.
LEMMA WriteMoves ==
  ASSUME UsbInv, Write, ReadWriteAllowed
  PROVE  /\ sent' = sent + chunk /\ sent' <= goal
         /\ sendZlp' = (~sendZlp /\ Len(bank) + chunk = USB_EP_SIZE /\ len = chunk)
         /\ bank' \in Seq(Nat) /\ Len(bank') < USB_EP_SIZE
         /\ released' \in Seq(Seq(Nat)) /\ Len(released') <= Banks
         /\ Stream' = Stream \o [i \in 1 .. chunk |-> sent + i]
         /\ len = chunk /\ ~sendZlp' =>
              \/ bank' # << >>
              \/ released' # << >> /\ Len(released'[Len(released')]) < USB_EP_SIZE
<1>. DEFINE b == [i \in 1 .. chunk |-> sent + i]
            filled == bank \o b
<1>1. /\ usbPc = "write" /\ Release(filled, len - chunk) /\ sent' = sent + chunk /\ UNCHANGED taken
  BY DEF Write
<1>2. /\ EpTyped /\ sent \in Nat /\ goal \in Nat /\ chunk \in Nat /\ bank \in Seq(Nat) /\ taken \in Seq(Nat)
      /\ Len(bank) \in Nat /\ Len(bank) < USB_EP_SIZE /\ USB_EP_SIZE \in Nat /\ len = goal - sent
      /\ released \in Seq(Seq(Nat)) /\ Len(released) <= Banks
  BY SMTT(40), EpFacts DEF UsbInv, EpTyped, len
<1>3. /\ chunk <= len /\ Len(bank) + chunk <= USB_EP_SIZE /\ (chunk = 0 => sendZlp)
      /\ (sent = goal <=> sendZlp) /\ sendZlp \in BOOLEAN
  BY <1>1 DEF UsbInv, SpaceStays, InSend, EpTyped
<1>4. b \in Seq(Nat) /\ Len(b) = chunk
  BY <1>2
<1>. HIDE DEF b
<1>5. filled \in Seq(Nat) /\ Len(filled) = Len(bank) + chunk
  BY <1>2, <1>4, ConcatProperties
<1>6. FlattenSeq(released) \in Seq(Nat) /\ BankFree
  BY <1>2, StreamIs DEF ReadWriteAllowed
<1>7. taken \o (FlattenSeq(released) \o filled) = Stream \o b
  <2>. DEFINE f == FlattenSeq(released)
  <2>1. f \in Seq(Nat)
    BY <1>6
  <2>. HIDE DEF f
  <2>2. Joined(f, bank) \in Seq(Nat)
    BY <1>2, <2>1 DEF Joined
  <2>3. /\ Joined(Joined(f, bank), b) = Joined(f, Joined(bank, b))
        /\ Joined(Joined(taken, Joined(f, bank)), b) = Joined(taken, Joined(Joined(f, bank), b))
    BY <1>2, <1>4, <2>1, <2>2, Associates
  <2>4. Joined(taken, Joined(f, Joined(bank, b))) = Joined(Joined(taken, Joined(f, bank)), b)
    BY <2>3
  <2>. QED BY <2>4, Zenon DEF Joined, Stream, Loaded, f
<1>. HIDE DEF filled
<1>8. /\ \/ (sendZlp \/ Len(filled) = USB_EP_SIZE) /\ ReleaseTX(filled)
         \/ ~sendZlp /\ Len(filled) # USB_EP_SIZE /\ bank' = filled /\ released' = released
      /\ sendZlp' = (~sendZlp /\ Len(filled) = USB_EP_SIZE /\ len - chunk = 0)
  BY <1>1, <1>3 DEF Release
<1>9. sendZlp' = (~sendZlp /\ Len(bank) + chunk = USB_EP_SIZE /\ len = chunk)
  BY <1>2, <1>3, <1>5, <1>8
<1>10. sent' <= goal
  BY <1>1, <1>2, <1>3
<1>11. CASE (sendZlp \/ Len(filled) = USB_EP_SIZE) /\ ReleaseTX(filled)
  <2>1. /\ bank' = << >> /\ released' \in Seq(Seq(Nat)) /\ Len(released') <= Banks
        /\ Loaded' = FlattenSeq(released) \o filled
        /\ released' # << >> /\ released'[Len(released')] = filled
    BY <1>2, <1>3, <1>5, <1>6, <1>11, ReleaseKeeps
  <2>2. Stream' = Stream \o b
    BY <1>1, <1>7, <2>1, Zenon DEF Stream
  <2>3. bank' \in Seq(Nat) /\ Len(bank') < USB_EP_SIZE
    <3>1. << >> \in Seq(Nat) /\ Len(<< >>) = 0
      OBVIOUS
    <3>. QED BY <1>2, <2>1, <3>1
  <2>4. len = chunk /\ ~sendZlp' => Len(filled) < USB_EP_SIZE
    <3>1. CASE sendZlp
      BY <1>2, <1>3, <1>5, <3>1
    <3>2. CASE ~sendZlp
      BY <1>5, <1>9, <1>11, <3>2
    <3>. QED BY <3>1, <3>2
  <2>. QED BY <1>1, <1>9, <1>10, <2>1, <2>2, <2>3, <2>4 DEF b
<1>12. CASE ~sendZlp /\ Len(filled) # USB_EP_SIZE /\ bank' = filled /\ released' = released
  <2>1. Stream' = Stream \o b
    BY <1>1, <1>7, <1>12, Zenon DEF Stream, Loaded
  <2>2. bank' \in Seq(Nat) /\ Len(bank') < USB_EP_SIZE /\ Len(bank') > 0
    BY <1>2, <1>3, <1>5, <1>12
  <2>3. bank' # << >>
    BY <2>2
  <2>4. released' \in Seq(Seq(Nat)) /\ Len(released') <= Banks
    BY <1>2, <1>12
  <2>. QED BY <1>1, <1>9, <1>10, <2>1, <2>2, <2>3, <2>4 DEF b
<1>. QED BY <1>8, <1>11, <1>12

LEMMA WriteKeeps == ASSUME UsbInv, Write PROVE UsbInv'
<1>1. /\ usbPc = "write" /\ uenum' = "tx" /\ chunk' = 0
      /\ UNCHANGED << taken, short, resets, voided, busIdle, udint, udien, suspendState, configuration, goal, first,
                      patience, count >>
  BY DEF Write, usbBus
<1>2. /\ EpTyped /\ sent \in Nat /\ goal \in Nat /\ chunk \in Nat /\ len = goal - sent /\ 0 <= USB_EP_SIZE
      /\ patience > 0 /\ returned = "no"
  BY <1>1, EpFacts DEF UsbInv, EpTyped, InSend, len
<1>3. CASE ~ReadWriteAllowed
  <2>1. usbPc' = "space" /\ UNCHANGED << bank, released, sent, sendZlp, returned >>
    BY <1>3 DEF Write
  <2>2. Stream' = Stream
    BY <1>1, <2>1 DEF Stream, Loaded
  <2>3. EpTyped'
    BY <1>1, <1>2, <2>1 DEF EpTyped
  <2>4. InSend' /\ SpaceStays' /\ CallIsOver'
    BY <1>1, <1>2, <2>1, <2>2 DEF UsbInv, InSend, SpaceStays, CallIsOver
  <2>5. EndIsShort' /\ InOrder'
    BY <1>1, <1>2, <2>1, <2>2 DEF UsbInv, EndIsShort, InOrder, Rising
  <2>. QED BY <2>3, <2>4, <2>5 DEF UsbInv
<1>4. CASE ReadWriteAllowed
  <2>1. \/ len = chunk /\ ~sendZlp' /\ usbPc' = "idle" /\ returned' = "ok"
        \/ ~(len = chunk /\ ~sendZlp') /\ usbPc' = "space" /\ returned' = "no"
    BY <1>2, <1>4 DEF Write
  <2>2. /\ sent' = sent + chunk /\ sent' <= goal
        /\ sendZlp' = (~sendZlp /\ Len(bank) + chunk = USB_EP_SIZE /\ len = chunk)
        /\ bank' \in Seq(Nat) /\ Len(bank') < USB_EP_SIZE
        /\ released' \in Seq(Seq(Nat)) /\ Len(released') <= Banks
        /\ Stream' = Stream \o [i \in 1 .. chunk |-> sent + i]
        /\ len = chunk /\ ~sendZlp' =>
             \/ bank' # << >>
             \/ released' # << >> /\ Len(released'[Len(released')]) < USB_EP_SIZE
    BY <1>4, WriteMoves
  <2>3. sent' \in Nat /\ sent <= sent' /\ (sent' = goal <=> len = chunk)
    BY <1>2, <2>2
  <2>4. /\ Stream' \in Seq(Nat) /\ Rising(Stream') /\ \A i \in 1 .. Len(Stream') : Stream'[i] \in 1 .. sent + chunk
        /\ ToSet(Stream) \cup (sent + 1 .. sent + chunk) \subseteq ToSet(Stream')
    <3>1. Stream \in Seq(Nat) /\ Rising(Stream) /\ \A i \in 1 .. Len(Stream) : Stream[i] \in 1 .. sent
      BY <1>2, StreamIs DEF UsbInv, InOrder
    <3>. DEFINE u == Stream
                t == Stream'
    <3>2. u \in Seq(Nat) /\ Rising(u) /\ \A i \in 1 .. Len(u) : u[i] \in 1 .. sent
      BY <3>1
    <3>3. t = Joined(u, Numbers(sent, chunk))
      BY <2>2, Zenon DEF Joined, Numbers
    <3>. HIDE DEF u, t
    <3>4. /\ t \in Seq(Nat) /\ Rising(t) /\ \A i \in 1 .. Len(t) : t[i] \in 1 .. sent + chunk
          /\ ToSet(u) \cup (sent + 1 .. sent + chunk) \subseteq ToSet(t)
      BY <1>2, <3>2, <3>3, GrowsBy
    <3>. QED BY <3>4 DEF u, t
  <2>5. InOrder'
    BY <2>2, <2>4 DEF InOrder, Rising
  <2>6. first + 1 .. sent' \subseteq ToSet(Stream') \cup voided
    <3>1. first + 1 .. sent \subseteq ToSet(Stream) \cup voided
      BY <1>1 DEF UsbInv, InSend
    <3>2. first \in Nat /\ first <= sent
      BY <1>2 DEF EpTyped
    <3>3. first + 1 .. sent' \subseteq (first + 1 .. sent) \cup (sent + 1 .. sent + chunk)
      BY <1>2, <2>2, <3>2
    <3>. QED BY <2>4, <3>1, <3>3
  <2>7. sendZlp' \in BOOLEAN
    BY <2>2
  <2>8. InSend'
    BY <1>1, <1>2, <2>1, <2>2, <2>3, <2>6, <2>7 DEF InSend
  <2>9. EpTyped'
    <3>1. first <= sent' /\ usbPc' \in { "idle", "space" } /\ returned' \in { "no", "ok" }
      BY <1>2, <2>1, <2>3 DEF EpTyped
    <3>2. chunk' \in Nat /\ chunk' <= USB_EP_SIZE /\ sent' \in Nat /\ sent' <= goal'
      BY <1>1, <1>2, <2>2, <2>3
    <3>. QED BY <1>1, <1>2, <2>2, <2>7, <3>1, <3>2 DEF EpTyped
  <2>10. SpaceStays' /\ EndIsShort'
    BY <1>1, <2>1, <2>2 DEF SpaceStays, EndIsShort
  <2>11. CallIsOver'
    BY <1>1, <2>1, <2>3, <2>6 DEF CallIsOver
  <2>. QED BY <2>5, <2>8, <2>9, <2>10, <2>11 DEF UsbInv
<1>. QED BY <1>3, <1>4

LEMMA BusKeeps ==
  ASSUME UsbInv, UNCHANGED << usbEp, usbCall, configuration >>, uenum' \in { "tx", "0" }, busIdle' \in BOOLEAN,
         udint' \subseteq { "SUSPI", "WAKEUPI" }, udien' \in { "SUSPI", "WAKEUPI" },
         suspendState' \in { "none", "SUSPI", "WAKEUPI" }
  PROVE  UsbInv'
<1>1. /\ UNCHANGED << bank, released, taken, short, resets, voided, configuration >>
      /\ UNCHANGED << usbPc, sent, goal, chunk, patience, sendZlp, count, first, returned >>
  BY DEF usbEp, usbCall
<1>2. Stream' = Stream
  BY <1>1 DEF Stream, Loaded
<1>3. EpTyped'
  BY <1>1 DEF UsbInv, EpTyped
<1>4. InSend' /\ SpaceStays' /\ EndIsShort' /\ CallIsOver' /\ InOrder'
  BY <1>1, <1>2 DEF UsbInv, InSend, SpaceStays, EndIsShort, CallIsOver, InOrder, Rising, len
<1>. QED BY <1>3, <1>4 DEF UsbInv

LEMMA UsbStart == UsbInit => UsbInv
<1>. SUFFICES ASSUME UsbInit PROVE UsbInv
  OBVIOUS
<1>1. << >> \in Seq(Nat) /\ << >> \in Seq(Seq(Nat)) /\ Len(<< >>) = 0
  OBVIOUS
<1>2. Stream = << >>
  <2>1. << >> \o << >> = << >>
    BY <1>1, ConcatEmptySeq
  <2>. QED BY <2>1, FlattenEmpty DEF UsbInit, Stream, Loaded
<1>3. EpTyped
  <2>1. Len(bank) < USB_EP_SIZE /\ Len(released) <= Banks
    BY <1>1, EpFacts DEF UsbInit
  <2>2. /\ { first, sent, goal, resets, chunk, patience, count } \subseteq Nat
        /\ first <= sent /\ sent <= goal /\ goal <= MaxBytes /\ resets <= MaxResets
        /\ chunk <= USB_EP_SIZE /\ patience <= Patience /\ count <= USB_EP_SIZE
    BY EpFacts DEF UsbInit
  <2>. QED BY <1>1, <2>1, <2>2 DEF UsbInit, EpTyped
<1>4. InOrder
  BY <1>1, <1>2 DEF InOrder, Rising
<1>. QED BY <1>3, <1>4 DEF UsbInit, UsbInv, InSend, SpaceStays, EndIsShort, CallIsOver

LEMMA UsbStep == ASSUME UsbInv, [UsbNext]_usbVars PROVE UsbInv'
<1>t. /\ uenum \in { "tx", "0" } /\ busIdle \in BOOLEAN /\ udint \subseteq { "SUSPI", "WAKEUPI" }
      /\ udien \in { "SUSPI", "WAKEUPI" } /\ suspendState \in { "none", "SUSPI", "WAKEUPI" }
  BY DEF UsbInv, EpTyped
<1>1. CASE UNCHANGED usbVars
  BY <1>t, <1>1, BusKeeps DEF usbVars, usbBus
<1>2. CASE UsbSketch
  BY <1>2, SendBegins, SpaceKeeps, WriteKeeps, FlushKeeps DEF UsbSketch
<1>3. CASE SET_CONFIGURATION
  BY <1>3, ForgetKeeps DEF SET_CONFIGURATION
<1>4. CASE EndOfReset
  BY <1>4, ForgetKeeps DEF EndOfReset
<1>5. CASE ControlRequest
  BY <1>t, <1>5, BusKeeps DEF ControlRequest, usbBus
<1>6. CASE GoesIdle \/ Traffic
  BY <1>t, <1>6, BusKeeps DEF GoesIdle, Traffic
<1>7. CASE SuspendOrWakeup
  BY <1>t, <1>7, BusKeeps DEF SuspendOrWakeup
<1>. QED BY <1>1, <1>2, <1>3, <1>4, <1>5, <1>6, <1>7, FrameKeeps, TakeKeeps DEF UsbNext

(* What USB_Send() accepts reaches the host once and in order, a call that *)
(* returned its length lost nothing but to a reset, and a message ends     *)
(* with a packet that is not full, whatever start of frame comes between   *)
(* the look at the space and the write (USBCore.cpp:276-317): for banks of *)
(* any size and number, and any lengths.                                   *)
THEOREM UsbSendsOnce == UsbSpec => [](UsbTypeOK /\ SentOnceInOrder /\ MessageEndsShort)
<1>1. UsbInv => UsbTypeOK /\ SentOnceInOrder /\ MessageEndsShort
  <2>. SUFFICES ASSUME UsbInv PROVE UsbTypeOK /\ SentOnceInOrder /\ MessageEndsShort
    OBVIOUS
  <2>1. EpTyped /\ Stream \in Seq(Nat)
    BY StreamIs DEF UsbInv
  <2>2. SentOnceInOrder
    BY DEF UsbInv, SentOnceInOrder, InOrder, Rising, CallIsOver, Stream
  <2>3. MessageEndsShort
    <3>1. Loaded = << >> /\ released = << >> => bank = << >>
      <4>1. bank \in Seq(Nat)
        BY <2>1 DEF EpTyped
      <4>. QED BY <4>1, FlattenEmpty, ConcatEmptySeq DEF Loaded
    <3>. QED BY <3>1 DEF UsbInv, EndIsShort, MessageEndsShort
  <2>4. ToSet(Stream) \subseteq 1 .. MaxBytes
    <3>. SUFFICES ASSUME NEW x \in ToSet(Stream) PROVE x \in 1 .. MaxBytes
      OBVIOUS
    <3>1. PICK i \in 1 .. Len(Stream) : x = Stream[i]
      BY <2>1, ToSetIs
    <3>2. x \in 1 .. sent
      BY <3>1 DEF UsbInv, InOrder
    <3>. QED BY SMTT(40), <2>1, <3>2, EpFacts DEF EpTyped
  <2>5. /\ Len(bank) \in 0 .. USB_EP_SIZE /\ Len(released) \in 0 .. Banks /\ chunk \in 0 .. USB_EP_SIZE
        /\ patience \in 0 .. Patience /\ count \in 0 .. USB_EP_SIZE /\ resets \in 0 .. MaxResets
    BY SMTT(40), <2>1, EpFacts DEF EpTyped
  <2>6. 0 <= first /\ first <= sent /\ sent <= goal /\ goal <= MaxBytes
    BY <2>1 DEF EpTyped
  <2>7. UsbTypeOK
    BY <2>1, <2>4, <2>5, <2>6 DEF UsbTypeOK, EpTyped, Stream
  <2>. QED BY <2>2, <2>3, <2>7
<1>2. UsbSpec => []UsbInv
  BY UsbStart, UsbStep, PTL DEF UsbSpec
<1>. QED BY <1>1, <1>2, PTL

-----------------------------------------------------------------------------
(* The serial port over USB.                                               *)

(* What the sketch will read next, and all that it has and will.           *)
Peeked == IF peek_buffer >= 0 THEN << peek_buffer >> ELSE << >>
Ahead  == Peeked \o FlattenSeq(out)
Heard  == received \o Ahead

CdcTyped ==
  /\ running \in { "sketch", "loader" } /\ { dwDTERate, dtr, oldLoader, unpaired } \subseteq BOOLEAN
  /\ wdt \in { "off", "touch", "sketch" } /\ sketchWord \in Words
  /\ ram \in [{ "fixed", "last" } -> Words \cup { MAGIC_KEY }]
  /\ out \in Seq(Seq(Nat)) /\ Len(out) <= OutBanks /\ received \in Seq(Nat)
  /\ peek_buffer = -1 \/ peek_buffer \in Nat
  /\ hostSent \in Nat /\ hostSent <= MaxReceived /\ readOfHead \in Nat

(* Every byte that was sent was skipped, or is in its place.               *)
HeardInOrder == Rising(Heard) /\ ToSet(Heard) \cup skipped = 1 .. hostSent /\ ToSet(Heard) \cap skipped = {}

(* Of a packet that was begun something is left.                           *)
BegunIsLeft == readOfHead > 0 => FifoBytes # << >>

HeardInv == CdcTyped /\ HeardInOrder /\ BegunIsLeft

LEMMA CdcFacts ==
  /\ 0 \in Words /\ MAGIC_KEY \notin Words
  /\ OutBanks \in Nat /\ OutBanks > 0 /\ MaxReceived \in Nat
BY CdcAssumption

LEMMA HeardIs ==
  ASSUME CdcTyped
  PROVE  /\ Peeked \in Seq(Nat) /\ FlattenSeq(out) \in Seq(Nat) /\ Ahead \in Seq(Nat) /\ Heard \in Seq(Nat)
         /\ received \in Seq(Nat)
<1>1. Peeked \in Seq(Nat) /\ received \in Seq(Nat)
  BY DEF CdcTyped, Peeked
<1>2. FlattenSeq(out) \in Seq(Nat)
  BY FlattenTypes DEF CdcTyped
<1>3. Ahead \in Seq(Nat)
  BY <1>1, <1>2 DEF Ahead
<1>. QED BY <1>1, <1>2, <1>3 DEF Heard

(* What follows on something that rises.                                   *)
LEMMA RisingOf ==
  ASSUME NEW s \in Seq(Nat), NEW t \in Seq(Nat)
  PROVE  Rising(s \o t) <=> /\ Rising(s) /\ Rising(t)
                            /\ \A i \in 1 .. Len(s), j \in 1 .. Len(t) : s[i] < t[j]
<1>. DEFINE u == s \o t
            m == Len(s)
            n == Len(t)
<1>1. /\ Len(u) = m + n /\ m \in Nat /\ n \in Nat
      /\ \A i \in 1 .. m : u[i] = s[i]
      /\ \A i \in 1 .. n : u[m + i] = t[i]
  OBVIOUS
<1>2. /\ Rising(u) <=> \A i, j \in 1 .. m + n : i < j => u[i] < u[j]
      /\ Rising(s) <=> \A i, j \in 1 .. m : i < j => s[i] < s[j]
      /\ Rising(t) <=> \A i, j \in 1 .. n : i < j => t[i] < t[j]
  BY <1>1 DEF Rising
<1>. HIDE DEF u, m, n
<1>3. ASSUME Rising(u)
      PROVE  Rising(s) /\ Rising(t) /\ \A i \in 1 .. m, j \in 1 .. n : s[i] < t[j]
  <2>1. Rising(s)
    BY <1>1, <1>2, <1>3
  <2>2. Rising(t)
    <3>. SUFFICES ASSUME NEW i \in 1 .. n, NEW j \in 1 .. n, i < j PROVE t[i] < t[j]
      BY <1>2
    <3>1. m + i \in 1 .. m + n /\ m + j \in 1 .. m + n /\ m + i < m + j
      BY <1>1
    <3>. QED BY <1>1, <1>2, <1>3, <3>1
  <2>3. ASSUME NEW i \in 1 .. m, NEW j \in 1 .. n PROVE s[i] < t[j]
    <3>1. i \in 1 .. m + n /\ m + j \in 1 .. m + n /\ i < m + j
      BY <1>1
    <3>. QED BY <1>1, <1>2, <1>3, <3>1
  <2>. QED BY <2>1, <2>2, <2>3
<1>4. ASSUME Rising(s), Rising(t), \A i \in 1 .. m, j \in 1 .. n : s[i] < t[j]
      PROVE  Rising(u)
  <2>. SUFFICES ASSUME NEW i \in 1 .. m + n, NEW j \in 1 .. m + n, i < j PROVE u[i] < u[j]
    BY <1>2
  <2>1. CASE j <= m
    <3>1. i \in 1 .. m /\ j \in 1 .. m
      BY <1>1, <2>1
    <3>. QED BY <1>1, <1>2, <1>4, <3>1
  <2>2. CASE i <= m /\ ~(j <= m)
    <3>1. i \in 1 .. m /\ j - m \in 1 .. n /\ m + (j - m) = j
      BY <1>1, <2>2
    <3>2. u[i] = s[i] /\ u[j] = t[j - m]
      BY <1>1, <3>1
    <3>. QED BY <1>4, <3>1, <3>2
  <2>3. CASE ~(i <= m)
    <3>1. i - m \in 1 .. n /\ j - m \in 1 .. n /\ m + (i - m) = i /\ m + (j - m) = j /\ i - m < j - m
      BY <1>1, <2>3
    <3>2. u[i] = t[i - m] /\ u[j] = t[j - m]
      BY <1>1, <3>1
    <3>. QED BY <1>2, <1>4, <3>1, <3>2
  <2>. QED BY <2>1, <2>2, <2>3
<1>. QED BY <1>3, <1>4 DEF u, m, n

(* What rises has as many values as places.                                *)
LEMMA RisingCounts ==
  ASSUME NEW s \in Seq(Nat), Rising(s)
  PROVE  IsFiniteSet(ToSet(s)) /\ Cardinality(ToSet(s)) = Len(s)
<1>. DEFINE n == Len(s)
            T == ToSet(s)
<1>1. n \in Nat /\ s \in [1 .. n -> Nat] /\ DOMAIN s = 1 .. n
  BY LenProperties
<1>2. \A x : x \in T <=> \E i \in 1 .. n : x = s[i]
  BY ToSetIs
<1>3. \A i, j \in 1 .. n : s[i] \in Nat /\ s[j] \in Nat /\ (i < j => s[i] < s[j])
  BY <1>1 DEF Rising
<1>. HIDE DEF n, T
<1>4. s \in [1 .. n -> T]
  <2>1. \A i \in 1 .. n : s[i] \in T
    BY <1>2
  <2>. QED BY <1>1, <2>1
<1>5. IsInjective(s)
  <2>. SUFFICES ASSUME NEW i \in 1 .. n, NEW j \in 1 .. n, s[i] = s[j] PROVE i = j
    BY <1>1 DEF IsInjective
  <2>1. ~(i < j) /\ ~(j < i)
    BY <1>3
  <2>. QED BY <1>1, <2>1
<1>6. s \in Bijection(1 .. n, T)
  BY <1>2, <1>4, <1>5 DEF Bijection, Injection, Surjection
<1>7. ExistsBijection(1 .. n, T)
  BY <1>6 DEF ExistsBijection
<1>8. IsFiniteSet(T)
  BY <1>1, <1>7, FS_NatBijection
<1>9. Cardinality(T) = n
  BY <1>1, <1>7, FS_CountingElements
<1>. QED BY <1>8, <1>9 DEF n, T

(* One byte of what waits; and what is left of it.                         *)
LEMMA RecvTakes ==
  ASSUME CdcTyped, NEW byte, NEW rest, USB_Recv(byte, rest)
  PROVE  /\ byte \in Nat /\ byte = FifoBytes[1] /\ rest \in Seq(Seq(Nat)) /\ Len(rest) <= Len(out)
         /\ FlattenSeq(rest) \in Seq(Nat) /\ FlattenSeq(out) = Joined(<< byte >>, FlattenSeq(rest))
         /\ readOfHead' \in Nat /\ (readOfHead' > 0 => rest # << >> /\ Head(rest) # << >>)
<1>. DEFINE h == Head(out)
            t == Tail(out)
<1>1. out \in Seq(Seq(Nat)) /\ FifoBytes # << >> /\ byte = Head(FifoBytes)
  BY DEF CdcTyped, USB_Recv
<1>2. out # << >> /\ FifoBytes = h
  BY <1>1 DEF FifoBytes
<1>3. /\ h \in Seq(Nat) /\ h # << >> /\ t \in Seq(Seq(Nat)) /\ Len(t) = Len(out) - 1 /\ h = out[1]
      /\ \A i \in 1 .. Len(t) : t[i] = out[i + 1]
  BY <1>1, <1>2, HeadTailProperties
<1>4. FlattenSeq(out) = Joined(h, FlattenSeq(t)) /\ FlattenSeq(t) \in Seq(Nat)
  BY <1>1, <1>2, <1>3, FlattenTail, FlattenTypes DEF Joined
<1>5. Len(out) \in Nat /\ Len(h) \in Nat /\ Len(h) > 0 /\ Len(t) \in Nat
  BY <1>1, <1>3
<1>6. byte = h[1] /\ h[1] \in Nat /\ Tail(h) \in Seq(Nat) /\ Len(Tail(h)) = Len(h) - 1
  BY <1>1, <1>2, <1>3, <1>5, HeadTailProperties
<1>7. rest = IF Len(h) = 1 THEN t ELSE << Tail(h) >> \o t
  BY <1>2 DEF USB_Recv
<1>8. readOfHead \in Nat /\ readOfHead' = IF Len(h) = 1 THEN 0 ELSE readOfHead + 1
  BY <1>2 DEF USB_Recv, CdcTyped
<1>. HIDE DEF h, t
<1>9. h = Joined(<< byte >>, Tail(h)) /\ << byte >> \in Seq(Nat)
  <2>1. h = << Head(h) >> \o Tail(h) /\ Head(h) = h[1]
    BY <1>3
  <2>. QED BY <1>6, <2>1 DEF Joined
<1>10. CASE Len(h) = 1
  <2>1. h = << byte >> /\ rest = t
    BY <1>3, <1>6, <1>7, <1>10
  <2>. QED BY <1>1, <1>2, <1>3, <1>4, <1>5, <1>6, <1>8, <2>1
<1>11. CASE Len(h) # 1
  <2>1. rest = << Tail(h) >> \o t
    BY <1>7, <1>11
  <2>2. /\ rest \in Seq(Seq(Nat)) /\ rest # << >> /\ Len(rest) = Len(out)
        /\ Head(rest) = Tail(h) /\ Tail(rest) = t /\ rest[1] = Tail(h)
        /\ \A i \in 1 .. Len(t) : rest[i + 1] = t[i]
    <3>1. << Tail(h) >> \in Seq(Seq(Nat)) /\ Len(<< Tail(h) >>) = 1
      BY <1>6
    <3>2. Len(rest) = 1 + Len(t) /\ rest \in Seq(Seq(Nat))
      BY <1>3, <2>1, <3>1
    <3>3. rest[1] = Tail(h) /\ \A i \in 1 .. Len(t) : rest[i + 1] = t[i]
      BY <1>3, <1>5, <2>1, <3>1
    <3>4. rest # << >>
      BY <1>5, <3>2
    <3>5. Head(rest) = rest[1] /\ Tail(rest) \in Seq(Seq(Nat)) /\ Len(Tail(rest)) = Len(t)
          /\ \A i \in 1 .. Len(t) : Tail(rest)[i] = rest[i + 1]
      BY <1>5, <3>2, <3>4, HeadTailProperties
    <3>6. Tail(rest) = t
      <4>1. \A i \in 1 .. Len(Tail(rest)) : Tail(rest)[i] = t[i]
        BY <3>3, <3>5
      <4>. QED BY <1>3, <3>5, <4>1, SeqEqual
    <3>. QED BY <1>3, <1>5, <3>2, <3>3, <3>4, <3>5, <3>6
  <2>3. FlattenSeq(rest) = Joined(Tail(h), FlattenSeq(t)) /\ FlattenSeq(rest) \in Seq(Nat)
    BY <2>2, FlattenTail, FlattenTypes DEF Joined
  <2>4. Joined(Joined(<< byte >>, Tail(h)), FlattenSeq(t)) = Joined(<< byte >>, Joined(Tail(h), FlattenSeq(t)))
    <3>1. byte \in Nat /\ Tail(h) \in Seq(Nat) /\ FlattenSeq(t) \in Seq(Nat)
      BY <1>4, <1>6
    <3>. QED BY <3>1, OneThen
  <2>5. readOfHead' \in Nat /\ rest # << >> /\ Head(rest) # << >>
    <3>1. Tail(h) # << >>
      <4>1. \A r : r = << >> => Len(r) = 0
        OBVIOUS
      <4>2. Len(Tail(h)) # 0
        BY <1>5, <1>6, <1>11
      <4>. QED BY <4>1, <4>2, Zenon
    <3>2. readOfHead' \in Nat
      BY <1>8, <1>11
    <3>. QED BY <2>2, <3>1, <3>2
  <2>. QED BY <1>1, <1>2, <1>3, <1>4, <1>5, <1>6, <1>9, <2>2, <2>3, <2>4, <2>5
<1>. QED BY <1>10, <1>11

(* The bytes that the host adds follow on all that it has sent.            *)
LEMMA SendHeard == ASSUME HeardInv, HostSends PROVE HeardInv'
<1>1. PICK k \in Nat : /\ hostSent + k <= MaxReceived
                       /\ out' = Append(out, Numbers(hostSent, k)) /\ hostSent' = hostSent + k
  <2>1. PICK k \in 0 .. 2 :
          /\ hostSent + k <= MaxReceived /\ out' = Append(out, Numbers(hostSent, k)) /\ hostSent' = hostSent + k
    BY Zenon DEF HostSends, Numbers
  <2>. QED BY <2>1
<1>2. /\ Len(out) < OutBanks
      /\ UNCHANGED << oldLoader, running, dwDTERate, dtr, wdt, ram, sketchWord, unpaired, readOfHead >>
      /\ UNCHANGED << peek_buffer, received, skipped >>
  BY DEF HostSends, cdcLine
<1>. DEFINE b == Numbers(hostSent, k)
            F == FlattenSeq(out)
<1>3. /\ CdcTyped /\ hostSent \in Nat /\ out \in Seq(Seq(Nat)) /\ Len(out) \in Nat /\ OutBanks \in Nat
      /\ Peeked \in Seq(Nat) /\ F \in Seq(Nat) /\ received \in Seq(Nat) /\ Heard \in Seq(Nat)
  BY HeardIs, CdcFacts DEF HeardInv, CdcTyped
<1>4. b \in Seq(Nat) /\ Len(b) = k /\ \A i \in 1 .. k : b[i] = hostSent + i
  BY <1>3 DEF Numbers
<1>. HIDE DEF b, F
<1>5. Heard' = Joined(Heard, b)
  <2>1. FlattenSeq(out') = Joined(F, b)
    BY <1>1, <1>3, <1>4, FlattenAppend DEF b, F, Joined
  <2>2. Peeked' = Peeked
    BY <1>2 DEF Peeked
  <2>3. Heard' = Joined(received, Joined(Peeked, Joined(F, b)))
    BY <1>2, <2>1, <2>2, Zenon DEF Heard, Ahead, Joined
  <2>4. Heard = Joined(received, Joined(Peeked, F))
    BY Zenon DEF Heard, Ahead, Joined, F
  <2>5. Joined(Peeked, F) \in Seq(Nat)
    BY <1>3 DEF Joined
  <2>6. Joined(Peeked, Joined(F, b)) = Joined(Joined(Peeked, F), b)
    BY <1>3, <1>4, Associates
  <2>7. Joined(Joined(received, Joined(Peeked, F)), b) = Joined(received, Joined(Joined(Peeked, F), b))
    BY <1>3, <1>4, <2>5, Associates
  <2>. QED BY <2>3, <2>4, <2>6, <2>7
<1>6. CdcTyped'
  <2>1. out' \in Seq(Seq(Nat)) /\ Len(out') = Len(out) + 1
    BY <1>1, <1>3, <1>4 DEF b
  <2>. QED BY <1>1, <1>2, <1>3, <2>1 DEF CdcTyped
<1>7. BegunIsLeft'
  <2>. SUFFICES ASSUME readOfHead > 0 PROVE FifoBytes' # << >>
    BY <1>2 DEF BegunIsLeft
  <2>1. out # << >> /\ Head(out) # << >>
    BY DEF HeardInv, BegunIsLeft, FifoBytes
  <2>2. out' = Append(out, b)
    BY <1>1 DEF b
  <2>3. out' # << >> /\ Head(out') = Head(out)
    <3>1. /\ out' \in Seq(Seq(Nat)) /\ Len(out') = Len(out) + 1
          /\ \A i \in 1 .. Len(out) : out'[i] = out[i]
      BY <1>3, <1>4, <2>2, AppendProperties
    <3>2. 1 \in 1 .. Len(out)
      BY <1>3, <2>1, EmptySeq
    <3>3. out' # << >> /\ Head(out) = out[1]
      <4>1. Len(out') # 0
        BY <1>3, <3>1
      <4>. QED BY <1>3, <2>1, <4>1, HeadTailProperties
    <3>. QED BY <3>1, <3>2, <3>3, HeadTailProperties
  <2>. QED BY <2>1, <2>3 DEF FifoBytes
<1>8. HeardInOrder'
  <2>1. /\ Rising(Heard) /\ ToSet(Heard) \cup skipped = 1 .. hostSent /\ ToSet(Heard) \cap skipped = {}
    BY DEF HeardInv, HeardInOrder
  <2>2. \A x : x \in ToSet(Heard) <=> \E i \in 1 .. Len(Heard) : x = Heard[i]
    BY <1>3, ToSetIs
  <2>3. \A i \in 1 .. Len(Heard) : Heard[i] \in 1 .. hostSent
    BY <2>1, <2>2
  <2>4. Rising(Joined(Heard, b))
    BY <1>1, <1>3, <2>1, <2>3, GrowsBy DEF b
  <2>5. \A x : x \in ToSet(b) <=> x \in hostSent + 1 .. hostSent + k
    <3>1. \A x : x \in ToSet(b) <=> \E i \in 1 .. k : x = hostSent + i
      BY <1>4, ToSetIs
    <3>2. \A x \in hostSent + 1 .. hostSent + k : x - hostSent \in 1 .. k /\ x = hostSent + (x - hostSent)
      BY <1>1, <1>3
    <3>3. \A x : x \in ToSet(b) => x \in hostSent + 1 .. hostSent + k
      BY <1>1, <1>3, <3>1
    <3>4. ASSUME NEW x \in hostSent + 1 .. hostSent + k PROVE x \in ToSet(b)
      <4>1. x - hostSent \in 1 .. k /\ x = hostSent + (x - hostSent)
        BY <3>2
      <4>. HIDE DEF b
      <4>. QED BY <3>1, <4>1, Zenon
    <3>. QED BY <3>3, <3>4
  <2>6. \A x : x \in ToSet(Joined(Heard, b)) <=> x \in ToSet(Heard) \/ x \in ToSet(b)
    BY <1>3, <1>4, OfTwo DEF Joined
  <2>7. ToSet(Joined(Heard, b)) = ToSet(Heard) \cup (hostSent + 1 .. hostSent + k)
    BY <2>5, <2>6
  <2>8. Rising(Heard') /\ ToSet(Heard') = ToSet(Heard) \cup (hostSent + 1 .. hostSent + k)
    BY <1>5, <2>4, <2>7
  <2>9. ToSet(Heard') \cup skipped = 1 .. hostSent + k
    BY <1>1, <1>3, <2>1, <2>8
  <2>10. ToSet(Heard') \cap skipped = {}
    BY <1>1, <1>3, <2>1, <2>8
  <2>11. Rising(Heard)' /\ ToSet(Heard)' = ToSet(Heard')
    BY <2>8 DEF Rising
  <2>. QED BY <1>1, <1>2, <2>9, <2>10, <2>11 DEF HeardInOrder
<1>. QED BY <1>6, <1>7, <1>8 DEF HeardInv

(* What only moves a byte.                                                 *)
LEMMA SameHeard ==
  ASSUME HeardInv, Heard' = Heard, UNCHANGED << skipped, hostSent >>
  PROVE  HeardInOrder'
BY DEF HeardInv, HeardInOrder, Rising

LEMMA PeekHeard == ASSUME HeardInv, Serial_peek PROVE HeardInv'
<1>1. /\ peek_buffer < 0 /\ USB_Recv(peek_buffer', out')
      /\ UNCHANGED << oldLoader, running, dwDTERate, dtr, wdt, ram, sketchWord, unpaired >>
      /\ UNCHANGED << hostSent, received, skipped >>
  BY DEF Serial_peek, cdcLine
<1>2. CdcTyped /\ FlattenSeq(out) \in Seq(Nat)
  BY HeardIs DEF HeardInv
<1>3. /\ peek_buffer' \in Nat /\ out' \in Seq(Seq(Nat)) /\ Len(out') <= Len(out) /\ FlattenSeq(out') \in Seq(Nat)
      /\ FlattenSeq(out) = Joined(<< peek_buffer' >>, FlattenSeq(out'))
      /\ readOfHead' \in Nat /\ (readOfHead' > 0 => out' # << >> /\ Head(out') # << >>)
  BY <1>1, <1>2, RecvTakes
<1>4. Peeked = << >> /\ Peeked' = << peek_buffer' >>
  <2>1. peek_buffer \notin Nat /\ (peek_buffer = -1 \/ peek_buffer \in Nat)
    BY <1>1, <1>2 DEF CdcTyped
  <2>2. ~(peek_buffer >= 0) /\ peek_buffer' >= 0
    BY <1>1, <1>3, <2>1
  <2>. QED BY <2>2 DEF Peeked
<1>5. Ahead' = Ahead
  <2>1. Ahead = FlattenSeq(out)
    BY <1>2, <1>4 DEF Ahead
  <2>. QED BY <1>3, <1>4, <2>1, Zenon DEF Ahead, Joined
<1>6. Heard' = Heard
  BY <1>1, <1>5 DEF Heard
<1>7. CdcTyped'
  <2>1. out \in Seq(Seq(Nat)) /\ Len(out) \in Nat /\ Len(out) <= OutBanks /\ Len(out') \in Nat /\ OutBanks \in Nat
    <3>1. out' \in Seq(Seq(Nat)) /\ Len(out') <= Len(out)
      BY <1>3
    <3>. QED BY <1>2, <3>1, CdcFacts DEF CdcTyped
  <2>. QED BY <1>1, <1>2, <1>3, <2>1 DEF CdcTyped
<1>8. HeardInOrder'
  BY <1>1, <1>6, SameHeard
<1>9. BegunIsLeft'
  BY <1>3 DEF BegunIsLeft, FifoBytes
<1>. QED BY <1>7, <1>8, <1>9 DEF HeardInv

LEMMA ReadHeard == ASSUME HeardInv, Serial_read PROVE HeardInv'
<1>1. /\ UNCHANGED << oldLoader, running, dwDTERate, dtr, wdt, ram, sketchWord, unpaired >>
      /\ UNCHANGED << hostSent, skipped >>
  BY DEF Serial_read, cdcLine
<1>2. /\ CdcTyped /\ BegunIsLeft /\ readOfHead \in Nat /\ FlattenSeq(out) \in Seq(Nat) /\ received \in Seq(Nat)
      /\ out \in Seq(Seq(Nat)) /\ Len(out) \in Nat /\ Len(out) <= OutBanks /\ OutBanks \in Nat
      /\ peek_buffer = -1 \/ peek_buffer \in Nat
  BY HeardIs, CdcFacts DEF HeardInv, CdcTyped
<1>3. \E b \in Nat, rest \in Seq(Nat) :
        /\ received' = Append(received, b) /\ Ahead = Joined(<< b >>, rest) /\ Ahead' = rest
        /\ peek_buffer' = -1 /\ out' \in Seq(Seq(Nat)) /\ Len(out') <= Len(out) /\ BegunIsLeft' /\ readOfHead' \in Nat
  <2>1. CASE peek_buffer >= 0
    <3>1. received' = Append(received, peek_buffer) /\ peek_buffer' = -1 /\ out' = out
      BY <2>1 DEF Serial_read
    <3>2. peek_buffer \in Nat /\ Peeked = << peek_buffer >> /\ Peeked' = << >>
      BY <1>2, <2>1, <3>1 DEF Peeked
    <3>3. Ahead' = FlattenSeq(out)
      BY <1>2, <3>1, <3>2 DEF Ahead
    <3>4. Ahead = Joined(<< peek_buffer >>, FlattenSeq(out))
      BY <3>2, Zenon DEF Ahead, Joined
    <3>5. BegunIsLeft' /\ readOfHead' \in Nat
      <4>1. readOfHead' = readOfHead
        BY <2>1 DEF Serial_read
      <4>. QED BY <1>2, <3>1, <4>1 DEF BegunIsLeft, FifoBytes
    <3>6. FlattenSeq(out) \in Seq(Nat) /\ out' \in Seq(Seq(Nat)) /\ Len(out') <= Len(out)
      BY <1>2, <3>1
    <3>. QED BY <3>1, <3>2, <3>3, <3>4, <3>5, <3>6, Zenon
  <2>2. CASE ~(peek_buffer >= 0)
    <3>1. received' = Append(received, FifoBytes[1]) /\ USB_Recv(FifoBytes[1], out') /\ peek_buffer' = peek_buffer
      BY <2>2 DEF Serial_read
    <3>. DEFINE b == FifoBytes[1]
    <3>2. /\ b \in Nat /\ out' \in Seq(Seq(Nat)) /\ Len(out') <= Len(out) /\ FlattenSeq(out') \in Seq(Nat)
          /\ FlattenSeq(out) = Joined(<< b >>, FlattenSeq(out'))
          /\ readOfHead' \in Nat /\ (readOfHead' > 0 => out' # << >> /\ Head(out') # << >>)
      BY <1>2, <3>1, RecvTakes
    <3>3. Peeked = << >> /\ Peeked' = << >> /\ peek_buffer' = -1
      BY <1>2, <2>2, <3>1 DEF Peeked
    <3>4. Ahead = FlattenSeq(out) /\ Ahead' = FlattenSeq(out')
      BY <1>2, <3>2, <3>3 DEF Ahead
    <3>5. BegunIsLeft' /\ readOfHead' \in Nat
      BY <3>2 DEF BegunIsLeft, FifoBytes
    <3>. HIDE DEF b
    <3>. QED BY <3>1, <3>2, <3>3, <3>4, <3>5 DEF b
  <2>. QED BY <2>1, <2>2
<1>4. PICK b \in Nat, rest \in Seq(Nat) :
        /\ received' = Append(received, b) /\ Ahead = Joined(<< b >>, rest) /\ Ahead' = rest
        /\ peek_buffer' = -1 /\ out' \in Seq(Seq(Nat)) /\ Len(out') <= Len(out) /\ BegunIsLeft' /\ readOfHead' \in Nat
  BY <1>3
<1>5. Heard' = Heard
  <2>1. Joined(Append(received, b), rest) = Joined(received, Joined(<< b >>, rest))
    BY <1>2, <1>4, ThenOne
  <2>2. Heard' = Joined(Append(received, b), rest) /\ Heard = Joined(received, Joined(<< b >>, rest))
    BY <1>4, Zenon DEF Heard, Joined
  <2>. QED BY <2>1, <2>2
<1>6. CdcTyped'
  <2>1. Len(out') \in Nat /\ received' \in Seq(Nat)
    BY <1>2, <1>4
  <2>. QED BY <1>1, <1>2, <1>4, <2>1 DEF CdcTyped
<1>7. HeardInOrder'
  BY <1>1, <1>5, SameHeard
<1>. QED BY <1>4, <1>6, <1>7 DEF HeardInv

(* begin() loses the byte that peek() holds, and no other.                 *)
LEMMA BeginHeard == ASSUME HeardInv, Serial_begin PROVE HeardInv'
<1>1. /\ peek_buffer' = -1 /\ skipped' = IF peek_buffer >= 0 THEN skipped \cup { peek_buffer } ELSE skipped
      /\ UNCHANGED << oldLoader, running, dwDTERate, dtr, wdt, ram, sketchWord, unpaired >>
      /\ UNCHANGED << out, readOfHead, hostSent, received >>
  BY DEF Serial_begin, cdcLine
<1>2. CdcTyped' /\ BegunIsLeft'
  BY <1>1 DEF HeardInv, CdcTyped, BegunIsLeft, FifoBytes
<1>. DEFINE F == FlattenSeq(out)
<1>3. /\ F \in Seq(Nat) /\ received \in Seq(Nat) /\ Ahead \in Seq(Nat) /\ Heard \in Seq(Nat)
      /\ peek_buffer = -1 \/ peek_buffer \in Nat
  BY HeardIs DEF HeardInv, CdcTyped
<1>4. Peeked' = << >> /\ Ahead' = F
  BY <1>1, <1>3 DEF Peeked, Ahead
<1>5. Heard' = Joined(received, F)
  BY <1>1, <1>4, Zenon DEF Heard, Joined
<1>6. /\ Rising(Heard) /\ ToSet(Heard) \cup skipped = 1 .. hostSent /\ ToSet(Heard) \cap skipped = {}
  BY DEF HeardInv, HeardInOrder
<1>. HIDE DEF F
<1>7. CASE peek_buffer = -1
  <2>1. Peeked = << >>
    BY <1>7 DEF Peeked
  <2>2. Ahead = F
    BY <1>3, <2>1 DEF Ahead, F
  <2>3. Heard' = Heard
    BY <1>5, <2>2, Zenon DEF Heard, Joined
  <2>4. skipped' = skipped
    BY <1>1, <1>7
  <2>. QED BY <1>1, <1>2, <2>3, <2>4, SameHeard DEF HeardInv
<1>8. CASE peek_buffer \in Nat
  <2>. DEFINE p == << peek_buffer >>
  <2>1. p \in Seq(Nat) /\ Len(p) = 1 /\ p[1] = peek_buffer /\ Peeked = p
    BY <1>8 DEF Peeked
  <2>. HIDE DEF p
  <2>2. Ahead = Joined(p, F) /\ Heard = Joined(received, Ahead)
    BY <2>1, Zenon DEF Heard, Ahead, Joined, F
  <2>3. /\ Rising(received) /\ Rising(Ahead)
        /\ \A i \in 1 .. Len(received), j \in 1 .. Len(Ahead) : received[i] < Ahead[j]
    BY <1>3, <1>6, <2>2, RisingOf DEF Joined
  <2>4. Rising(F) /\ \A i \in 1 .. Len(p), j \in 1 .. Len(F) : p[i] < F[j]
    BY <1>3, <2>1, <2>2, <2>3, RisingOf DEF Joined
  <2>5. /\ Len(Ahead) = 1 + Len(F) /\ Len(F) \in Nat /\ Len(received) \in Nat
        /\ Ahead[1] = peek_buffer /\ \A i \in 1 .. Len(F) : Ahead[1 + i] = F[i]
    <3>1. /\ Len(Joined(p, F)) = Len(p) + Len(F) /\ Len(F) \in Nat /\ Len(received) \in Nat
          /\ \A i \in 1 .. Len(p) : Joined(p, F)[i] = p[i]
          /\ \A i \in 1 .. Len(F) : Joined(p, F)[Len(p) + i] = F[i]
      BY <1>3, <2>1, PlacesIn
    <3>. QED BY <2>1, <2>2, <3>1
  <2>6. \A i \in 1 .. Len(received), j \in 1 .. Len(F) : received[i] < F[j]
    <3>1. \A j \in 1 .. Len(F) : 1 + j \in 1 .. Len(Ahead)
      BY <2>5
    <3>. QED BY <2>3, <2>5, <3>1
  <2>7. Rising(Joined(received, F)) /\ Joined(received, F) \in Seq(Nat)
    BY <1>3, <2>3, <2>4, <2>6, RisingOf DEF Joined
  <2>8. /\ \A x : x \in ToSet(Joined(received, F)) <=> x \in ToSet(received) \/ x \in ToSet(F)
        /\ \A x : x \in ToSet(Joined(received, Ahead)) <=> x \in ToSet(received) \/ x \in ToSet(Ahead)
        /\ \A x : x \in ToSet(Joined(p, F)) <=> x \in ToSet(p) \/ x \in ToSet(F)
    BY <1>3, <2>1, OfTwo DEF Joined
  <2>9. /\ \A x : x \in ToSet(received) <=> \E i \in 1 .. Len(received) : x = received[i]
        /\ \A x : x \in ToSet(F) <=> \E i \in 1 .. Len(F) : x = F[i]
        /\ \A x : x \in ToSet(p) <=> \E i \in 1 .. Len(p) : x = p[i]
    BY <1>3, <2>1, ToSetIs
  <2>10. \A x : x \in ToSet(p) <=> x = peek_buffer
    BY <2>1, <2>9
  <2>11. peek_buffer \notin ToSet(received) /\ peek_buffer \notin ToSet(F)
    <3>1. 1 \in 1 .. Len(Ahead) /\ 1 \in 1 .. Len(p)
      BY <2>1, <2>5
    <3>2. \A i \in 1 .. Len(received) : received[i] < peek_buffer /\ received[i] \in Nat
      BY <1>3, <2>3, <2>5, <3>1
    <3>3. \A i \in 1 .. Len(F) : peek_buffer < F[i] /\ F[i] \in Nat
      BY <1>3, <2>1, <2>4, <3>1
    <3>. QED BY <1>8, <2>9, <3>2, <3>3
  <2>12. ToSet(Heard) = ToSet(Heard') \cup { peek_buffer } /\ peek_buffer \notin ToSet(Heard')
    BY <1>5, <2>2, <2>8, <2>10, <2>11
  <2>13. skipped' = skipped \cup { peek_buffer }
    BY <1>1, <1>8
  <2>14. /\ ToSet(Heard') \cup skipped' = 1 .. hostSent
         /\ ToSet(Heard') \cap skipped' = {}
    BY <1>6, <2>12, <2>13
  <2>15. Rising(Heard)'
    BY <1>5, <2>7 DEF Rising
  <2>16. HeardInOrder'
    BY <1>1, <2>14, <2>15 DEF HeardInOrder
  <2>. QED BY <1>2, <2>16 DEF HeardInv
<1>. QED BY <1>3, <1>7, <1>8

(* A reset loses what the sketch has not read.                             *)
LEMMA RunsHeard == ASSUME HeardInv, NEW what \in { "sketch", "loader" }, Runs(what) PROVE HeardInv'
<1>1. /\ running' = what /\ dwDTERate' = FALSE /\ dtr' = FALSE /\ wdt' = "off" /\ sketchWord' = 0
      /\ out' = << >> /\ peek_buffer' = -1 /\ skipped' = 1 .. hostSent \ ToSet(received)
      /\ hostSent' = hostSent /\ received' = received /\ readOfHead' = 0 /\ unpaired' = FALSE
      /\ oldLoader' = oldLoader
  BY DEF Runs
<1>2. CdcTyped /\ received \in Seq(Nat) /\ Ahead \in Seq(Nat) /\ Heard \in Seq(Nat)
  BY HeardIs DEF HeardInv
<1>3. ram' \in [{ "fixed", "last" } -> Words \cup { MAGIC_KEY }]
  BY <1>2, CdcFacts DEF CdcTyped, Runs, magic_key_pos
<1>4. CdcTyped'
  <2>1. out' \in Seq(Seq(Nat)) /\ Len(out') <= OutBanks
    <3>1. << >> \in Seq(Seq(Nat)) /\ Len(<< >>) = 0 /\ 0 <= OutBanks
      BY CdcFacts
    <3>. QED BY <1>1, <3>1
  <2>2. /\ running' \in { "sketch", "loader" } /\ { dwDTERate', dtr', oldLoader', unpaired' } \subseteq BOOLEAN
        /\ wdt' \in { "off", "touch", "sketch" } /\ sketchWord' \in Words /\ readOfHead' \in Nat
    BY <1>1, <1>2, CdcFacts DEF CdcTyped
  <2>. QED BY <1>1, <1>2, <1>3, <2>1, <2>2 DEF CdcTyped
<1>5. BegunIsLeft'
  BY <1>1 DEF BegunIsLeft
<1>6. Peeked' = << >> /\ FlattenSeq(out') = << >>
  BY <1>1, FlattenEmpty DEF Peeked
<1>7. Heard' = received
  <2>1. Ahead' = << >>
    BY <1>6 DEF Ahead
  <2>. QED BY <1>1, <1>2, <2>1 DEF Heard
<1>8. Rising(Heard) /\ ToSet(Heard) \cup skipped = 1 .. hostSent
  BY DEF HeardInv, HeardInOrder
<1>9. Rising(received) /\ \A x : x \in ToSet(received) => x \in ToSet(Heard)
  BY <1>2, <1>8, OfTwo DEF Heard
<1>10. Rising(Heard)'
  BY <1>7, <1>9 DEF Rising
<1>11. /\ ToSet(Heard') \cup skipped' = 1 .. hostSent
       /\ ToSet(Heard') \cap skipped' = {}
  BY <1>1, <1>7, <1>8, <1>9
<1>12. HeardInOrder'
  BY <1>1, <1>10, <1>11 DEF HeardInOrder
<1>. QED BY <1>4, <1>5, <1>12 DEF HeardInv

LEMMA RxStart == CdcInit => HeardInv
<1>. SUFFICES ASSUME CdcInit PROVE HeardInv
  OBVIOUS
<1>1. << >> \in Seq(Nat) /\ << >> \in Seq(Seq(Nat)) /\ Len(<< >>) = 0 /\ << >> \o << >> = << >>
  BY ConcatEmptySeq
<1>2. Peeked = << >> /\ FlattenSeq(out) = << >>
  BY FlattenEmpty DEF CdcInit, Peeked
<1>3. Heard = << >>
  BY <1>1, <1>2 DEF Heard, Ahead, CdcInit
<1>4. CdcTyped
  <2>1. ram \in [{ "fixed", "last" } -> Words \cup { MAGIC_KEY }]
    BY CdcFacts DEF CdcInit
  <2>2. { dwDTERate, dtr, oldLoader, unpaired } \subseteq BOOLEAN /\ sketchWord \in Words /\ readOfHead \in Nat
    BY CdcFacts DEF CdcInit
  <2>3. out \in Seq(Seq(Nat)) /\ Len(out) <= OutBanks /\ hostSent \in Nat /\ hostSent <= MaxReceived
    BY <1>1, CdcFacts DEF CdcInit
  <2>. QED BY <1>1, <2>1, <2>2, <2>3 DEF CdcTyped, CdcInit
<1>5. BegunIsLeft
  BY DEF BegunIsLeft, CdcInit
<1>6. ToSet(Heard) = {} /\ Rising(Heard)
  <2>1. Heard \in Seq(Nat) /\ Len(Heard) = 0
    BY <1>1, <1>3
  <2>2. \A x : x \in ToSet(Heard) <=> \E i \in 1 .. Len(Heard) : x = Heard[i]
    BY <2>1, ToSetIs
  <2>. QED BY <2>1, <2>2 DEF Rising
<1>7. HeardInOrder
  BY <1>6 DEF HeardInOrder, CdcInit
<1>. QED BY <1>4, <1>5, <1>7 DEF HeardInv

LEMMA RxStep == ASSUME HeardInv, [CdcNext]_cdcVars PROVE HeardInv'
<1>1. ASSUME UNCHANGED cdcRx, CdcTyped' PROVE HeardInv'
  <2>1. UNCHANGED << out, readOfHead, peek_buffer, hostSent, received, skipped >>
    BY <1>1 DEF cdcRx
  <2>2. Heard' = Heard
    BY <2>1 DEF Heard, Ahead, Peeked
  <2>. QED BY <1>1, <2>1, <2>2, SameHeard DEF HeardInv, BegunIsLeft, FifoBytes
<1>2. CdcTyped
  BY DEF HeardInv
<1>3. CASE UNCHANGED cdcVars
  <2>1. CdcTyped'
    BY <1>2, <1>3 DEF CdcTyped, cdcVars, cdcLine, cdcRx
  <2>. QED BY <1>1, <1>3, <2>1 DEF cdcVars
<1>4. ASSUME NEW a \in BOOLEAN, NEW b \in BOOLEAN, CDC_Setup(a, b) PROVE HeardInv'
  <2>1. /\ UNCHANGED << oldLoader, running, sketchWord, cdcRx >>
        /\ dwDTERate' = a /\ dtr' = b /\ wdt' \in { "touch", "off" }
    BY <1>4 DEF CDC_Setup
  <2>0. unpaired' \in BOOLEAN
    <3>1. unpaired' = (unpaired \/ (oldLoader /\ (Touched(a, b) <=> wdt = "touch")))
      BY <1>4 DEF CDC_Setup
    <3>2. unpaired \in BOOLEAN
      BY <1>2 DEF CdcTyped
    <3>. QED BY <3>1, <3>2, Zenon
  <2>2. ram' \in [{ "fixed", "last" } -> Words \cup { MAGIC_KEY }]
    BY <1>2, <1>4, CdcFacts DEF CDC_Setup, StoreKey, RemoveKey, CdcTyped
  <2>3. UNCHANGED << out, readOfHead, peek_buffer, hostSent, received, skipped >>
    BY <2>1 DEF cdcRx
  <2>4. { dwDTERate', dtr', oldLoader', unpaired' } \subseteq BOOLEAN
    BY <1>2, <2>0, <2>1 DEF CdcTyped
  <2>5. CdcTyped'
    BY <1>2, <2>1, <2>2, <2>3, <2>4 DEF CdcTyped
  <2>. QED BY <1>1, <2>1, <2>5
<1>5. CASE SketchRuns
  <2>1. UNCHANGED << oldLoader, running, dwDTERate, dtr, cdcRx >>
    BY <1>5 DEF SketchRuns
  <2>0. unpaired' \in BOOLEAN
    <3>1. unpaired' = unpaired \/ unpaired' = (unpaired \/ (oldLoader /\ wdt = "touch"))
      BY <1>5, Zenon DEF SketchRuns
    <3>2. unpaired \in BOOLEAN
      BY <1>2 DEF CdcTyped
    <3>. QED BY <3>1, <3>2, Zenon
  <2>2. /\ ram' \in [{ "fixed", "last" } -> Words \cup { MAGIC_KEY }]
        /\ sketchWord' \in Words /\ wdt' \in { "off", "touch", "sketch" }
    BY <1>2, <1>5 DEF SketchRuns, CdcTyped
  <2>3. UNCHANGED << out, readOfHead, peek_buffer, hostSent, received, skipped >>
    BY <2>1 DEF cdcRx
  <2>4. CdcTyped'
    BY <1>2, <2>0, <2>1, <2>2, <2>3 DEF CdcTyped
  <2>. QED BY <1>1, <2>1, <2>4
<1>6. ASSUME WatchdogReset \/ ExternalReset \/ PowerOnReset \/ LoaderTimesOut PROVE HeardInv'
  <2>1. \E what \in { "sketch", "loader" } : Runs(what)
    BY <1>6 DEF WatchdogReset, ExternalReset, PowerOnReset, LoaderTimesOut
  <2>. QED BY <2>1, RunsHeard
<1>7. dwDTERate \in BOOLEAN /\ dtr \in BOOLEAN
  BY <1>2 DEF CdcTyped
<1>. QED BY <1>3, <1>4, <1>5, <1>6, <1>7, SendHeard, PeekHeard, ReadHeard, BeginHeard DEF CdcNext

(* What the property says of the bytes.                                    *)
LEMMA RxHolds == ASSUME HeardInv PROVE CdcTypeOK /\ CdcRxFifo /\ EmptyIsReleased
<1>1. /\ CdcTyped /\ received \in Seq(Nat) /\ Ahead \in Seq(Nat) /\ Heard \in Seq(Nat) /\ hostSent \in Nat
      /\ hostSent <= MaxReceived /\ MaxReceived \in Nat /\ Heard = received \o Ahead
      /\ out \in Seq(Seq(Nat)) /\ Len(out) \in Nat /\ Len(out) <= OutBanks /\ OutBanks \in Nat
  BY HeardIs, CdcFacts DEF HeardInv, CdcTyped, Heard
<1>2. /\ Rising(Heard) /\ ToSet(Heard) \cup skipped = 1 .. hostSent /\ ToSet(Heard) \cap skipped = {}
  BY DEF HeardInv, HeardInOrder
<1>3. /\ Rising(received) /\ Rising(Ahead)
      /\ \A i \in 1 .. Len(received), j \in 1 .. Len(Ahead) : received[i] < Ahead[j]
  BY <1>1, <1>2, RisingOf
<1>4. Len(Heard) + Cardinality(skipped) = hostSent
  <2>1. IsFiniteSet(ToSet(Heard)) /\ Cardinality(ToSet(Heard)) = Len(Heard)
    BY <1>1, <1>2, RisingCounts
  <2>2. IsFiniteSet(1 .. hostSent) /\ Cardinality(1 .. hostSent) = hostSent
    <3>1. 1 \in Int /\ hostSent \in Int
      BY <1>1
    <3>2. IsFiniteSet(1 .. hostSent) /\ Cardinality(1 .. hostSent) = IF 1 > hostSent THEN 0 ELSE hostSent - 1 + 1
      BY <3>1, FS_Interval
    <3>. QED BY <1>1, <3>2
  <2>3. skipped \subseteq 1 .. hostSent
    BY <1>2
  <2>4. IsFiniteSet(skipped)
    BY <2>2, <2>3, FS_Subset
  <2>5. Cardinality(ToSet(Heard) \cup skipped) = Cardinality(ToSet(Heard)) + Cardinality(skipped)
    <3>1. Cardinality(ToSet(Heard) \cup skipped)
            = Cardinality(ToSet(Heard)) + Cardinality(skipped) - Cardinality(ToSet(Heard) \cap skipped)
      BY <2>1, <2>4, FS_Union
    <3>2. Cardinality(ToSet(Heard) \cap skipped) = 0
      BY <1>2, FS_EmptySet
    <3>3. Cardinality(skipped) \in Nat /\ Len(Heard) \in Nat
      BY <1>1, <2>4, FS_CardinalityType
    <3>. QED BY <2>1, <3>1, <3>2, <3>3
  <2>. QED BY <1>2, <2>1, <2>2, <2>5
<1>5. CdcRxFifo
  <2>. DEFINE ahead == (IF peek_buffer >= 0 THEN << peek_buffer >> ELSE << >>) \o FlattenSeq(out)
  <2>1. ahead = Ahead
    BY Zenon DEF Ahead, Peeked
  <2>2. received \o ahead = Heard
    BY <2>1, Zenon DEF Heard
  <2>. HIDE DEF ahead
  <2>3. \A i, j \in 1 .. Len(received) : i < j => received[i] < received[j]
    BY <1>3 DEF Rising
  <2>4. /\ ToSet(received \o ahead) \cup skipped = 1 .. hostSent
        /\ Len(received \o ahead) + Cardinality(skipped) = hostSent
    BY <1>2, <1>4, <2>2
  <2>5. \A i \in 1 .. Len(ahead), k \in 1 .. Len(received) : received[k] < ahead[i]
    BY <1>3, <2>1
  <2>. QED BY <2>3, <2>4, <2>5, Zenon DEF CdcRxFifo, ahead
<1>6. EmptyIsReleased
  <2>1. SUFFICES ASSUME available = 0, out # << >>, readOfHead # 0 PROVE FALSE
    BY DEF EmptyIsReleased
  <2>2. FifoBytes \in Seq(Nat) /\ Len(FifoBytes) \in Nat
    BY <1>1, <2>1, HeadTailProperties DEF FifoBytes
  <2>3. FifoBytes # << >>
    <3>1. readOfHead > 0
      BY <1>1, <2>1 DEF CdcTyped
    <3>. QED BY <3>1 DEF HeardInv, BegunIsLeft
  <2>4. Len(FifoBytes) # 0
    <3>1. \A x \in Seq(Nat) : Len(x) = 0 => x = << >>
      OBVIOUS
    <3>. QED BY <2>2, <2>3, <3>1, Zenon
  <2>5. available = (IF peek_buffer >= 0 THEN 1 ELSE 0) + Len(FifoBytes)
    BY DEF available
  <2>6. (IF peek_buffer >= 0 THEN 1 ELSE 0) \in { 0, 1 }
    OBVIOUS
  <2>7. \A k, l : k \in { 0, 1 } /\ l \in Nat /\ l # 0 => k + l # 0
    OBVIOUS
  <2>8. available # 0
    BY <2>2, <2>4, <2>5, <2>6, <2>7, Zenon
  <2>. QED BY <2>1, <2>8
<1>7. CdcTypeOK
  <2>1. /\ \A x : x \in ToSet(Heard) <=> \E i \in 1 .. Len(Heard) : x = Heard[i]
        /\ \A x : x \in ToSet(received) <=> \E i \in 1 .. Len(received) : x = received[i]
    BY <1>1, ToSetIs
  <2>2. \A x : x \in ToSet(received) => x \in ToSet(Heard)
    BY <1>1, OfTwo
  <2>3. \A i \in 1 .. Len(received) : received[i] \in 1 .. MaxReceived
    <3>1. \A i \in 1 .. Len(received) : received[i] \in 1 .. hostSent
      BY <1>2, <2>1, <2>2
    <3>. QED BY <1>1, <3>1
  <2>4. received \in Seq(1 .. MaxReceived)
    <3>1. \A S : \A x \in Seq(Nat) : (\A i \in 1 .. Len(x) : x[i] \in S) => x \in Seq(S)
      OBVIOUS
    <3>. QED BY <1>1, <2>3, <3>1, Zenon
  <2>5. skipped \subseteq 1 .. MaxReceived
    BY <1>1, <1>2
  <2>6. peek_buffer \in { -1 } \cup 1 .. MaxReceived
    <3>1. CASE peek_buffer = -1
      BY <3>1
    <3>2. CASE peek_buffer \in Nat
      <4>1. Peeked = << peek_buffer >> /\ FlattenSeq(out) \in Seq(Nat)
        BY <1>1, <3>2, HeardIs DEF Peeked
      <4>2. 1 \in 1 .. Len(Ahead) /\ Ahead[1] = peek_buffer
        BY <4>1 DEF Ahead
      <4>3. /\ \A x : x \in ToSet(Heard) <=> x \in ToSet(received) \/ x \in ToSet(Ahead)
            /\ \A x : x \in ToSet(Ahead) <=> \E i \in 1 .. Len(Ahead) : x = Ahead[i]
        BY <1>1, OfTwo, ToSetIs
      <4>4. peek_buffer \in 1 .. hostSent
        BY <1>2, <4>2, <4>3
      <4>. QED BY <1>1, <4>4
    <3>. QED BY <1>1, <3>1, <3>2 DEF CdcTyped
  <2>7. Len(out) \in 0 .. OutBanks /\ hostSent \in 0 .. MaxReceived
    BY <1>1
  <2>. QED BY <1>1, <2>4, <2>5, <2>6, <2>7 DEF CdcTyped, CdcTypeOK
<1>. QED BY <1>5, <1>6, <1>7, CdcFacts

(* What the sketch reads over USB is what the host sent: each byte once    *)
(* and in order, whichever way peek(), read() and begin() are mixed; the   *)
(* bytes that it cannot read any more are those that begin() or a reset    *)
(* dropped; and available() is 0 only when the endpoint has nothing, or    *)
(* next a packet that came without bytes, which nothing releases           *)
(* (CDC.cpp, USB_Recv() of USBCore.cpp).                                   *)
THEOREM PortIsFifo == CdcSpec => [](CdcTypeOK /\ CdcRxFifo /\ EmptyIsReleased)
<1>1. CdcSpec => []HeardInv
  BY RxStart, RxStep, PTL DEF CdcSpec
<1>2. HeardInv => CdcTypeOK /\ CdcRxFifo /\ EmptyIsReleased
  BY RxHolds
<1>. QED BY <1>1, <1>2, PTL

-----------------------------------------------------------------------------
(* The word that the boot loader looks at, and that of the sketch, which   *)
(* for a boot loader of the old kind are one: while a touch lasts, what    *)
(* the sketch wrote is in the other.                                       *)
KeyInv ==
  /\ DOMAIN ram = { "fixed", "last" } /\ sketchWord \in Words
  /\ ~oldLoader /\ running = "sketch" =>
       /\ ram["fixed"] = sketchWord
       /\ ram["last"] = MAGIC_KEY <=> wdt = "touch"
  /\ oldLoader /\ running = "sketch" /\ ~unpaired =>
       /\ wdt = "touch" => ram["fixed"] = MAGIC_KEY /\ ram["last"] = sketchWord
       /\ wdt # "touch" => ram["fixed"] = sketchWord

(* While the sketch runs, the key is in RAM from a touch at 1200 bps until *)
(* the port is opened again, and at no other time, so that a watchdog      *)
(* reset enters the boot loader after a touch and only then; and the       *)
(* sketch's word is its own (CDC_Setup() of CDC.cpp).  For boot loaders of *)
(* both kinds; where the key lies in the sketch's word, as long as every   *)
(* touch is taken back once, by the next request, and the sketch leaves    *)
(* its word alone meanwhile.                                               *)
THEOREM TouchStartsLoader == CdcSpec => [](LoaderMeansTouch /\ SketchWordKept)
<1>1. CdcInit => KeyInv
  BY CdcFacts DEF CdcInit, KeyInv
<1>2. KeyInv /\ [CdcNext]_cdcVars => KeyInv'
  <2>. SUFFICES ASSUME KeyInv, [CdcNext]_cdcVars PROVE KeyInv'
    OBVIOUS
  <2>. USE CdcFacts DEF KeyInv
  <2>1. CASE UNCHANGED cdcVars
    BY <2>1 DEF cdcVars, cdcLine, cdcRx
  <2>2. ASSUME NEW a, NEW b, CDC_Setup(a, b) PROVE KeyInv'
    <3>1. /\ running = "sketch" /\ UNCHANGED << oldLoader, running, sketchWord >>
          /\ unpaired' = (unpaired \/ (oldLoader /\ (Touched(a, b) <=> wdt = "touch")))
      BY <2>2 DEF CDC_Setup
    <3>2. CASE Touched(a, b)
      <4>1. ram' = StoreKey /\ wdt' = "touch"
        BY <2>2, <3>2 DEF CDC_Setup
      <4>2. /\ DOMAIN ram' = { "fixed", "last" }
            /\ ~oldLoader => ram'["fixed"] = ram["fixed"] /\ ram'["last"] = MAGIC_KEY
            /\ oldLoader => ram'["fixed"] = MAGIC_KEY /\ ram'["last"] = ram["fixed"]
        BY <4>1 DEF StoreKey
      <4>3. ~unpaired' /\ oldLoader => ~unpaired /\ wdt # "touch"
        BY <3>1, <3>2
      <4>. QED BY <3>1, <4>1, <4>2, <4>3
    <3>3. CASE ~Touched(a, b)
      <4>1. ram' = RemoveKey /\ wdt' = "off"
        BY <2>2, <3>3 DEF CDC_Setup
      <4>2. /\ DOMAIN ram' = { "fixed", "last" }
            /\ ~oldLoader => ram'["fixed"] = ram["fixed"] /\ ram'["last"] = 0
            /\ oldLoader => ram'["fixed"] = ram["last"]
        BY <4>1 DEF RemoveKey
      <4>3. ~unpaired' /\ oldLoader => ~unpaired /\ wdt = "touch"
        BY <3>1, <3>3
      <4>. QED BY <3>1, <4>1, <4>2, <4>3
    <3>. QED BY <3>2, <3>3
  <2>3. CASE SketchRuns
    <3>1. running = "sketch" /\ UNCHANGED << oldLoader, running >>
      BY <2>3 DEF SketchRuns
    <3>2. CASE wdt = "off" /\ wdt' = "sketch" /\ UNCHANGED << ram, sketchWord, unpaired >>
      BY <3>1, <3>2
    <3>3. ASSUME NEW w \in Words, sketchWord' = w, ram' = [ram EXCEPT !["fixed"] = w], UNCHANGED wdt,
                 unpaired' = (unpaired \/ (oldLoader /\ wdt = "touch"))
          PROVE  KeyInv'
      <4>1. /\ DOMAIN ram' = { "fixed", "last" } /\ ram'["fixed"] = w /\ ram'["last"] = ram["last"]
        BY <3>3
      <4>2. ~unpaired' /\ oldLoader => ~unpaired /\ wdt # "touch"
        BY <3>3
      <4>. QED BY <3>1, <3>3, <4>1, <4>2
    <3>. QED BY <2>3, <3>2, <3>3 DEF SketchRuns
  <2>4. ASSUME NEW what, Runs(what) PROVE KeyInv'
    <3>1. /\ running' = what /\ wdt' = "off" /\ sketchWord' = 0
          /\ ram' = IF what = "sketch" THEN [fixed |-> 0, last |-> 0] ELSE [ram EXCEPT ![magic_key_pos] = 0]
      BY <2>4 DEF Runs
    <3>2. CASE what = "sketch"
      BY <3>1, <3>2
    <3>3. CASE what # "sketch"
      BY <3>1, <3>3
    <3>. QED BY <3>2, <3>3
  <2>5. ASSUME WatchdogReset \/ ExternalReset \/ PowerOnReset \/ LoaderTimesOut PROVE KeyInv'
    BY <2>4, <2>5 DEF WatchdogReset, ExternalReset, PowerOnReset, LoaderTimesOut
  <2>6. ASSUME HostSends \/ Serial_peek \/ Serial_read \/ Serial_begin PROVE KeyInv'
    BY <2>6 DEF HostSends, Serial_peek, Serial_read, Serial_begin, cdcLine
  <2>. QED BY <2>1, <2>2, <2>3, <2>5, <2>6 DEF CdcNext
<1>3. KeyInv => LoaderMeansTouch /\ SketchWordKept
  BY CdcFacts DEF KeyInv, LoaderMeansTouch, SketchWordKept, magic_key_pos
<1>. QED BY <1>1, <1>2, <1>3, PTL DEF CdcSpec

=============================================================================
