---------------------------- MODULE MallocProofs ----------------------------
(***************************************************************************)
(* Theorems about the allocator, for a heap of any size and any order of   *)
(* calls.                                                                  *)
(*                                                                         *)
(* The argument: an arena, that is the free list with __brkval, stands for *)
(* the set of bytes that are free, those of the list and all from __brkval *)
(* on.  What malloc() hands out is taken from this set, what free() gives  *)
(* back is added to it, and merging entries or lowering __brkval leaves it *)
(* as it is.  So the chunks in use always are the rest of the heap.        *)
(***************************************************************************)
EXTENDS Malloc, SequenceTheorems, WellFoundedInduction, TLAPS

\* What a list entry is: it holds the pointer to the next one.
Entry == { c \in [at : Nat, sz : Nat] : HeapStart <= c.at /\ Freelist - SizeT <= c.sz }

\* Entries in the order of addresses of which no two touch.
Row == { s \in Seq(Entry) : \A j, k \in 1 .. Len(s) : j < k => End(s[j]) < s[k].at }

Within(x, c) == c.at <= x /\ x < End(c)
Bytes(s) == { x \in Nat : \E k \in 1 .. Len(s) : Within(x, s[k]) }

IsArena(a) ==
  /\ a = Arena(a.flp, a.brk)
  /\ a.flp \in Row /\ a.brk \in HeapStart .. Word - 1
  /\ \A k \in 1 .. Len(a.flp) : End(a.flp[k]) < a.brk

\* The bytes that are free.
Unused(a) == { x \in Nat : a.brk <= x } \cup Bytes(a.flp)

-----------------------------------------------------------------------------
(* Numbers and rows.                                                       *)

LEMMA LeastExists ==
  ASSUME NEW S \in SUBSET Nat, S # {}
  PROVE  Least(S) \in S /\ \A j \in S : Least(S) <= j
<1>. DEFINE R == OpToRel(<, Nat)
<1>1. R = { ss \in Nat \X Nat : ss[1] < ss[2] }
  BY DEF OpToRel
<1>2. IsWellFoundedOn(R, Nat)
  BY NatLessThanWellFounded
<1>. HIDE DEF R
<1>3. PICK x \in S : \A y \in S : ~(<< y, x >> \in R)
  BY <1>2, WFMin
<1>4. \A y \in S : y \in Nat /\ x \in Nat /\ ~(y < x)
  BY <1>1, <1>3
<1>5. \A y \in S : x <= y
  BY <1>4
<1>. QED BY <1>5 DEF Least

\* The constants, as the proofs need them.
LEMMA Constants ==
  /\ Word \in Nat /\ HeapStart \in Nat /\ SizeT <= HeapStart /\ HeapStart < Word
  /\ \A x \in Limits : x \in Nat /\ x < Word
  /\ \A x \in MallocSizes : x \in Nat /\ x < Word
  /\ \A x \in ReallocSizes : x \in Nat /\ x < Word
BY MallocAssumption DEF SizeT

LEMMA EntryIs ==
  ASSUME NEW c \in Entry
  PROVE  /\ c.at \in Nat /\ c.sz \in Nat /\ End(c) \in Nat /\ HeapStart <= c.at /\ 2 <= c.sz
         /\ End(c) = c.at + 2 + c.sz /\ c.at < End(c)
BY DEF Entry, End, SizeT, Freelist

LEMMA RowIs ==
  ASSUME NEW s \in Row
  PROVE  /\ s \in Seq(Entry) /\ Len(s) \in Nat
         /\ \A k \in 1 .. Len(s) : s[k] \in Entry
         /\ \A j, k \in 1 .. Len(s) : j < k => End(s[j]) < s[k].at
BY DEF Row

\* A part of a row is a row.
LEMMA PartOfRow ==
  ASSUME NEW s \in Row, NEW lo \in 1 .. Len(s) + 1, NEW hi \in 0 .. Len(s), lo <= hi + 1
  PROVE  /\ SubSeq(s, lo, hi) \in Row /\ Len(SubSeq(s, lo, hi)) = hi - lo + 1
         /\ \A k \in 1 .. hi - lo + 1 : SubSeq(s, lo, hi)[k] = s[lo + k - 1]
<1>1. s \in Seq(Entry) /\ Len(s) \in Nat
  BY RowIs
<1>2. /\ SubSeq(s, lo, hi) \in Seq(Entry) /\ Len(SubSeq(s, lo, hi)) = hi - lo + 1
      /\ \A k \in 1 .. hi - lo + 1 : SubSeq(s, lo, hi)[k] = s[lo + k - 1]
  BY <1>1
<1>3. ASSUME NEW j \in 1 .. hi - lo + 1, NEW k \in 1 .. hi - lo + 1, j < k
      PROVE  End(SubSeq(s, lo, hi)[j]) < SubSeq(s, lo, hi)[k].at
  <2>1. lo + j - 1 \in 1 .. Len(s) /\ lo + k - 1 \in 1 .. Len(s) /\ lo + j - 1 < lo + k - 1
    BY <1>1, <1>3
  <2>. QED BY <1>2, <2>1, RowIs
<1>. QED BY <1>2, <1>3 DEF Row

\* Two rows of which one is above the other make one.
LEMMA RowsMeet ==
  ASSUME NEW s \in Row, NEW t \in Row,
         \A j \in 1 .. Len(s), k \in 1 .. Len(t) : End(s[j]) < t[k].at
  PROVE  /\ s \o t \in Row /\ Len(s \o t) = Len(s) + Len(t)
         /\ \A k \in 1 .. Len(s) : (s \o t)[k] = s[k]
         /\ \A k \in 1 .. Len(t) : (s \o t)[Len(s) + k] = t[k]
         /\ Bytes(s \o t) = Bytes(s) \cup Bytes(t)
<1>. DEFINE u == s \o t
<1>1. s \in Seq(Entry) /\ Len(s) \in Nat /\ t \in Seq(Entry) /\ Len(t) \in Nat
  BY RowIs
<1>2. /\ u \in Seq(Entry) /\ Len(u) = Len(s) + Len(t)
      /\ \A k \in 1 .. Len(s) + Len(t) : u[k] = IF k <= Len(s) THEN s[k] ELSE t[k - Len(s)]
  BY <1>1, ConcatProperties
<1>. HIDE DEF u
<1>3. /\ \A k \in 1 .. Len(s) : u[k] = s[k]
      /\ \A k \in 1 .. Len(t) : u[Len(s) + k] = t[k]
  <2>1. ASSUME NEW k \in 1 .. Len(s) PROVE u[k] = s[k]
    BY <1>1, <1>2
  <2>2. ASSUME NEW k \in 1 .. Len(t) PROVE u[Len(s) + k] = t[k]
    BY <1>1, <1>2
  <2>. QED BY <2>1, <2>2
<1>4. ASSUME NEW j \in 1 .. Len(u), NEW k \in 1 .. Len(u), j < k PROVE End(u[j]) < u[k].at
  <2>1. CASE k <= Len(s)
    BY <1>1, <1>2, <1>4, <2>1, RowIs
  <2>2. CASE ~(j <= Len(s))
    <3>1. /\ j - Len(s) \in 1 .. Len(t) /\ k - Len(s) \in 1 .. Len(t) /\ j - Len(s) < k - Len(s)
          /\ u[j] = t[j - Len(s)] /\ u[k] = t[k - Len(s)]
      BY <1>1, <1>2, <1>4, <2>2
    <3>. QED BY <3>1, RowIs
  <2>3. CASE j <= Len(s) /\ ~(k <= Len(s))
    <3>1. /\ j \in 1 .. Len(s) /\ k - Len(s) \in 1 .. Len(t)
          /\ u[j] = s[j] /\ u[k] = t[k - Len(s)]
      BY <1>1, <1>2, <1>4, <2>3
    <3>. QED BY <3>1
  <2>4. j \in Nat /\ k \in Nat
    BY <1>4
  <2>. QED BY <2>1, <2>2, <2>3
<1>5. Bytes(u) = Bytes(s) \cup Bytes(t)
  <2>1. ASSUME NEW x \in Nat, NEW k \in 1 .. Len(u), Within(x, u[k]) PROVE x \in Bytes(s) \cup Bytes(t)
    <3>1. CASE k <= Len(s)
      BY <1>1, <1>2, <2>1, <3>1 DEF Bytes
    <3>2. CASE ~(k <= Len(s))
      <4>1. k - Len(s) \in 1 .. Len(t) /\ u[k] = t[k - Len(s)]
        BY <1>1, <1>2, <3>2
      <4>. QED BY <2>1, <4>1 DEF Bytes
    <3>. QED BY <3>1, <3>2
  <2>2. ASSUME NEW x \in Nat, NEW k \in 1 .. Len(s), Within(x, s[k]) PROVE x \in Bytes(u)
    BY <1>1, <1>2, <1>3, <2>2 DEF Bytes
  <2>3. ASSUME NEW x \in Nat, NEW k \in 1 .. Len(t), Within(x, t[k]) PROVE x \in Bytes(u)
    <3>1. Len(s) + k \in 1 .. Len(u)
      BY <1>1, <1>2
    <3>. QED BY <1>3, <2>3, <3>1 DEF Bytes
  <2>. QED BY <2>1, <2>2, <2>3 DEF Bytes
<1>. QED BY <1>2, <1>3, <1>4, <1>5 DEF Row, u

LEMMA RowOfOne ==
  ASSUME NEW c \in Entry
  PROVE  << c >> \in Row /\ Len(<< c >>) = 1 /\ << c >>[1] = c /\ Bytes(<< c >>) = Span(c)
<1>1. << c >> \in Seq(Entry) /\ Len(<< c >>) = 1 /\ << c >>[1] = c
  OBVIOUS
<1>2. << c >> \in Row
  BY <1>1 DEF Row
<1>3. \A x : x \in Bytes(<< c >>) <=> x \in Span(c)
  BY <1>1, EntryIs DEF Bytes, Within, Span
<1>. QED BY <1>1, <1>2, <1>3

LEMMA SpanIs ==
  ASSUME NEW c, c.at \in Nat, c.sz \in Nat
  PROVE  /\ Span(c) \in SUBSET Nat /\ End(c) \in Nat /\ End(c) = c.at + 2 + c.sz
         /\ \A x \in Nat : x \in Span(c) <=> c.at <= x /\ x < End(c)
         /\ \A x \in Nat : x \in Span(c) <=> Within(x, c)
BY DEF Span, End, SizeT, Within

\* A row is what is below an entry, the entry, and what is above it.
LEMMA RowAround ==
  ASSUME NEW s \in Row, NEW k \in 1 .. Len(s)
  PROVE  /\ SubSeq(s, 1, k - 1) \in Row /\ Len(SubSeq(s, 1, k - 1)) = k - 1
         /\ \A j \in 1 .. k - 1 : SubSeq(s, 1, k - 1)[j] = s[j]
         /\ SubSeq(s, k + 1, Len(s)) \in Row /\ Len(SubSeq(s, k + 1, Len(s))) = Len(s) - k
         /\ \A j \in 1 .. Len(s) - k : SubSeq(s, k + 1, Len(s))[j] = s[k + j]
         /\ Bytes(s) = Bytes(SubSeq(s, 1, k - 1)) \cup Span(s[k]) \cup Bytes(SubSeq(s, k + 1, Len(s)))
         /\ Span(s[k]) \cap Bytes(SubSeq(s, 1, k - 1)) = {}
         /\ Span(s[k]) \cap Bytes(SubSeq(s, k + 1, Len(s))) = {}
<1>. DEFINE low == SubSeq(s, 1, k - 1)
            up == SubSeq(s, k + 1, Len(s))
<1>1. Len(s) \in Nat /\ \A j \in 1 .. Len(s) : s[j] \in Entry
  BY RowIs
<1>2. low \in Row /\ Len(low) = k - 1 /\ \A j \in 1 .. k - 1 : low[j] = s[j]
  BY <1>1, PartOfRow
<1>3. up \in Row /\ Len(up) = Len(s) - k /\ \A j \in 1 .. Len(s) - k : up[j] = s[k + j]
  <2>1. k + 1 \in 1 .. Len(s) + 1 /\ Len(s) \in 0 .. Len(s) /\ k + 1 <= Len(s) + 1
        /\ Len(s) - (k + 1) + 1 = Len(s) - k /\ \A j \in 1 .. Len(s) - k : k + 1 + j - 1 = k + j
    BY <1>1
  <2>. QED BY <2>1, PartOfRow
<1>. HIDE DEF low, up
<1>4. s[k] \in Entry /\ s[k].at \in Nat /\ s[k].sz \in Nat /\ Span(s[k]) \in SUBSET Nat
      /\ \A x \in Nat : x \in Span(s[k]) <=> Within(x, s[k])
  BY <1>1, EntryIs, SpanIs
<1>5. ASSUME NEW x \in Nat, NEW j \in 1 .. Len(s), Within(x, s[j])
      PROVE  x \in Bytes(low) \cup Span(s[k]) \cup Bytes(up)
  <2>1. CASE j < k
    <3>1. j \in 1 .. Len(low) /\ low[j] = s[j]
      BY <1>1, <1>2, <2>1
    <3>. QED BY <1>5, <3>1 DEF Bytes
  <2>2. CASE j = k
    BY <1>4, <1>5, <2>2
  <2>3. CASE k < j
    <3>1. j - k \in 1 .. Len(up) /\ up[j - k] = s[j]
      BY <1>1, <1>3, <2>3
    <3>. QED BY <1>5, <3>1 DEF Bytes
  <2>. QED BY <1>1, <2>1, <2>2, <2>3
<1>6. ASSUME NEW x \in Nat, NEW j \in 1 .. Len(low), Within(x, low[j])
      PROVE  x \in Bytes(s) /\ ~(x \in Span(s[k]))
  <2>1. j \in 1 .. Len(s) /\ j < k /\ low[j] = s[j]
    BY <1>1, <1>2
  <2>2. End(s[j]) < s[k].at /\ End(s[j]) \in Nat /\ s[j].at \in Nat
    BY <1>1, <2>1, RowIs, EntryIs
  <2>. QED BY <1>4, <1>6, <2>1, <2>2 DEF Bytes, Within
<1>7. ASSUME NEW x \in Nat, NEW j \in 1 .. Len(up), Within(x, up[j])
      PROVE  x \in Bytes(s) /\ ~(x \in Span(s[k]))
  <2>1. k + j \in 1 .. Len(s) /\ k < k + j /\ up[j] = s[k + j]
    BY <1>1, <1>3
  <2>2. End(s[k]) < s[k + j].at /\ End(s[k]) \in Nat /\ s[k + j].at \in Nat
    BY <1>1, <2>1, RowIs, EntryIs
  <2>. QED BY <1>4, <1>7, <2>1, <2>2 DEF Bytes, Within
<1>8. Bytes(s) = Bytes(low) \cup Span(s[k]) \cup Bytes(up)
  BY <1>4, <1>5, <1>6, <1>7 DEF Bytes
<1>9. Span(s[k]) \cap Bytes(low) = {} /\ Span(s[k]) \cap Bytes(up) = {}
  BY <1>6, <1>7 DEF Bytes
<1>. QED BY <1>2, <1>3, <1>8, <1>9 DEF low, up

\* A row falls into what is below a place and what is from there on.
LEMMA RowParted ==
  ASSUME NEW s \in Row, NEW p \in 1 .. Len(s) + 1
  PROVE  Bytes(s) = Bytes(SubSeq(s, 1, p - 1)) \cup Bytes(SubSeq(s, p, Len(s)))
<1>. DEFINE low == SubSeq(s, 1, p - 1)
            up == SubSeq(s, p, Len(s))
<1>1. Len(s) \in Nat
  BY RowIs
<1>2. Len(low) = p - 1 /\ \A j \in 1 .. p - 1 : low[j] = s[j]
  BY <1>1, PartOfRow
<1>3. Len(up) = Len(s) - p + 1 /\ \A j \in 1 .. Len(s) - p + 1 : up[j] = s[p + j - 1]
  BY <1>1, PartOfRow
<1>. HIDE DEF low, up
<1>4. ASSUME NEW x \in Nat, NEW j \in 1 .. Len(s), Within(x, s[j]) PROVE x \in Bytes(low) \cup Bytes(up)
  <2>1. CASE j < p
    <3>1. j \in 1 .. Len(low) /\ low[j] = s[j]
      BY <1>1, <1>2, <2>1
    <3>. QED BY <1>4, <3>1 DEF Bytes
  <2>2. CASE p <= j
    <3>1. j - p + 1 \in 1 .. Len(up) /\ up[j - p + 1] = s[j]
      BY <1>1, <1>3, <2>2
    <3>. QED BY <1>4, <3>1 DEF Bytes
  <2>. QED BY <1>1, <2>1, <2>2
<1>5. ASSUME NEW x \in Nat, NEW j \in 1 .. Len(low), Within(x, low[j]) PROVE x \in Bytes(s)
  <2>1. j \in 1 .. Len(s) /\ low[j] = s[j]
    BY <1>1, <1>2
  <2>. QED BY <1>5, <2>1 DEF Bytes
<1>6. ASSUME NEW x \in Nat, NEW j \in 1 .. Len(up), Within(x, up[j]) PROVE x \in Bytes(s)
  <2>1. p + j - 1 \in 1 .. Len(s) /\ up[j] = s[p + j - 1]
    BY <1>1, <1>3
  <2>. QED BY <1>6, <2>1 DEF Bytes
<1>. QED BY <1>4, <1>5, <1>6 DEF Bytes, low, up

LEMMA RowWithout ==
  ASSUME NEW s \in Row, NEW k \in 1 .. Len(s)
  PROVE  /\ Without(s, k) \in Row
         /\ Bytes(Without(s, k)) = Bytes(s) \ Span(s[k])
         /\ \A b \in Nat : (\A j \in 1 .. Len(s) : End(s[j]) < b)
                             => \A j \in 1 .. Len(Without(s, k)) : End(Without(s, k)[j]) < b
<1>. DEFINE low == SubSeq(s, 1, k - 1)
            up == SubSeq(s, k + 1, Len(s))
<1>1. /\ low \in Row /\ Len(low) = k - 1 /\ \A j \in 1 .. k - 1 : low[j] = s[j]
      /\ up \in Row /\ Len(up) = Len(s) - k /\ \A j \in 1 .. Len(s) - k : up[j] = s[k + j]
      /\ Bytes(s) = Bytes(low) \cup Span(s[k]) \cup Bytes(up)
      /\ Span(s[k]) \cap Bytes(low) = {} /\ Span(s[k]) \cap Bytes(up) = {}
  BY RowAround
<1>2. Without(s, k) = low \o up
  BY DEF Without
<1>. HIDE DEF low, up
<1>3. Len(s) \in Nat
  BY RowIs
<1>4. ASSUME NEW j \in 1 .. Len(low), NEW i \in 1 .. Len(up) PROVE End(low[j]) < up[i].at
  <2>1. j \in 1 .. Len(s) /\ k + i \in 1 .. Len(s) /\ j < k + i /\ low[j] = s[j] /\ up[i] = s[k + i]
    BY <1>1, <1>3
  <2>. QED BY <2>1, RowIs
<1>5. /\ low \o up \in Row /\ Len(low \o up) = Len(low) + Len(up)
      /\ \A j \in 1 .. Len(low) : (low \o up)[j] = low[j]
      /\ \A j \in 1 .. Len(up) : (low \o up)[Len(low) + j] = up[j]
      /\ Bytes(low \o up) = Bytes(low) \cup Bytes(up)
  BY <1>1, <1>4, RowsMeet
<1>6. ASSUME NEW b \in Nat, \A j \in 1 .. Len(s) : End(s[j]) < b, NEW j \in 1 .. Len(low \o up)
      PROVE  End((low \o up)[j]) < b
  <2>1. CASE j < k
    <3>1. j \in 1 .. Len(s) /\ (low \o up)[j] = s[j]
      BY <1>1, <1>3, <1>5, <2>1
    <3>. QED BY <1>6, <3>1
  <2>2. CASE ~(j < k)
    <3>1. j - k + 1 \in 1 .. Len(up) /\ j = Len(low) + (j - k + 1)
      BY SMTT(30), <1>1, <1>3, <1>5, <2>2
    <3>2. (low \o up)[j] = up[j - k + 1]
      BY <1>5, <3>1
    <3>3. up[j - k + 1] = s[j + 1] /\ j + 1 \in 1 .. Len(s)
      BY <1>1, <1>3, <1>5, <3>1
    <3>. QED BY <1>6, <3>2, <3>3
  <2>. QED BY <2>1, <2>2
<1>. QED BY <1>1, <1>2, <1>5, <1>6

\* An entry may give way to one that lies inside it.
LEMMA RowExcept ==
  ASSUME NEW s \in Row, NEW k \in 1 .. Len(s), NEW c \in Entry,
         s[k].at <= c.at, End(c) <= End(s[k])
  PROVE  /\ [s EXCEPT ![k] = c] \in Row
         /\ Bytes([s EXCEPT ![k] = c]) = (Bytes(s) \ Span(s[k])) \cup Span(c)
         /\ \A b \in Nat : (\A j \in 1 .. Len(s) : End(s[j]) < b)
                             => \A j \in 1 .. Len([s EXCEPT ![k] = c]) : End([s EXCEPT ![k] = c][j]) < b
<1>. DEFINE t == [s EXCEPT ![k] = c]
<1>1. s \in Seq(Entry) /\ Len(s) \in Nat /\ \A j \in 1 .. Len(s) : s[j] \in Entry
  BY RowIs
<1>2. t \in Seq(Entry) /\ Len(t) = Len(s) /\ t[k] = c /\ \A j \in 1 .. Len(s) : j # k => t[j] = s[j]
  BY <1>1
<1>. HIDE DEF t
<1>3. /\ s[k].at \in Nat /\ s[k].sz \in Nat /\ End(s[k]) \in Nat /\ Span(s[k]) \in SUBSET Nat
      /\ c.at \in Nat /\ c.sz \in Nat /\ End(c) \in Nat /\ Span(c) \in SUBSET Nat
      /\ \A x \in Nat : x \in Span(s[k]) <=> Within(x, s[k])
      /\ \A x \in Nat : x \in Span(c) <=> Within(x, c)
  BY <1>1, EntryIs, SpanIs
<1>4. ASSUME NEW i \in 1 .. Len(s), NEW j \in 1 .. Len(s), i < j PROVE End(t[i]) < t[j].at
  <2>1. End(s[i]) < s[j].at /\ End(s[i]) \in Nat /\ s[j].at \in Nat
    BY <1>1, <1>4, RowIs, EntryIs
  <2>2. i # j
    BY <1>4
  <2>3. CASE i = k
    BY <1>2, <1>3, <2>1, <2>2, <2>3
  <2>4. CASE j = k
    BY <1>2, <1>3, <2>1, <2>2, <2>4
  <2>5. CASE i # k /\ j # k
    BY <1>2, <2>1, <2>5
  <2>. QED BY <2>3, <2>4, <2>5
<1>5. t \in Row
  BY <1>2, <1>4 DEF Row
<1>6. ASSUME NEW x \in Nat, NEW j \in 1 .. Len(s), j # k, Within(x, s[j]) PROVE ~(x \in Span(s[k]))
  <2>1. /\ s[j].at \in Nat /\ End(s[j]) \in Nat
        /\ j < k => End(s[j]) < s[k].at
        /\ k < j => End(s[k]) < s[j].at
    BY <1>1, RowIs, EntryIs
  <2>2. j < k \/ k < j
    BY <1>1, <1>6
  <2>. QED BY <1>3, <1>6, <2>1, <2>2 DEF Within
<1>7. Bytes(t) = (Bytes(s) \ Span(s[k])) \cup Span(c)
  <2>1. ASSUME NEW x \in Nat, NEW j \in 1 .. Len(t), Within(x, t[j])
        PROVE  x \in (Bytes(s) \ Span(s[k])) \cup Span(c)
    <3>1. CASE j = k
      BY <1>2, <1>3, <2>1, <3>1
    <3>2. CASE j # k
      <4>1. Within(x, s[j]) /\ j \in 1 .. Len(s)
        BY <1>2, <2>1, <3>2
      <4>2. x \in Bytes(s) /\ ~(x \in Span(s[k]))
        BY <1>6, <3>2, <4>1 DEF Bytes
      <4>. QED BY <4>2
    <3>. QED BY <3>1, <3>2
  <2>2. ASSUME NEW x \in Nat, NEW j \in 1 .. Len(s), Within(x, s[j]), ~(x \in Span(s[k]))
        PROVE  x \in Bytes(t)
    <3>1. j # k
      BY <1>3, <2>2
    <3>2. t[j] = s[j] /\ j \in 1 .. Len(t)
      BY <1>2, <3>1
    <3>. QED BY <2>2, <3>2 DEF Bytes
  <2>3. ASSUME NEW x \in Nat, x \in Span(c) PROVE x \in Bytes(t)
    BY <1>2, <1>3, <2>3 DEF Bytes
  <2>. QED BY <1>3, <2>1, <2>2, <2>3 DEF Bytes
<1>8. ASSUME NEW b \in Nat, \A j \in 1 .. Len(s) : End(s[j]) < b, NEW j \in 1 .. Len(t) PROVE End(t[j]) < b
  <2>1. CASE j = k
    BY <1>2, <1>3, <1>8, <2>1
  <2>2. CASE j # k
    BY <1>2, <1>8, <2>2
  <2>. QED BY <2>1, <2>2
<1>. QED BY <1>5, <1>7, <1>8 DEF t

-----------------------------------------------------------------------------
(* free                                                                    *)

LEMMA HeadOfRow ==
  ASSUME NEW s \in Row, s # << >>
  PROVE  /\ Len(s) \in Nat /\ 1 <= Len(s) /\ Head(s) = s[1] /\ Head(s) \in Entry
         /\ Tail(s) \in Row /\ Len(Tail(s)) = Len(s) - 1
         /\ \A j \in 1 .. Len(s) - 1 : Tail(s)[j] = s[j + 1]
         /\ Bytes(s) = Span(Head(s)) \cup Bytes(Tail(s))
         /\ \A j \in 1 .. Len(Tail(s)) : End(Head(s)) < Tail(s)[j].at
<1>1. s \in Seq(Entry) /\ Len(s) \in Nat /\ \A k \in 1 .. Len(s) : s[k] \in Entry
  BY RowIs
<1>2. 1 <= Len(s) /\ Head(s) = s[1]
  BY <1>1
<1>3. /\ Tail(s) \in Seq(Entry) /\ Len(Tail(s)) = Len(s) - 1
      /\ \A j \in 1 .. Len(s) - 1 : Tail(s)[j] = s[j + 1]
  BY <1>1, <1>2
<1>. DEFINE t == Tail(s)
<1>. HIDE DEF t
<1>4. t \in Seq(Entry) /\ Len(t) = Len(s) - 1 /\ \A j \in 1 .. Len(s) - 1 : t[j] = s[j + 1]
  BY <1>3 DEF t
<1>5. ASSUME NEW i \in 1 .. Len(t), NEW j \in 1 .. Len(t), i < j PROVE End(t[i]) < t[j].at
  <2>1. i + 1 \in 1 .. Len(s) /\ j + 1 \in 1 .. Len(s) /\ i + 1 < j + 1
        /\ t[i] = s[i + 1] /\ t[j] = s[j + 1]
    BY <1>1, <1>4, <1>5
  <2>. QED BY <2>1, RowIs
<1>6. ASSUME NEW j \in 1 .. Len(t) PROVE End(s[1]) < t[j].at
  <2>1. 1 \in 1 .. Len(s) /\ j + 1 \in 1 .. Len(s) /\ 1 < j + 1 /\ t[j] = s[j + 1]
    BY <1>1, <1>2, <1>4
  <2>. QED BY <2>1, RowIs
<1>7. Bytes(s) = Span(s[1]) \cup Bytes(t)
  <2>1. /\ 1 \in 1 .. Len(s) /\ s[1] \in Entry /\ Span(s[1]) \in SUBSET Nat
        /\ \A x \in Nat : x \in Span(s[1]) <=> Within(x, s[1])
    BY <1>1, <1>2, EntryIs, SpanIs
  <2>2. ASSUME NEW x \in Nat, NEW j \in 1 .. Len(s), Within(x, s[j]) PROVE x \in Span(s[1]) \cup Bytes(t)
    <3>1. CASE j = 1
      BY <2>1, <2>2, <3>1
    <3>2. CASE j # 1
      <4>1. j - 1 \in 1 .. Len(t) /\ t[j - 1] = s[j]
        BY <1>1, <1>4, <3>2
      <4>. QED BY <2>2, <4>1 DEF Bytes
    <3>. QED BY <3>1, <3>2
  <2>3. ASSUME NEW x \in Nat, x \in Span(s[1]) PROVE x \in Bytes(s)
    BY <2>1, <2>3 DEF Bytes
  <2>4. ASSUME NEW x \in Nat, NEW j \in 1 .. Len(t), Within(x, t[j]) PROVE x \in Bytes(s)
    <3>1. j + 1 \in 1 .. Len(s) /\ t[j] = s[j + 1]
      BY <1>1, <1>4
    <3>. QED BY <2>4, <3>1 DEF Bytes
  <2>. QED BY <2>1, <2>2, <2>3, <2>4 DEF Bytes
<1>8. t \in Row
  BY <1>4, <1>5 DEF Row
<1>. QED BY <1>1, <1>2, <1>4, <1>6, <1>7, <1>8 DEF t

LEMMA LastOfRow ==
  ASSUME NEW s \in Row, s # << >>
  PROVE  /\ SubSeq(s, 1, Len(s) - 1) \in Row /\ Len(SubSeq(s, 1, Len(s) - 1)) = Len(s) - 1
         /\ \A k \in 1 .. Len(s) - 1 : SubSeq(s, 1, Len(s) - 1)[k] = s[k]
         /\ Bytes(s) = Bytes(SubSeq(s, 1, Len(s) - 1)) \cup Span(s[Len(s)])
<1>1. s \in Seq(Entry) /\ Len(s) \in Nat
  BY RowIs
<1>2. Len(s) \in 1 .. Len(s)
  BY <1>1
<1>3. PICK n \in 1 .. Len(s) : n = Len(s)
  BY <1>2
<1>. DEFINE low == SubSeq(s, 1, n - 1)
            up == SubSeq(s, n + 1, Len(s))
<1>4. /\ low \in Row /\ Len(low) = n - 1
      /\ \A j \in 1 .. n - 1 : low[j] = s[j]
      /\ Len(up) = Len(s) - n
      /\ Bytes(s) = Bytes(low) \cup Span(s[n]) \cup Bytes(up)
  BY RowAround
<1>. HIDE DEF low, up
<1>5. Len(up) = 0
  BY <1>1, <1>3, <1>4
<1>6. Bytes(up) = {}
  BY <1>5 DEF Bytes
<1>. QED BY <1>3, <1>4, <1>6 DEF low

\* A chunk and the entry it touches make one entry.
LEMMA JoinedIs ==
  ASSUME NEW c \in Entry, NEW d \in Entry, Joins(c, d)
  PROVE  /\ Joined(c, d) \in Entry /\ Joined(c, d).at = c.at /\ End(Joined(c, d)) = End(d)
         /\ Span(Joined(c, d)) = Span(c) \cup Span(d)
<1>1. /\ c.at \in Nat /\ c.sz \in Nat /\ HeapStart <= c.at /\ 2 <= c.sz /\ End(c) = c.at + 2 + c.sz
      /\ d.at \in Nat /\ d.sz \in Nat /\ 2 <= d.sz /\ End(d) = d.at + 2 + d.sz
      /\ End(c) = d.at
  BY EntryIs DEF Joins, Touches
<1>2. Joined(c, d) = [at |-> c.at, sz |-> c.sz + d.sz + 2]
  BY DEF Joined, Piece, SizeT
<1>3. c.sz + d.sz + 2 \in Nat /\ 2 <= c.sz + d.sz + 2
      /\ c.at + 2 + (c.sz + d.sz + 2) = d.at + 2 + d.sz
  BY <1>1
<1>4. Joined(c, d) \in Entry
  BY <1>1, <1>2, <1>3 DEF Entry, Freelist, SizeT
<1>5. Joined(c, d).at = c.at /\ End(Joined(c, d)) = End(d)
  BY <1>1, <1>2, <1>3 DEF End, SizeT
<1>6. ASSUME NEW x PROVE x \in Span(Joined(c, d)) <=> x \in Span(c) \cup Span(d)
  <2>1. Span(Joined(c, d)) = c.at .. End(d) - 1
    BY <1>5 DEF Span
  <2>2. Span(c) = c.at .. d.at - 1 /\ Span(d) = d.at .. End(d) - 1
    BY <1>1 DEF Span
  <2>3. c.at < d.at /\ d.at < End(d) /\ End(d) \in Nat
    BY <1>1
  <2>. QED BY SMTT(30), <1>1, <2>1, <2>2, <2>3
<1>. QED BY <1>4, <1>5, <1>6

\* The chunk in front of the entries above it.
LEMMA WithUpperIs ==
  ASSUME NEW c \in Entry, NEW upper \in Row,
         \A k \in 1 .. Len(upper) : End(c) <= upper[k].at
  PROVE  /\ WithUpper(c, upper) \in Row /\ WithUpper(c, upper) # << >>
         /\ Head(WithUpper(c, upper)).at = c.at
         /\ Bytes(WithUpper(c, upper)) = Span(c) \cup Bytes(upper)
         /\ \A b \in Nat :
              End(c) <= b /\ (\A k \in 1 .. Len(upper) : End(upper[k]) < b)
                => \A k \in 1 .. Len(WithUpper(c, upper)) : End(WithUpper(c, upper)[k]) <= b
         /\ \A b \in Nat :
              upper # << >> /\ (\A k \in 1 .. Len(upper) : End(upper[k]) < b)
                => \A k \in 1 .. Len(WithUpper(c, upper)) : End(WithUpper(c, upper)[k]) < b
<1>1. /\ c.at \in Nat /\ End(c) \in Nat /\ Span(c) \in SUBSET Nat
      /\ Len(upper) \in Nat /\ upper \in Seq(Entry)
      /\ \A k \in 1 .. Len(upper) : upper[k] \in Entry /\ upper[k].at \in Nat /\ End(upper[k]) \in Nat
                                      /\ upper[k].at < End(upper[k])
  <2>1. c.at \in Nat /\ End(c) \in Nat /\ Span(c) \in SUBSET Nat
    BY EntryIs, SpanIs
  <2>2. Len(upper) \in Nat /\ upper \in Seq(Entry)
    BY RowIs
  <2>3. ASSUME NEW k \in 1 .. Len(upper)
        PROVE  upper[k] \in Entry /\ upper[k].at \in Nat /\ End(upper[k]) \in Nat
               /\ upper[k].at < End(upper[k])
    <3>1. upper[k] \in Entry
      BY RowIs
    <3>2. upper[k].at \in Nat /\ upper[k].sz \in Nat /\ End(upper[k]) = upper[k].at + 2 + upper[k].sz
      BY <3>1, EntryIs
    <3>. QED BY <3>1, <3>2
  <2>. QED BY <2>1, <2>2, <2>3
<1>2. CASE upper # << >> /\ Joins(c, Head(upper))
  <2>. DEFINE j == Joined(c, Head(upper))
              rest == Tail(upper)
  <2>1. /\ 1 <= Len(upper) /\ Head(upper) = upper[1] /\ Head(upper) \in Entry
        /\ rest \in Row /\ Len(rest) = Len(upper) - 1
        /\ \A k \in 1 .. Len(upper) - 1 : rest[k] = upper[k + 1]
        /\ Bytes(upper) = Span(Head(upper)) \cup Bytes(rest)
        /\ \A k \in 1 .. Len(rest) : End(Head(upper)) < rest[k].at
    BY <1>2, HeadOfRow
  <2>2. j \in Entry /\ j.at = c.at /\ End(j) = End(Head(upper)) /\ Span(j) = Span(c) \cup Span(Head(upper))
    BY <1>2, <2>1, JoinedIs
  <2>3. WithUpper(c, upper) = << j >> \o rest
    BY <1>2 DEF WithUpper
  <2>. HIDE DEF j, rest
  <2>4. << j >> \in Row /\ Len(<< j >>) = 1 /\ << j >>[1] = j /\ Bytes(<< j >>) = Span(j)
    BY <2>2, RowOfOne
  <2>. DEFINE front == << j >>
              w == front \o rest
  <2>. HIDE DEF front
  <2>5. front \in Row /\ Len(front) = 1 /\ front[1] = j /\ Bytes(front) = Span(j)
    BY <2>4 DEF front
  <2>6. \A i \in 1 .. Len(front), k \in 1 .. Len(rest) : End(front[i]) < rest[k].at
    BY <2>1, <2>2, <2>5
  <2>7. /\ w \in Row /\ Len(w) = Len(front) + Len(rest)
        /\ \A k \in 1 .. Len(front) : w[k] = front[k]
        /\ \A k \in 1 .. Len(rest) : w[Len(front) + k] = rest[k]
        /\ Bytes(w) = Bytes(front) \cup Bytes(rest)
    BY <2>1, <2>5, <2>6, RowsMeet
  <2>. HIDE DEF w
  <2>8. w \in Seq(Entry) /\ w # << >> /\ Head(w) = w[1] /\ w[1] = j
    <3>1. w \in Seq(Entry) /\ Len(w) \in Nat /\ 1 <= Len(w)
      BY <1>1, <2>1, <2>5, <2>7, RowIs
    <3>2. w # << >> /\ Head(w) = w[1]
      BY <3>1
    <3>3. 1 \in 1 .. Len(front)
      BY <2>5
    <3>. QED BY <2>5, <2>7, <3>1, <3>2, <3>3
  <2>9. Bytes(w) = Span(c) \cup Bytes(upper)
    BY <2>1, <2>2, <2>5, <2>7
  <2>10. ASSUME NEW k \in 1 .. Len(w) PROVE \E i \in 1 .. Len(upper) : End(w[k]) = End(upper[i])
    <3>1. CASE k = 1
      BY <1>1, <2>1, <2>2, <2>8, <3>1
    <3>2. CASE k # 1
      <4>1. k - 1 \in 1 .. Len(rest) /\ k = Len(front) + (k - 1) /\ k \in 1 .. Len(upper)
        BY <1>1, <2>1, <2>5, <2>7, <3>2
      <4>2. w[k] = rest[k - 1]
        BY <2>7, <4>1
      <4>3. rest[k - 1] = upper[k]
        BY <1>1, <2>1, <4>1
      <4>. QED BY <4>1, <4>2, <4>3
    <3>. QED BY <3>1, <3>2
  <2>11. ASSUME NEW b \in Nat, \A k \in 1 .. Len(upper) : End(upper[k]) < b, NEW k \in 1 .. Len(w)
         PROVE  End(w[k]) < b /\ End(w[k]) <= b
    BY <1>1, <2>10, <2>11
  <2>. QED BY <2>2, <2>3, <2>7, <2>8, <2>9, <2>11 DEF w, front
<1>3. CASE ~(upper # << >> /\ Joins(c, Head(upper)))
  <2>1. WithUpper(c, upper) = << c >> \o upper
    BY <1>3 DEF WithUpper
  <2>. DEFINE front == << c >>
              w == front \o upper
  <2>2. front \in Row /\ Len(front) = 1 /\ front[1] = c /\ Bytes(front) = Span(c)
    BY RowOfOne
  <2>. HIDE DEF front
  <2>3. ASSUME upper # << >> PROVE \A k \in 1 .. Len(upper) : End(c) < upper[k].at
    <3>1. /\ 1 <= Len(upper) /\ Head(upper) = upper[1]
          /\ Len(Tail(upper)) = Len(upper) - 1
          /\ \A k \in 1 .. Len(upper) - 1 : Tail(upper)[k] = upper[k + 1]
          /\ \A k \in 1 .. Len(Tail(upper)) : End(Head(upper)) < Tail(upper)[k].at
      BY <2>3, HeadOfRow
    <3>2. 1 \in 1 .. Len(upper) /\ End(c) # upper[1].at
      BY <1>1, <1>3, <2>3, <3>1 DEF Joins, Touches
    <3>3. End(c) < upper[1].at /\ upper[1].at < End(upper[1])
      BY <1>1, <3>2
    <3>4. ASSUME NEW k \in 1 .. Len(upper), k # 1 PROVE End(upper[1]) < upper[k].at
      BY <1>1, <3>2, <3>4, RowIs
    <3>. QED BY <1>1, <3>2, <3>3, <3>4
  <2>4. \A i \in 1 .. Len(front), k \in 1 .. Len(upper) : End(front[i]) < upper[k].at
    <3>1. ASSUME NEW k \in 1 .. Len(upper) PROVE upper # << >>
      BY <1>1
    <3>. QED BY <2>2, <2>3, <3>1
  <2>5. /\ w \in Row /\ Len(w) = Len(front) + Len(upper)
        /\ \A k \in 1 .. Len(front) : w[k] = front[k]
        /\ \A k \in 1 .. Len(upper) : w[Len(front) + k] = upper[k]
        /\ Bytes(w) = Bytes(front) \cup Bytes(upper)
    BY <2>2, <2>4, RowsMeet
  <2>. HIDE DEF w
  <2>6. w # << >> /\ Head(w) = w[1] /\ w[1] = c
    <3>1. w \in Seq(Entry) /\ Len(w) \in Nat /\ 1 <= Len(w)
      BY <1>1, <2>2, <2>5, RowIs
    <3>2. w # << >> /\ Head(w) = w[1]
      BY <3>1
    <3>3. 1 \in 1 .. Len(front)
      BY <2>2
    <3>. QED BY <2>2, <2>5, <3>2, <3>3
  <2>7. ASSUME NEW k \in 1 .. Len(w)
        PROVE  w[k] = c \/ \E i \in 1 .. Len(upper) : w[k] = upper[i]
    <3>1. CASE k = 1
      BY <2>6, <3>1
    <3>2. CASE k # 1
      <4>1. k - 1 \in 1 .. Len(upper) /\ k = Len(front) + (k - 1)
        BY <1>1, <2>2, <2>5, <3>2
      <4>. QED BY <2>5, <4>1
    <3>. QED BY <3>1, <3>2
  <2>8. ASSUME NEW b \in Nat, End(c) <= b, \A k \in 1 .. Len(upper) : End(upper[k]) < b, NEW k \in 1 .. Len(w)
        PROVE  End(w[k]) <= b
    BY <1>1, <2>7, <2>8
  <2>9. ASSUME NEW b \in Nat, upper # << >>, \A k \in 1 .. Len(upper) : End(upper[k]) < b, NEW k \in 1 .. Len(w)
        PROVE  End(w[k]) < b
    <3>1. 1 \in 1 .. Len(upper)
      BY <1>1, <2>9
    <3>2. End(c) < upper[1].at /\ upper[1].at < End(upper[1]) /\ End(upper[1]) < b
      BY <1>1, <2>3, <2>9, <3>1
    <3>3. End(c) < b
      BY <1>1, <3>1, <3>2
    <3>. QED BY <1>1, <2>7, <2>9, <3>3
  <2>10. w \in Row /\ w # << >> /\ Head(w).at = c.at /\ Bytes(w) = Span(c) \cup Bytes(upper)
    BY <2>2, <2>5, <2>6
  <2>11. WithUpper(c, upper) = w
    BY <2>1 DEF w, front
  <2>. QED BY <2>8, <2>9, <2>10, <2>11
<1>. QED BY <1>2, <1>3

\* The entries below, in front of the chunk and what is above it.
LEMMA WithLowerIs ==
  ASSUME NEW lower \in Row, lower # << >>, NEW list \in Row, list # << >>,
         \A k \in 1 .. Len(lower) : End(lower[k]) <= Head(list).at
  PROVE  /\ WithLower(lower, list) \in Row /\ WithLower(lower, list) # << >>
         /\ Bytes(WithLower(lower, list)) = Bytes(lower) \cup Bytes(list)
         /\ \A b \in Nat :
              /\ \A k \in 1 .. Len(lower) : End(lower[k]) <= b
              /\ \A k \in 1 .. Len(list) : End(list[k]) <= b
              => \A k \in 1 .. Len(WithLower(lower, list)) : End(WithLower(lower, list)[k]) <= b
<1>. DEFINE n == Len(lower)
            last == lower[n]
            first == Head(list)
            rest == Tail(list)
            front == SubSeq(lower, 1, n - 1)
<1>1. /\ Len(lower) \in Nat /\ lower \in Seq(Entry)
      /\ \A k \in 1 .. Len(lower) : lower[k] \in Entry
      /\ \A j, k \in 1 .. Len(lower) : j < k => End(lower[j]) < lower[k].at
  BY RowIs
<1>2. n \in 1 .. Len(lower) /\ last \in Entry /\ n \in Nat /\ n = Len(lower)
  BY <1>1
<1>3. /\ Len(list) \in Nat /\ 1 <= Len(list) /\ first = list[1] /\ first \in Entry
      /\ rest \in Row /\ Len(rest) = Len(list) - 1
      /\ \A k \in 1 .. Len(list) - 1 : rest[k] = list[k + 1]
      /\ Bytes(list) = Span(first) \cup Bytes(rest)
      /\ \A k \in 1 .. Len(rest) : End(first) < rest[k].at
  BY HeadOfRow
<1>4. front \in Row /\ Len(front) = n - 1 /\ \A k \in 1 .. n - 1 : front[k] = lower[k]
  BY LastOfRow
<1>5. Bytes(lower) = Bytes(front) \cup Span(last)
  BY LastOfRow
<1>6. /\ first.at \in Nat /\ first.at < End(first) /\ End(first) \in Nat
      /\ last.at \in Nat /\ last.at < End(last) /\ End(last) \in Nat
  <2>1. first.at \in Nat /\ first.at < End(first) /\ End(first) \in Nat
    BY <1>3, EntryIs
  <2>2. last.at \in Nat /\ last.at < End(last) /\ End(last) \in Nat
    BY <1>2, EntryIs
  <2>. QED BY <2>1, <2>2
<1>7. \A k \in 1 .. Len(lower) : End(lower[k]) \in Nat
  BY <1>1, EntryIs
<1>8. \A k \in 1 .. Len(list) : list[k] \in Entry /\ End(list[k]) \in Nat
  BY EntryIs, RowIs
<1>9. \A k \in 1 .. n : End(lower[k]) <= first.at
  OBVIOUS
<1>10. WithLower(lower, list) = IF Joins(last, first) THEN front \o << Joined(last, first) >> \o rest
                                ELSE lower \o list
  BY DEF WithLower
<1>. HIDE DEF n, last, first, rest, front
<1>11. CASE Joins(last, first)
  <2>. DEFINE j == Joined(last, first)
              one == << j >>
              u == front \o one
              w == u \o rest
  <2>1. j \in Entry /\ j.at = last.at /\ End(j) = End(first) /\ Span(j) = Span(last) \cup Span(first)
    BY <1>2, <1>3, <1>11, JoinedIs
  <2>. HIDE DEF j
  <2>2. one \in Row /\ Len(one) = 1 /\ one[1] = j /\ Bytes(one) = Span(j)
    BY <2>1, RowOfOne
  <2>. HIDE DEF one
  <2>3. \A i \in 1 .. Len(front), k \in 1 .. Len(one) : End(front[i]) < one[k].at
    <3>1. ASSUME NEW i \in 1 .. Len(front) PROVE End(front[i]) < last.at
      <4>1. i \in 1 .. n /\ n \in 1 .. n /\ i < n /\ front[i] = lower[i]
        BY <1>2, <1>4
      <4>. QED BY <1>1, <4>1 DEF n, last
    <3>. QED BY <2>1, <2>2, <3>1
  <2>4. /\ u \in Row /\ Len(u) = Len(front) + Len(one)
        /\ \A k \in 1 .. Len(front) : u[k] = front[k]
        /\ \A k \in 1 .. Len(one) : u[Len(front) + k] = one[k]
        /\ Bytes(u) = Bytes(front) \cup Bytes(one)
    BY <1>4, <2>2, <2>3, RowsMeet
  <2>. HIDE DEF u
  <2>5. ASSUME NEW k \in 1 .. Len(u)
        PROVE  End(u[k]) = End(first) \/ (k \in 1 .. n /\ End(u[k]) = End(lower[k]))
    <3>1. CASE k <= Len(front)
      BY <1>2, <1>4, <2>4, <3>1
    <3>2. CASE ~(k <= Len(front))
      <4>1. k = Len(front) + 1 /\ 1 \in 1 .. Len(one)
        BY <1>2, <1>4, <2>2, <2>4, <3>2
      <4>2. u[k] = j
        BY <2>2, <2>4, <4>1
      <4>. QED BY <2>1, <4>2
    <3>. QED BY <3>1, <3>2
  <2>6. \A i \in 1 .. Len(u), k \in 1 .. Len(rest) : End(u[i]) < rest[k].at
    <3>1. ASSUME NEW k \in 1 .. Len(rest) PROVE End(first) < rest[k].at /\ rest[k].at \in Nat
      BY <1>3, RowIs, EntryIs
    <3>2. ASSUME NEW i \in 1 .. Len(u) PROVE End(u[i]) \in Nat /\ End(u[i]) <= End(first)
      BY <1>2, <1>6, <1>7, <1>9, <2>5
    <3>. QED BY <1>6, <3>1, <3>2
  <2>7. /\ w \in Row /\ Len(w) = Len(u) + Len(rest)
        /\ \A k \in 1 .. Len(u) : w[k] = u[k]
        /\ \A k \in 1 .. Len(rest) : w[Len(u) + k] = rest[k]
        /\ Bytes(w) = Bytes(u) \cup Bytes(rest)
    BY <1>3, <2>4, <2>6, RowsMeet
  <2>. HIDE DEF w
  <2>8. w # << >>
    <3>1. w \in Seq(Entry) /\ 1 <= Len(w)
      BY <1>2, <1>3, <1>4, <2>2, <2>4, <2>7, RowIs
    <3>. QED BY <3>1
  <2>9. ASSUME NEW b \in Nat, \A k \in 1 .. n : End(lower[k]) <= b,
               \A k \in 1 .. Len(list) : End(list[k]) <= b, NEW k \in 1 .. Len(w)
        PROVE  End(w[k]) <= b
    <3>1. CASE k <= Len(u)
      <4>1. w[k] = u[k] /\ k \in 1 .. Len(u)
        BY <1>4, <1>2, <2>2, <2>4, <2>7, <3>1
      <4>2. 1 \in 1 .. Len(list)
        BY <1>3
      <4>. QED BY <1>3, <2>5, <2>9, <4>1, <4>2
    <3>2. CASE ~(k <= Len(u))
      <4>1. k - Len(u) \in 1 .. Len(rest) /\ k = Len(u) + (k - Len(u))
        BY <1>2, <1>3, <1>4, <2>2, <2>4, <2>7, <3>2
      <4>2. w[k] = rest[k - Len(u)]
        BY <2>7, <4>1
      <4>3. k - Len(u) \in 1 .. Len(list) - 1 /\ Len(list) \in Nat
        BY <1>3, <4>1
      <4>4. rest[k - Len(u)] = list[k - Len(u) + 1]
        BY <1>3, <4>3
      <4>5. k - Len(u) + 1 \in 1 .. Len(list)
        BY <4>3
      <4>. QED BY <2>9, <4>2, <4>4, <4>5
    <3>. QED BY <3>1, <3>2
  <2>10. Bytes(w) = Bytes(lower) \cup Bytes(list)
    BY <1>3, <1>5, <2>1, <2>2, <2>4, <2>7
  <2>11. WithLower(lower, list) = w
    BY <1>10, <1>11 DEF w, u, one, j
  <2>. QED BY <2>7, <2>8, <2>9, <2>10, <2>11 DEF n
<1>12. CASE ~Joins(last, first)
  <2>. DEFINE w == lower \o list
  <2>1. End(last) < first.at
    BY <1>2, <1>6, <1>9, <1>12 DEF Joins, Touches, last
  <2>2. \A i \in 1 .. n : End(lower[i]) < first.at
    <3>1. ASSUME NEW i \in 1 .. n, i # n PROVE End(lower[i]) < last.at
      <4>1. i \in 1 .. Len(lower) /\ n \in 1 .. Len(lower) /\ i < n
        BY <1>2, <3>1
      <4>. QED BY <1>1, <4>1 DEF last
    <3>. QED BY <1>2, <1>6, <1>7, <2>1, <3>1 DEF last
  <2>3. \A k \in 1 .. Len(list) : first.at <= list[k].at
    <3>1. ASSUME NEW k \in 1 .. Len(list), k # 1 PROVE End(first) < list[k].at
      <4>1. 1 \in 1 .. Len(list) /\ 1 < k
        BY <1>3, <3>1
      <4>. QED BY <1>3, <4>1, RowIs
    <3>2. ASSUME NEW k \in 1 .. Len(list) PROVE list[k].at \in Nat
      BY <1>8, EntryIs
    <3>. QED BY <1>3, <1>6, <3>1, <3>2
  <2>4. \A i \in 1 .. Len(lower), k \in 1 .. Len(list) : End(lower[i]) < list[k].at
    <3>1. ASSUME NEW k \in 1 .. Len(list) PROVE list[k].at \in Nat
      BY <1>8, EntryIs
    <3>. QED BY <1>2, <1>6, <1>7, <2>2, <2>3, <3>1
  <2>5. /\ w \in Row /\ Len(w) = Len(lower) + Len(list)
        /\ \A k \in 1 .. Len(lower) : w[k] = lower[k]
        /\ \A k \in 1 .. Len(list) : w[Len(lower) + k] = list[k]
        /\ Bytes(w) = Bytes(lower) \cup Bytes(list)
    BY <2>4, RowsMeet
  <2>. HIDE DEF w
  <2>6. w # << >>
    <3>1. w \in Seq(Entry) /\ 1 <= Len(w)
      BY <1>1, <1>3, <2>5, RowIs
    <3>. QED BY <3>1
  <2>7. ASSUME NEW b \in Nat, \A k \in 1 .. Len(lower) : End(lower[k]) <= b,
               \A k \in 1 .. Len(list) : End(list[k]) <= b, NEW k \in 1 .. Len(w)
        PROVE  End(w[k]) <= b
    <3>1. CASE k <= Len(lower)
      BY <1>1, <2>5, <2>7, <3>1
    <3>2. CASE ~(k <= Len(lower))
      <4>1. k - Len(lower) \in 1 .. Len(list) /\ k = Len(lower) + (k - Len(lower))
        BY <1>1, <1>3, <2>5, <3>2
      <4>. QED BY <2>5, <2>7, <4>1
    <3>. QED BY <3>1, <3>2
  <2>8. WithLower(lower, list) = w
    BY <1>10, <1>12 DEF w
  <2>. QED BY <2>5, <2>6, <2>7, <2>8
<1>. QED BY <1>11, <1>12

\* A heap whose last entry may touch __brkval becomes one where it does not.
LEMMA LowerBrkIs ==
  ASSUME NEW list \in Row, list # << >>, NEW brk \in HeapStart .. Word - 1,
         \A k \in 1 .. Len(list) : End(list[k]) <= brk
  PROVE  /\ IsArena(LowerBrk(list, brk))
         /\ Unused(LowerBrk(list, brk)) = { x \in Nat : brk <= x } \cup Bytes(list)
<1>. DEFINE n == Len(list)
            last == list[n]
            front == SubSeq(list, 1, n - 1)
<1>1. Len(list) \in Nat /\ list \in Seq(Entry) /\ \A k \in 1 .. Len(list) : list[k] \in Entry
  BY RowIs
<1>2. n \in 1 .. Len(list) /\ n \in Nat /\ n = Len(list)
  BY <1>1
<1>3. last.at \in Nat /\ last.sz \in Nat /\ HeapStart <= last.at /\ End(last) = last.at + 2 + last.sz
      /\ Span(last) \in SUBSET Nat /\ \A x \in Nat : x \in Span(last) <=> Within(x, last)
  BY <1>1, <1>2, EntryIs, SpanIs
<1>4. front \in Row /\ Len(front) = n - 1 /\ \A k \in 1 .. n - 1 : front[k] = list[k]
  BY LastOfRow
<1>5. Bytes(list) = Bytes(front) \cup Span(last)
  BY LastOfRow
<1>6. \A k \in 1 .. n : k # n => End(list[k]) < last.at
  <2>1. ASSUME NEW k \in 1 .. n, k # n PROVE k \in 1 .. Len(list) /\ n \in 1 .. Len(list) /\ k < n
    BY <1>2, <2>1
  <2>. QED BY <2>1, RowIs
<1>7. LowerBrk(list, brk) = IF End(last) = brk THEN Arena(front, last.at) ELSE Arena(list, brk)
  BY DEF LowerBrk, Touches
<1>8. End(last) <= brk /\ brk \in Nat /\ HeapStart \in Nat /\ Word \in Nat
  BY <1>2, Constants
<1>. HIDE DEF n, last, front
<1>9. CASE End(last) = brk
  <2>. DEFINE a == Arena(front, last.at)
  <2>1. a = Arena(a.flp, a.brk) /\ a.flp = front /\ a.brk = last.at
    BY DEF Arena
  <2>2. last.at \in HeapStart .. Word - 1
    BY <1>3, <1>8, <1>9
  <2>3. \A k \in 1 .. Len(front) : End(front[k]) < last.at
    <3>1. ASSUME NEW k \in 1 .. Len(front) PROVE k \in 1 .. n /\ k # n /\ front[k] = list[k]
      BY <1>2, <1>4
    <3>. QED BY <1>6, <3>1
  <2>4. IsArena(a)
    BY <1>4, <2>1, <2>2, <2>3 DEF IsArena
  <2>5. \A x \in Nat : last.at <= x <=> brk <= x \/ x \in Span(last)
    BY SMTT(30), <1>3, <1>8, <1>9 DEF Within
  <2>6. Unused(a) = { x \in Nat : brk <= x } \cup Bytes(list)
    BY <1>3, <1>5, <2>1, <2>5 DEF Unused, Bytes
  <2>. QED BY <1>7, <1>9, <2>4, <2>6
<1>10. CASE ~(End(last) = brk)
  <2>. DEFINE a == Arena(list, brk)
  <2>1. a = Arena(a.flp, a.brk) /\ a.flp = list /\ a.brk = brk
    BY DEF Arena
  <2>2. End(last) < brk /\ End(last) \in Nat /\ last.at < End(last)
    BY <1>3, <1>8, <1>10
  <2>3. \A k \in 1 .. Len(list) : End(list[k]) < brk
    <3>1. ASSUME NEW k \in 1 .. n, k # n PROVE End(list[k]) < last.at /\ End(list[k]) \in Nat
      BY <1>1, <1>2, <1>6, <3>1, EntryIs
    <3>. QED BY <1>2, <1>3, <1>8, <2>2, <3>1 DEF last
  <2>4. IsArena(a)
    BY <2>1, <2>3 DEF IsArena
  <2>. QED BY <1>7, <1>10, <2>1, <2>4 DEF Unused
<1>. QED BY <1>9, <1>10

\* The arena, as the proofs need it.
LEMMA ArenaIs ==
  ASSUME NEW a, IsArena(a)
  PROVE  /\ a.flp \in Row /\ a.brk \in HeapStart .. Word - 1 /\ a.brk \in Nat
         /\ Len(a.flp) \in Nat /\ DOMAIN a.flp = 1 .. Len(a.flp)
         /\ \A k \in 1 .. Len(a.flp) : End(a.flp[k]) < a.brk /\ a.flp[k] \in Entry
<1>1. a.flp \in Row /\ a.brk \in HeapStart .. Word - 1
      /\ \A k \in 1 .. Len(a.flp) : End(a.flp[k]) < a.brk
  BY DEF IsArena
<1>2. a.flp \in Seq(Entry) /\ \A k \in 1 .. Len(a.flp) : a.flp[k] \in Entry
  BY <1>1, RowIs
<1>3. a.brk \in Nat
  BY <1>1, Constants
<1>4. Len(a.flp) \in Nat /\ DOMAIN a.flp = 1 .. Len(a.flp)
  BY <1>2
<1>. QED BY <1>1, <1>2, <1>3, <1>4

\* What shares no byte with the free ones lies between the entries and
\* below __brkval.
LEMMA BetweenEntries ==
  ASSUME NEW a, IsArena(a), NEW c \in Entry, Span(c) \cap Unused(a) = {}
  PROVE  /\ End(c) <= a.brk
         /\ \A k \in 1 .. Len(a.flp) : IF a.flp[k].at < c.at THEN End(a.flp[k]) <= c.at
                                                              ELSE End(c) <= a.flp[k].at
<1>1. /\ c.at \in Nat /\ c.sz \in Nat /\ End(c) \in Nat /\ c.at < End(c)
      /\ \A x \in Nat : x \in Span(c) <=> Within(x, c)
  <2>1. c.at \in Nat /\ c.sz \in Nat /\ End(c) \in Nat /\ c.at < End(c)
    BY EntryIs
  <2>. QED BY <2>1, SpanIs
<1>2. a.brk \in Nat
  BY ArenaIs
<1>3. End(c) <= a.brk
  <2>1. End(c) - 1 \in Nat /\ End(c) - 1 \in Span(c)
    BY <1>1 DEF Within
  <2>2. ~(a.brk <= End(c) - 1)
    BY <2>1 DEF Unused
  <2>. QED BY <1>1, <1>2, <2>2
<1>4. ASSUME NEW k \in 1 .. Len(a.flp)
      PROVE  IF a.flp[k].at < c.at THEN End(a.flp[k]) <= c.at ELSE End(c) <= a.flp[k].at
  <2>. DEFINE d == a.flp[k]
  <2>1. d \in Entry
    BY ArenaIs
  <2>2. d.at \in Nat /\ End(d) \in Nat /\ d.at < End(d)
    BY <2>1, EntryIs
  <2>3. \A x \in Nat : Within(x, d) => x \in Unused(a)
    BY DEF Unused, Bytes
  <2>. HIDE DEF d
  <2>4. CASE d.at < c.at
    <3>1. ~(End(d) > c.at)
      BY <1>1, <2>2, <2>3, <2>4 DEF Within
    <3>. QED BY <1>1, <2>2, <2>4, <3>1 DEF d
  <2>5. CASE ~(d.at < c.at)
    <3>1. ~(End(c) > d.at)
      BY <1>1, <2>2, <2>3, <2>5 DEF Within
    <3>. QED BY <1>1, <2>2, <2>5, <3>1 DEF d
  <2>. QED BY <2>4, <2>5
<1>. QED BY <1>3, <1>4

\* free() adds the bytes of the chunk to those that are free, and no other.
LEMMA ReleaseIs ==
  ASSUME NEW a, IsArena(a), NEW c \in Entry, Span(c) \cap Unused(a) = {}
  PROVE  IsArena(release(a, c)) /\ Unused(release(a, c)) = Unused(a) \cup Span(c)
<1>. DEFINE s == a.flp
            above == { k \in DOMAIN s : s[k].at >= c.at }
            place == IF above = {} THEN Len(s) + 1 ELSE Least(above)
            lower == SubSeq(s, 1, place - 1)
            upper == SubSeq(s, place, Len(s))
            list == WithUpper(c, upper)
<1>1. /\ s \in Row /\ a.brk \in HeapStart .. Word - 1 /\ a.brk \in Nat
      /\ Len(s) \in Nat /\ DOMAIN s = 1 .. Len(s)
      /\ \A k \in 1 .. Len(s) : End(s[k]) < a.brk /\ s[k] \in Entry
  BY ArenaIs
<1>2. Unused(a) = { x \in Nat : a.brk <= x } \cup Bytes(s)
  BY DEF Unused
<1>3. End(c) <= a.brk /\ \A k \in 1 .. Len(s) : IF s[k].at < c.at THEN End(s[k]) <= c.at
                                                                   ELSE End(c) <= s[k].at
  BY BetweenEntries
<1>4. release(a, c) = CASE s = << >> -> LowerBrk(<< c >>, a.brk)
                        [] s # << >> /\ lower = << >> -> Arena(list, a.brk)
                        [] OTHER -> LowerBrk(WithLower(lower, list), a.brk)
  BY DEF release
<1>. HIDE DEF s
<1>5. c.at \in Nat /\ End(c) \in Nat /\ c.at < End(c)
  BY EntryIs
<1>6. /\ place \in 1 .. Len(s) + 1
      /\ \A k \in 1 .. Len(s) : k < place => End(s[k]) <= c.at
      /\ \A k \in 1 .. Len(s) : place <= k => End(c) <= s[k].at
  <2>1. \A k \in 1 .. Len(s) : s[k].at \in Nat /\ End(s[k]) \in Nat /\ s[k].at < End(s[k])
    BY <1>1, EntryIs
  <2>2. CASE above = {}
    <3>1. place = Len(s) + 1 /\ \A k \in 1 .. Len(s) : s[k].at < c.at
      BY <1>1, <1>5, <2>1, <2>2
    <3>. HIDE DEF place
    <3>. QED BY <1>1, <1>3, <3>1
  <2>3. CASE above # {}
    <3>1. above \in SUBSET Nat
      BY <1>1
    <3>2. Least(above) \in above /\ \A j \in above : Least(above) <= j
      BY <2>3, <3>1, LeastExists
    <3>3. place \in above /\ \A j \in above : place <= j
      BY <2>3, <3>2
    <3>4. place \in 1 .. Len(s) /\ s[place].at >= c.at
      BY <1>1, <3>3
    <3>5. ASSUME NEW k \in 1 .. Len(s), k < place PROVE s[k].at < c.at
      <4>. HIDE DEF place
      <4>1. place \in Nat /\ ~(place <= k)
        BY <1>1, <3>4, <3>5
      <4>2. k \notin above
        BY <3>3, <4>1
      <4>. QED BY <1>1, <1>5, <2>1, <4>2
    <3>. HIDE DEF place
    <3>6. ASSUME NEW k \in 1 .. Len(s), place < k PROVE ~(s[k].at < c.at)
      <4>1. End(s[place]) < s[k].at
        BY <1>1, <3>4, <3>6, RowIs
      <4>. QED BY <1>5, <2>1, <3>4, <4>1
    <3>7. ASSUME NEW k \in 1 .. Len(s), place <= k PROVE ~(s[k].at < c.at)
      BY <1>5, <2>1, <3>4, <3>6, <3>7
    <3>. QED BY <1>1, <1>3, <3>4, <3>5, <3>7
  <2>. QED BY <2>2, <2>3
<1>. HIDE DEF place
<1>7. lower \in Row /\ Len(lower) = place - 1 /\ \A k \in 1 .. place - 1 : lower[k] = s[k]
  BY <1>1, <1>6, PartOfRow
<1>8. /\ upper \in Row /\ Len(upper) = Len(s) - place + 1
      /\ \A k \in 1 .. Len(s) - place + 1 : upper[k] = s[place + k - 1]
  BY <1>1, <1>6, PartOfRow
<1>9. Bytes(s) = Bytes(lower) \cup Bytes(upper)
  BY <1>1, <1>6, RowParted
<1>. HIDE DEF lower, upper
<1>10. \A k \in 1 .. Len(upper) : End(c) <= upper[k].at /\ End(upper[k]) < a.brk
  <2>1. ASSUME NEW k \in 1 .. Len(upper)
        PROVE  place + k - 1 \in 1 .. Len(s) /\ place <= place + k - 1 /\ upper[k] = s[place + k - 1]
    BY <1>1, <1>6, <1>8
  <2>. QED BY <1>1, <1>6, <2>1
<1>11. \A k \in 1 .. Len(lower) : End(lower[k]) <= c.at /\ End(lower[k]) < a.brk
  <2>1. ASSUME NEW k \in 1 .. Len(lower) PROVE k \in 1 .. Len(s) /\ k < place /\ lower[k] = s[k]
    BY <1>1, <1>6, <1>7
  <2>. QED BY <1>1, <1>6, <2>1
<1>12. /\ list \in Row /\ list # << >> /\ Head(list).at = c.at
       /\ Bytes(list) = Span(c) \cup Bytes(upper)
       /\ \A k \in 1 .. Len(list) : End(list[k]) <= a.brk
       /\ upper # << >> => \A k \in 1 .. Len(list) : End(list[k]) < a.brk
  BY <1>1, <1>3, <1>8, <1>10, WithUpperIs
<1>. HIDE DEF list
<1>13. CASE s = << >>
  <2>. DEFINE one == << c >>
  <2>1. one \in Row /\ Len(one) = 1 /\ one[1] = c /\ Bytes(one) = Span(c) /\ one # << >>
    BY RowOfOne
  <2>. HIDE DEF one
  <2>2. \A k \in 1 .. Len(one) : End(one[k]) <= a.brk
    BY <1>3, <2>1
  <2>3. /\ IsArena(LowerBrk(one, a.brk))
        /\ Unused(LowerBrk(one, a.brk)) = { x \in Nat : a.brk <= x } \cup Bytes(one)
    BY <1>1, <2>1, <2>2, LowerBrkIs
  <2>4. Len(s) = 0
    BY <1>13
  <2>5. Bytes(s) = {}
    BY <2>4 DEF Bytes
  <2>6. release(a, c) = LowerBrk(one, a.brk)
    BY <1>4, <1>13 DEF one
  <2>. QED BY <1>2, <2>1, <2>3, <2>5, <2>6
<1>14. CASE s # << >> /\ lower = << >>
  <2>. DEFINE b == Arena(list, a.brk)
  <2>1. release(a, c) = b
    BY <1>4, <1>14
  <2>2. b = Arena(b.flp, b.brk) /\ b.flp = list /\ b.brk = a.brk
    BY DEF Arena
  <2>3. Len(lower) = 0
    BY <1>14
  <2>4. Bytes(lower) = {}
    BY <2>3 DEF Bytes
  <2>5. upper # << >>
    <3>1. Len(s) # 0
      BY <1>1, <1>14, RowIs
    <3>2. Len(upper) # 0
      BY <1>1, <1>6, <1>7, <1>8, <2>3, <3>1
    <3>. QED BY <3>2
  <2>6. IsArena(b)
    BY <1>1, <1>12, <2>2, <2>5 DEF IsArena
  <2>7. Unused(b) = { x \in Nat : a.brk <= x } \cup Bytes(list)
    BY <2>2 DEF Unused
  <2>. QED BY <1>2, <1>9, <1>12, <2>1, <2>4, <2>6, <2>7
<1>15. CASE ~(s = << >>) /\ ~(lower = << >>)
  <2>. DEFINE w == WithLower(lower, list)
  <2>1. release(a, c) = LowerBrk(w, a.brk)
    BY <1>4, <1>15
  <2>2. \A k \in 1 .. Len(lower) : End(lower[k]) <= Head(list).at
    BY <1>11, <1>12
  <2>3. \A k \in 1 .. Len(lower) : End(lower[k]) <= a.brk
    <3>1. \A k \in 1 .. Len(lower) : End(lower[k]) \in Nat
      BY <1>7, RowIs, EntryIs
    <3>. QED BY <1>1, <1>11, <3>1
  <2>4. /\ w \in Row /\ w # << >> /\ Bytes(w) = Bytes(lower) \cup Bytes(list)
        /\ \A k \in 1 .. Len(w) : End(w[k]) <= a.brk
    BY <1>1, <1>7, <1>12, <1>15, <2>2, <2>3, WithLowerIs
  <2>. HIDE DEF w
  <2>5. /\ IsArena(LowerBrk(w, a.brk))
        /\ Unused(LowerBrk(w, a.brk)) = { x \in Nat : a.brk <= x } \cup Bytes(w)
    BY <1>1, <2>4, LowerBrkIs
  <2>. QED BY <1>2, <1>9, <1>12, <2>1, <2>4, <2>5
<1>. QED BY <1>13, <1>14, <1>15

-----------------------------------------------------------------------------
(* malloc                                                                  *)

LEMMA NoWrap ==
  ASSUME NEW n \in Nat, NEW m \in Nat, n < m
  PROVE  n % m = n
OBVIOUS

LEMMA WrapsOnce ==
  ASSUME NEW n \in Nat, NEW m \in Nat, m <= n, n < 2 * m
  PROVE  n % m = n - m
OBVIOUS

\* What is taken from an entry, or above __brkval, is no longer free.
TakenFrom(a, r) ==
  /\ IsArena(r.arena)
  /\ r.at \in Nat /\ r.sz \in Nat /\ HeapStart <= r.at /\ Freelist - SizeT <= r.sz
  /\ Span(r) \subseteq Unused(a)
  /\ Unused(r.arena) = Unused(a) \ Span(r)

LEMMA EnoughIs ==
  ASSUME NEW want \in Nat
  PROVE  /\ Enough(want) \in Nat /\ 2 <= Enough(want) /\ want <= Enough(want)
         /\ Enough(want) = IF want < 2 THEN 2 ELSE want
BY DEF Enough, Freelist, SizeT

LEMMA BestFitFits ==
  ASSUME NEW s \in Row, NEW len \in Nat, Fitting(s, len) # {}
  PROVE  BestFit(s, len) \in 1 .. Len(s) /\ len <= s[BestFit(s, len)].sz
<1>1. Len(s) \in Nat /\ DOMAIN s = 1 .. Len(s) /\ \A k \in 1 .. Len(s) : s[k] \in Entry
  BY RowIs
<1>2. \A k \in 1 .. Len(s) : s[k].sz \in Nat
  BY <1>1, EntryIs
<1>. DEFINE F == Fitting(s, len)
            sizes == { s[k].sz : k \in F }
            best == { k \in F : \A j \in F : s[k].sz <= s[j].sz }
<1>3. \A k \in F : k \in 1 .. Len(s) /\ len <= s[k].sz
  BY <1>1, <1>2 DEF Fitting
<1>4. F # {}
  OBVIOUS
<1>5. BestFit(s, len) = Least(best)
  BY DEF BestFit
<1>. HIDE DEF F
<1>6. sizes \in SUBSET Nat /\ sizes # {}
  BY <1>2, <1>3, <1>4
<1>7. PICK x \in sizes : \A y \in sizes : x <= y
  BY <1>6, LeastExists
<1>8. PICK k \in F : s[k].sz = x
  BY <1>7
<1>9. k \in best
  BY <1>7, <1>8
<1>10. best \in SUBSET Nat /\ best # {}
  <2>1. \A j \in F : j \in Nat
    BY <1>1, <1>3
  <2>. QED BY <1>9, <2>1
<1>11. Least(best) \in best
  BY <1>10, LeastExists
<1>. QED BY <1>3, <1>5, <1>11

LEMMA FromListIs ==
  ASSUME NEW a, IsArena(a), NEW len \in Nat, 2 <= len, Fitting(a.flp, len) # {}
  PROVE  LET r == FromList(a, len) IN r.ok /\ TakenFrom(a, r) /\ len <= r.sz /\ r.sz <= len + Freelist
<1>. DEFINE s == a.flp
            k == BestFit(s, len)
            c == s[k]
            r == FromList(a, len)
            lower == Piece(c.at, c.sz - len - SizeT)
<1>1. /\ s \in Row /\ a.brk \in HeapStart .. Word - 1 /\ a.brk \in Nat
      /\ \A j \in 1 .. Len(s) : End(s[j]) < a.brk
  BY ArenaIs
<1>2. k \in 1 .. Len(s) /\ len <= c.sz
  BY <1>1, BestFitFits
<1>3. Unused(a) = { x \in Nat : a.brk <= x } \cup Bytes(s)
  BY DEF Unused
<1>4. r = IF Splits(c.sz, len) THEN Given(End(lower), len, [s EXCEPT ![k] = lower], a.brk)
                               ELSE Given(c.at, c.sz, Without(s, k), a.brk)
  BY DEF FromList
<1>. HIDE DEF s, k, r
<1>5. c \in Entry
  BY <1>1, <1>2, RowIs
<1>. HIDE DEF c
<1>6. /\ c.at \in Nat /\ c.sz \in Nat /\ HeapStart <= c.at /\ 2 <= c.sz
      /\ End(c) \in Nat /\ End(c) = c.at + 2 + c.sz
  BY <1>5, EntryIs
<1>7. Span(c) \in SUBSET Nat /\ \A x \in Nat : x \in Span(c) <=> c.at <= x /\ x < End(c)
  BY <1>6, SpanIs
<1>8. End(c) < a.brk
  BY <1>1, <1>2 DEF c
<1>9. \A x \in Span(c) : x \in Bytes(s) /\ x \in Nat /\ ~(a.brk <= x)
  BY <1>1, <1>2, <1>6, <1>7, <1>8 DEF Bytes, Within, c
<1>10. CASE Splits(c.sz, len)
  <2>. DEFINE t == [s EXCEPT ![k] = lower]
  <2>1. 4 <= c.sz - len
    BY <1>10 DEF Splits, Freelist
  <2>2. lower = [at |-> c.at, sz |-> c.sz - len - 2]
    BY DEF Piece, SizeT
  <2>3. lower \in Entry
    BY <1>6, <2>1, <2>2 DEF Entry, Freelist, SizeT
  <2>4. lower.at = c.at /\ lower.sz = c.sz - len - 2 /\ End(lower) = c.at + c.sz - len /\ End(lower) \in Nat
    BY <1>6, <2>1, <2>2 DEF End, SizeT
  <2>5. r = Given(End(lower), len, t, a.brk)
    BY <1>4, <1>10
  <2>. HIDE DEF lower
  <2>6. lower.at \in Nat /\ lower.sz \in Nat
    BY <2>3, EntryIs
  <2>7. Span(lower) \in SUBSET Nat /\ \A x \in Nat : x \in Span(lower) <=> lower.at <= x /\ x < End(lower)
    BY <2>6, SpanIs
  <2>8. s[k].at <= lower.at /\ End(lower) <= End(s[k])
    BY <1>6, <2>1, <2>4 DEF c
  <2>9. /\ t \in Row /\ Bytes(t) = (Bytes(s) \ Span(s[k])) \cup Span(lower)
        /\ \A j \in 1 .. Len(t) : End(t[j]) < a.brk
    BY <1>1, <1>2, <2>3, <2>8, RowExcept
  <2>. HIDE DEF t
  <2>10. r.ok /\ r.at = End(lower) /\ r.sz = len /\ r.arena = Arena(t, a.brk)
    BY <2>5 DEF Given
  <2>11. r.at \in Nat /\ r.sz \in Nat /\ End(r) = End(c) /\ HeapStart <= r.at
    <3>1. End(r) = r.at + 2 + r.sz
      BY DEF End, SizeT
    <3>2. r.at = c.at + c.sz - len
      BY <2>4, <2>10
    <3>. QED BY <1>6, <2>1, <2>4, <2>10, <3>1, <3>2, Constants
  <2>12. Span(r) \in SUBSET Nat /\ \A x \in Nat : x \in Span(r) <=> r.at <= x /\ x < End(r)
    BY <2>11, SpanIs
  <2>13. ASSUME NEW x \in Nat
         PROVE  x \in Span(c) <=> (x \in Span(lower) \/ x \in Span(r))
    <3>1. c.at <= End(lower) /\ End(lower) <= End(c)
      BY <1>6, <2>1, <2>4
    <3>. QED BY <1>6, <1>7, <2>4, <2>7, <2>10, <2>11, <2>12, <3>1
  <2>14. ASSUME NEW x \in Nat PROVE ~(x \in Span(lower) /\ x \in Span(r))
    BY <2>4, <2>7, <2>10, <2>12
  <2>. DEFINE b == r.arena
  <2>15. b = Arena(b.flp, b.brk) /\ b.flp = t /\ b.brk = a.brk
    BY <2>10 DEF Arena
  <2>16. IsArena(b)
    BY <1>1, <2>9, <2>15 DEF IsArena
  <2>17. Unused(b) = { x \in Nat : a.brk <= x } \cup Bytes(t)
    BY <2>15 DEF Unused
  <2>18. Bytes(t) = (Bytes(s) \ Span(c)) \cup Span(lower)
    BY <2>9 DEF c
  <2>19. Span(r) \subseteq Unused(a)
    BY <1>3, <1>9, <2>12, <2>13
  <2>20. Unused(b) = Unused(a) \ Span(r)
    <3>1. ASSUME NEW x \in Nat PROVE x \in Unused(b) <=> x \in Unused(a) /\ ~(x \in Span(r))
      BY <1>3, <1>9, <2>13, <2>14, <2>17, <2>18
    <3>2. Unused(a) \in SUBSET Nat /\ Unused(b) \in SUBSET Nat
      BY DEF Unused, Bytes
    <3>. QED BY <3>1, <3>2
  <2>. QED BY <2>10, <2>11, <2>16, <2>19, <2>20 DEF TakenFrom, Freelist, SizeT, r
<1>11. CASE ~Splits(c.sz, len)
  <2>. DEFINE t == Without(s, k)
  <2>1. c.sz - len < 4
    BY <1>6, <1>11 DEF Splits, Freelist
  <2>2. /\ t \in Row /\ Bytes(t) = Bytes(s) \ Span(s[k])
        /\ \A j \in 1 .. Len(t) : End(t[j]) < a.brk
    BY <1>1, <1>2, RowWithout
  <2>. HIDE DEF t
  <2>3. r.ok /\ r.at = c.at /\ r.sz = c.sz /\ r.arena = Arena(t, a.brk)
    BY <1>4, <1>11 DEF Given, t
  <2>4. Span(r) = Span(c)
    BY <2>3 DEF Span, End
  <2>. DEFINE b == r.arena
  <2>5. b = Arena(b.flp, b.brk) /\ b.flp = t /\ b.brk = a.brk
    BY <2>3 DEF Arena
  <2>6. IsArena(b)
    BY <1>1, <2>2, <2>5 DEF IsArena
  <2>7. Unused(b) = { x \in Nat : a.brk <= x } \cup Bytes(t)
    BY <2>5 DEF Unused
  <2>8. Span(r) \subseteq Unused(a)
    BY <1>3, <1>9, <2>4
  <2>9. Unused(b) = Unused(a) \ Span(r)
    BY <1>3, <1>9, <2>2, <2>4, <2>7 DEF c
  <2>10. c.sz <= len + 4
    BY <1>6, <2>1
  <2>. QED BY <1>2, <1>6, <2>3, <2>6, <2>8, <2>9, <2>10 DEF TakenFrom, Freelist, SizeT, r
<1>. QED BY <1>10, <1>11

\* malloc() hands out bytes that were free, as many as are needed and at most
\* four more.
LEMMA AllocateIs ==
  ASSUME NEW a, IsArena(a), NEW want \in 0 .. Word - 1, NEW limit \in Limits,
         allocate(a, want, limit).ok
  PROVE  LET r == allocate(a, want, limit) IN TakenFrom(a, r) /\ r.sz \in want .. Enough(want) + Freelist
<1>. DEFINE len == Enough(want)
            r == allocate(a, want, limit)
            s == a.flp
<1>1. want \in Nat /\ Word \in Nat /\ HeapStart \in Nat /\ 2 <= HeapStart
      /\ limit \in Nat /\ limit < Word
  BY Constants DEF SizeT
<1>2. len \in Nat /\ 2 <= len /\ want <= len
  BY <1>1, EnoughIs
<1>3. r = IF Fitting(s, len) # {} THEN FromList(a, len)
          ELSE IF HasSpace(a.brk, len, limit) THEN Given(a.brk, len, s, a.brk + len + SizeT)
          ELSE Failed(a)
  BY DEF allocate
<1>4. r.ok
  OBVIOUS
<1>5. /\ s \in Row /\ a.brk \in HeapStart .. Word - 1 /\ a.brk \in Nat
      /\ \A j \in 1 .. Len(s) : End(s[j]) < a.brk /\ s[j] \in Entry
      /\ Len(s) \in Nat
  BY ArenaIs
<1>6. Unused(a) = { x \in Nat : a.brk <= x } \cup Bytes(s)
  BY DEF Unused
<1>7. CASE Fitting(s, len) # {}
  <2>1. r.ok /\ TakenFrom(a, r) /\ len <= r.sz /\ r.sz <= len + Freelist
    BY <1>2, <1>3, <1>7, FromListIs
  <2>2. r.sz \in Nat /\ len + Freelist \in Nat
    BY <1>2, <2>1 DEF TakenFrom, Freelist
  <2>3. r.sz \in want .. len + Freelist
    BY <1>1, <1>2, <2>1, <2>2
  <2>. QED BY <2>1, <2>3
<1>. HIDE DEF r, s, len
<1>8. CASE ~(Fitting(s, len) # {})
  <2>1. HasSpace(a.brk, len, limit)
    BY <1>3, <1>4, <1>8 DEF Failed
  <2>2. r.ok /\ r.at = a.brk /\ r.sz = len /\ r.arena = Arena(s, a.brk + len + 2)
    BY <1>3, <1>8, <2>1 DEF Given, SizeT
  <2>3. a.brk < limit /\ limit - a.brk >= len /\ limit - a.brk >= (len + 2) % Word
    BY <2>1 DEF HasSpace, SizeT
  <2>4. len + 2 < Word /\ len + 2 \in Nat /\ 2 <= a.brk
    BY <1>1, <1>2, <1>5, <2>3
  <2>5. (len + 2) % Word = len + 2
    BY <1>1, <2>4, NoWrap
  <2>6. a.brk + len + 2 <= limit
    BY <1>1, <1>2, <1>5, <2>3, <2>5
  <2>. DEFINE b == r.arena
              top == a.brk + len + 2
  <2>7. b = Arena(b.flp, b.brk) /\ b.flp = s /\ b.brk = top
    BY <2>2 DEF Arena
  <2>8. top \in HeapStart .. Word - 1 /\ a.brk < top /\ top \in Nat
    BY <1>1, <1>2, <1>5, <2>6
  <2>9. \A j \in 1 .. Len(s) : End(s[j]) \in Nat
    BY <1>5, EntryIs
  <2>. HIDE DEF top
  <2>10. \A j \in 1 .. Len(s) : End(s[j]) < top
    BY <1>5, <2>8, <2>9
  <2>11. IsArena(b)
    BY <1>5, <2>7, <2>8, <2>10 DEF IsArena
  <2>12. r.at \in Nat /\ r.sz \in Nat /\ HeapStart <= r.at /\ End(r) = top
    BY <1>1, <1>2, <1>5, <2>2 DEF End, SizeT, top
  <2>13. Span(r) \in SUBSET Nat /\ \A x \in Nat : x \in Span(r) <=> a.brk <= x /\ x < top
    BY <2>2, <2>12, SpanIs
  <2>14. Unused(b) = { x \in Nat : top <= x } \cup Bytes(s)
    BY <2>7 DEF Unused
  <2>15. ASSUME NEW x \in Nat, x \in Bytes(s) PROVE x < a.brk
    <3>1. PICK j \in 1 .. Len(s) : Within(x, s[j])
      BY <2>15 DEF Bytes
    <3>. QED BY <1>5, <2>9, <3>1 DEF Within
  <2>16. Span(r) \subseteq Unused(a)
    BY <1>6, <2>13
  <2>17. Unused(b) = Unused(a) \ Span(r)
    <3>1. ASSUME NEW x \in Nat PROVE x \in Unused(b) <=> x \in Unused(a) /\ ~(x \in Span(r))
      BY <1>5, <1>6, <2>8, <2>13, <2>14, <2>15
    <3>2. Unused(a) \in SUBSET Nat /\ Unused(b) \in SUBSET Nat
      BY DEF Unused, Bytes
    <3>. QED BY <3>1, <3>2
  <2>18. TakenFrom(a, r)
    BY <1>2, <2>2, <2>11, <2>12, <2>16, <2>17 DEF TakenFrom, Freelist, SizeT
  <2>19. r.sz \in want .. len + Freelist
    BY <1>1, <1>2, <2>2 DEF Freelist
  <2>. QED BY <2>18, <2>19 DEF r, len
<1>. QED BY <1>7, <1>8 DEF r, len, s

-----------------------------------------------------------------------------
(* realloc                                                                 *)

\* What is asked of realloc can hold a list entry, and its sum with the size
\* field does not wrap around: realloc.c tests neither, as malloc.c does.
ResizesFit == \A len \in ReallocSizes : len >= Freelist - SizeT /\ len + SizeT < Word

\* Bytes go from the chunk and the free ones to the chunk handed out; what
\* moves does not overlap its old place.
ResizedFrom(a, c, r) ==
  /\ IsArena(r.arena)
  /\ r.at \in Nat /\ r.sz \in Nat /\ HeapStart <= r.at /\ Freelist - SizeT <= r.sz
  /\ Span(r) \subseteq Unused(a) \cup Span(c)
  /\ Unused(r.arena) = (Unused(a) \cup Span(c)) \ Span(r)
  /\ r.at # c.at => Span(r) \cap Span(c) = {}

LEMMA ShrunkIs ==
  ASSUME NEW a, IsArena(a), NEW c \in Entry, Span(c) \cap Unused(a) = {},
         NEW len \in Nat, 2 <= len, len <= c.sz
  PROVE  LET r == Shrunk(a, c, len)
         IN  r.ok /\ ResizedFrom(a, c, r) /\ len <= r.sz /\ r.sz <= len + Freelist
<1>. DEFINE r == Shrunk(a, c, len)
            tail == Piece(c.at + SizeT + len, c.sz - len - SizeT)
            b == release(a, tail)
<1>1. /\ c.at \in Nat /\ c.sz \in Nat /\ HeapStart <= c.at /\ 2 <= c.sz
      /\ End(c) \in Nat /\ End(c) = c.at + 2 + c.sz
  BY EntryIs
<1>2. Span(c) \in SUBSET Nat /\ \A x \in Nat : x \in Span(c) <=> c.at <= x /\ x < End(c)
  BY <1>1, SpanIs
<1>3. r = IF Cuts(c, len) THEN Given(c.at, len, b.flp, b.brk) ELSE Given(c.at, c.sz, a.flp, a.brk)
  BY DEF Shrunk
<1>. HIDE DEF r, b
<1>4. Unused(a) \in SUBSET Nat
  BY DEF Unused, Bytes
<1>5. CASE Cuts(c, len)
  <2>1. c.sz > 4 /\ len <= c.sz - 4
    BY <1>5 DEF Cuts, Freelist
  <2>2. tail = [at |-> c.at + 2 + len, sz |-> c.sz - len - 2]
    BY DEF Piece, SizeT
  <2>3. tail \in Entry
    <3>1. c.at + 2 + len \in Nat /\ c.sz - len - 2 \in Nat /\ HeapStart <= c.at + 2 + len /\ 2 <= c.sz - len - 2
      BY <1>1, <2>1, Constants
    <3>. QED BY <2>2, <3>1 DEF Entry, Freelist, SizeT
  <2>4. tail.at = c.at + 2 + len /\ tail.sz = c.sz - len - 2 /\ End(tail) = End(c)
        /\ tail.at \in Nat /\ tail.sz \in Nat /\ tail.at < End(c)
    BY <1>1, <2>1, <2>2 DEF End, SizeT
  <2>. HIDE DEF tail
  <2>5. Span(tail) \in SUBSET Nat /\ \A x \in Nat : x \in Span(tail) <=> tail.at <= x /\ x < End(c)
    BY <2>4, SpanIs
  <2>6. Span(tail) \cap Unused(a) = {}
    BY <1>1, <1>2, <2>4, <2>5
  <2>7. IsArena(b) /\ Unused(b) = Unused(a) \cup Span(tail)
    BY <2>3, <2>6, ReleaseIs DEF b
  <2>8. r.ok /\ r.at = c.at /\ r.sz = len /\ r.arena = Arena(b.flp, b.brk)
    BY <1>3, <1>5 DEF Given
  <2>9. r.arena = b
    BY <2>7, <2>8 DEF IsArena
  <2>10. End(r) = tail.at
    BY <2>4, <2>8 DEF End, SizeT
  <2>11. Span(r) \in SUBSET Nat /\ \A x \in Nat : x \in Span(r) <=> c.at <= x /\ x < tail.at
    BY <1>1, <2>8, <2>10, SpanIs
  <2>12. ASSUME NEW x \in Nat
         PROVE  /\ x \in Span(c) <=> (x \in Span(r) \/ x \in Span(tail))
                /\ ~(x \in Span(r) /\ x \in Span(tail))
    BY <1>1, <1>2, <2>4, <2>5, <2>11
  <2>13. Span(r) \subseteq Unused(a) \cup Span(c)
    BY <2>11, <2>12
  <2>14. Unused(b) = (Unused(a) \cup Span(c)) \ Span(r)
    BY <1>2, <1>4, <2>5, <2>6, <2>7, <2>11, <2>12
  <2>. QED BY <1>1, <2>7, <2>8, <2>9, <2>13, <2>14 DEF ResizedFrom, Freelist, SizeT, r
<1>6. CASE ~Cuts(c, len)
  <2>1. r.ok /\ r.at = c.at /\ r.sz = c.sz /\ r.arena = Arena(a.flp, a.brk)
    BY <1>3, <1>6 DEF Given
  <2>2. r.arena = a
    BY <2>1 DEF IsArena
  <2>3. Span(r) = Span(c)
    BY <2>1 DEF Span, End
  <2>4. c.sz <= len + 4
    BY <1>1, <1>6 DEF Cuts, Freelist
  <2>5. Unused(a) = (Unused(a) \cup Span(c)) \ Span(r)
    BY <2>3
  <2>. QED BY <1>1, <2>1, <2>2, <2>3, <2>4, <2>5 DEF ResizedFrom, Freelist, SizeT, r
<1>. QED BY <1>5, <1>6

LEMMA GrownIntoIs ==
  ASSUME NEW a, IsArena(a), NEW c \in Entry, Span(c) \cap Unused(a) = {},
         NEW len \in Nat, c.sz < len, NEW k \in Above(a, c, len)
  PROVE  LET r == GrownInto(a, c, len, k)
         IN  r.ok /\ ResizedFrom(a, c, r) /\ len <= r.sz /\ r.sz <= len + Freelist
<1>. DEFINE r == GrownInto(a, c, len, k)
            s == a.flp
            d == s[k]
            rest == d.sz + SizeT - (len - c.sz)
            left == Piece(c.at + SizeT + len, rest - SizeT)
<1>1. /\ s \in Row /\ a.brk \in HeapStart .. Word - 1 /\ a.brk \in Nat
      /\ DOMAIN s = 1 .. Len(s)
      /\ \A j \in 1 .. Len(s) : End(s[j]) < a.brk /\ s[j] \in Entry
  BY ArenaIs
<1>2. k \in 1 .. Len(s) /\ End(c) = d.at /\ d.sz + 2 >= len - c.sz
  BY <1>1 DEF Above, Touches, SizeT
<1>3. Unused(a) = { x \in Nat : a.brk <= x } \cup Bytes(s)
  BY DEF Unused
<1>4. r = IF rest > Freelist THEN Given(c.at, len, [s EXCEPT ![k] = left], a.brk)
                             ELSE Given(c.at, c.sz + d.sz + SizeT, Without(s, k), a.brk)
  BY DEF GrownInto
<1>5. d \in Entry /\ End(d) < a.brk
  BY <1>1, <1>2
<1>. HIDE DEF s, d, r
<1>6. /\ c.at \in Nat /\ c.sz \in Nat /\ HeapStart <= c.at /\ 2 <= c.sz
      /\ End(c) = c.at + 2 + c.sz
      /\ HeapStart \in Nat
  BY EntryIs, Constants
<1>7. /\ d.at \in Nat /\ d.sz \in Nat /\ 2 <= d.sz
      /\ End(d) = d.at + 2 + d.sz /\ End(d) \in Nat
  BY <1>5, EntryIs
<1>8. Span(c) \in SUBSET Nat /\ \A x \in Nat : x \in Span(c) <=> c.at <= x /\ x < d.at
  BY <1>2, <1>6, SpanIs
<1>9. Span(d) \in SUBSET Nat /\ \A x \in Nat : x \in Span(d) <=> d.at <= x /\ x < End(d)
  BY <1>7, SpanIs
<1>10. \A x \in Span(d) : x \in Bytes(s) /\ x \in Nat /\ ~(a.brk <= x)
  BY <1>1, <1>2, <1>5, <1>7, <1>9 DEF Bytes, Within, d
<1>11. Unused(a) \in SUBSET Nat
  BY DEF Unused, Bytes
<1>. HIDE DEF left
<1>12. d.at = c.at + 2 + c.sz
  <2>1. End(c) = d.at
    BY <1>2
  <2>. QED BY <1>6, <2>1
<1>13. rest = d.sz + 2 - (len - c.sz) /\ d.sz + 2 >= len - c.sz
  BY <1>2 DEF SizeT
<1>. HIDE DEF rest
<1>14. rest = d.sz + 2 + c.sz - len /\ rest \in Nat
  <2>1. d.sz \in Nat /\ c.sz \in Nat
    BY <1>6, <1>7
  <2>. QED BY <1>13, <2>1
<1>15. /\ c.at \in Nat /\ c.sz \in Nat /\ 2 <= c.sz /\ d.sz \in Nat /\ d.at \in Nat /\ HeapStart \in Nat
       /\ HeapStart <= c.at /\ d.at = c.at + 2 + c.sz /\ End(d) = c.at + 2 + c.sz + 2 + d.sz
  BY <1>6, <1>7, <1>12
<1>16. CASE rest > Freelist
  <2>. DEFINE t == [s EXCEPT ![k] = left]
  <2>1. 4 < rest
    BY <1>16 DEF Freelist
  <2>2. left = [at |-> c.at + 2 + len, sz |-> rest - 2]
    BY DEF left, Piece, SizeT
  <2>3. left \in Entry
    <3>1. c.at + 2 + len \in Nat /\ rest - 2 \in Nat /\ HeapStart <= c.at + 2 + len /\ 2 <= rest - 2
      BY <1>14, <1>15, <2>1
    <3>. QED BY <2>2, <3>1 DEF Entry, Freelist, SizeT
  <2>4. left.at = c.at + 2 + len /\ left.sz = rest - 2 /\ left.at \in Nat /\ left.sz \in Nat
    BY <1>14, <1>15, <2>1, <2>2
  <2>5. End(left) = End(d) /\ d.at <= left.at /\ left.at < End(d) /\ c.at <= left.at
    <3>1. End(left) = c.at + 2 + len + 2 + (rest - 2)
      BY <2>4 DEF End, SizeT
    <3>. QED BY <1>14, <1>15, <2>1, <2>4, <3>1
  <2>6. Span(left) \in SUBSET Nat /\ \A x \in Nat : x \in Span(left) <=> left.at <= x /\ x < End(d)
    BY <2>4, <2>5, SpanIs
  <2>7. s[k].at <= left.at /\ End(left) <= End(s[k])
    BY <1>7, <2>5 DEF d
  <2>8. /\ t \in Row /\ Bytes(t) = (Bytes(s) \ Span(s[k])) \cup Span(left)
        /\ \A j \in 1 .. Len(t) : End(t[j]) < a.brk
    BY <1>1, <1>2, <2>3, <2>7, RowExcept
  <2>9. Bytes(t) = (Bytes(s) \ Span(d)) \cup Span(left)
    BY <2>8 DEF d
  <2>10. r.ok /\ r.at = c.at /\ r.sz = len /\ r.arena = Arena(t, a.brk)
    BY <1>4, <1>16 DEF Given
  <2>. HIDE DEF t
  <2>11. End(r) = left.at
    BY <2>4, <2>10 DEF End, SizeT
  <2>12. Span(r) \in SUBSET Nat /\ \A x \in Nat : x \in Span(r) <=> c.at <= x /\ x < left.at
    BY <1>6, <2>10, <2>11, SpanIs
  <2>. DEFINE b == r.arena
  <2>13. b = Arena(b.flp, b.brk) /\ b.flp = t /\ b.brk = a.brk
    BY <2>10 DEF Arena
  <2>14. IsArena(b)
    BY <1>1, <2>8, <2>13 DEF IsArena
  <2>15. Unused(b) = { x \in Nat : a.brk <= x } \cup Bytes(t)
    BY <2>13 DEF Unused
  <2>16. ASSUME NEW x \in Nat
         PROVE  /\ (x \in Span(c) \/ x \in Span(d)) <=> (x \in Span(r) \/ x \in Span(left))
                /\ ~(x \in Span(r) /\ x \in Span(left))
                /\ ~(x \in Span(c) /\ x \in Span(left))
    <3>1. c.at <= d.at /\ d.at <= left.at /\ left.at <= End(d)
      <4>1. d.at <= left.at /\ left.at < End(d) /\ left.at \in Nat /\ End(d) \in Nat
        BY <1>7, <2>4, <2>5
      <4>. QED BY <1>15, <4>1
    <3>. QED BY <1>6, <1>7, <1>8, <1>9, <2>4, <2>6, <2>12, <3>1
  <2>17. Span(r) \subseteq Unused(a) \cup Span(c)
    BY <1>3, <1>10, <2>12, <2>16
  <2>18. Unused(b) = (Unused(a) \cup Span(c)) \ Span(r)
    <3>1. ASSUME NEW x \in Nat
          PROVE  x \in Unused(b) <=> (x \in Unused(a) \/ x \in Span(c)) /\ ~(x \in Span(r))
      <4>1. x \in Unused(a) <=> a.brk <= x \/ x \in Bytes(s)
        BY <1>3
      <4>2. x \in Unused(b) <=> a.brk <= x \/ (x \in Bytes(s) /\ ~(x \in Span(d))) \/ x \in Span(left)
        BY <2>9, <2>15
      <4>3. ~(x \in Span(c) /\ x \in Unused(a))
        OBVIOUS
      <4>4. x \in Span(d) => x \in Bytes(s) /\ ~(a.brk <= x)
        BY <1>10
      <4>. QED BY <2>16, <4>1, <4>2, <4>3, <4>4
    <3>2. Unused(b) \in SUBSET Nat
      BY DEF Unused, Bytes
    <3>. QED BY <1>8, <1>11, <3>1, <3>2
  <2>19. 2 <= len
    BY <1>6
  <2>. QED BY <1>6, <2>10, <2>14, <2>17, <2>18, <2>19 DEF ResizedFrom, Freelist, SizeT, r
<1>17. CASE ~(rest > Freelist)
  <2>. DEFINE t == Without(s, k)
              sz == c.sz + d.sz + 2
  <2>1. rest <= 4
    BY <1>17, <1>14 DEF Freelist
  <2>2. /\ t \in Row /\ Bytes(t) = Bytes(s) \ Span(s[k])
        /\ \A j \in 1 .. Len(t) : End(t[j]) < a.brk
    BY <1>1, <1>2, RowWithout
  <2>3. r.ok /\ r.at = c.at /\ r.sz = sz /\ r.arena = Arena(t, a.brk)
    BY <1>4, <1>17 DEF Given, SizeT
  <2>. HIDE DEF t
  <2>4. sz \in Nat /\ len <= sz /\ sz <= len + 4 /\ 2 <= sz
    BY <1>14, <1>15, <2>1
  <2>5. End(r) = End(d)
    <3>1. End(r) = c.at + 2 + sz
      BY <2>3 DEF End, SizeT
    <3>. QED BY <1>15, <3>1
  <2>6. Span(r) \in SUBSET Nat /\ \A x \in Nat : x \in Span(r) <=> c.at <= x /\ x < End(d)
    BY <1>6, <2>3, <2>4, <2>5, SpanIs
  <2>7. ASSUME NEW x \in Nat PROVE x \in Span(r) <=> x \in Span(c) \/ x \in Span(d)
    <3>1. c.at <= d.at /\ d.at <= End(d)
      BY <1>15
    <3>. QED BY <1>6, <1>7, <1>8, <1>9, <2>6, <3>1
  <2>. DEFINE b == r.arena
  <2>8. b = Arena(b.flp, b.brk) /\ b.flp = t /\ b.brk = a.brk
    BY <2>3 DEF Arena
  <2>9. IsArena(b)
    BY <1>1, <2>2, <2>8 DEF IsArena
  <2>10. Unused(b) = { x \in Nat : a.brk <= x } \cup (Bytes(s) \ Span(d))
    BY <2>2, <2>8 DEF Unused, d
  <2>11. Span(r) \subseteq Unused(a) \cup Span(c)
    BY <1>3, <1>10, <2>6, <2>7
  <2>12. Unused(b) = (Unused(a) \cup Span(c)) \ Span(r)
    <3>1. ASSUME NEW x \in Nat
          PROVE  x \in Unused(b) <=> (x \in Unused(a) \/ x \in Span(c)) /\ ~(x \in Span(r))
      <4>1. x \in Unused(a) <=> a.brk <= x \/ x \in Bytes(s)
        BY <1>3
      <4>2. x \in Unused(b) <=> a.brk <= x \/ (x \in Bytes(s) /\ ~(x \in Span(d)))
        BY <2>10
      <4>3. ~(x \in Span(c) /\ x \in Unused(a))
        OBVIOUS
      <4>4. x \in Span(d) => ~(a.brk <= x)
        BY <1>10
      <4>. QED BY <2>7, <4>1, <4>2, <4>3, <4>4
    <3>2. Unused(b) \in SUBSET Nat
      BY DEF Unused, Bytes
    <3>. QED BY <1>8, <1>11, <3>1, <3>2
  <2>. QED BY <1>6, <2>3, <2>4, <2>9, <2>11, <2>12 DEF ResizedFrom, Freelist, SizeT, r
<1>. QED BY <1>16, <1>17

LEMMA ExtendedIs ==
  ASSUME NEW a, IsArena(a), NEW c \in Entry, Span(c) \cap Unused(a) = {},
         NEW len \in Nat, c.sz < len, len + SizeT < Word, NEW limit \in Limits,
         Touches(c, a.brk), ~WrapsPastTop(c, len), Extended(a, c, len, limit).ok
  PROVE  LET r == Extended(a, c, len, limit) IN ResizedFrom(a, c, r) /\ r.sz = len
<1>. DEFINE r == Extended(a, c, len, limit)
            s == a.flp
            sum == c.at + SizeT + len
            top == sum % Word
<1>1. /\ s \in Row /\ a.brk \in HeapStart .. Word - 1 /\ a.brk \in Nat
      /\ \A j \in 1 .. Len(s) : End(s[j]) < a.brk /\ s[j] \in Entry
  BY ArenaIs
<1>2. /\ Word \in Nat /\ HeapStart \in Nat /\ limit \in Nat /\ limit < Word
      /\ c.at \in Nat /\ c.sz \in Nat /\ 2 <= c.sz /\ HeapStart <= c.at /\ End(c) = c.at + 2 + c.sz
  BY EntryIs, Constants
<1>3. End(c) = a.brk
  BY DEF Touches
<1>4. a.brk = c.at + 2 + c.sz /\ a.brk < Word
  BY <1>1, <1>2, <1>3
<1>5. Unused(a) = { x \in Nat : a.brk <= x } \cup Bytes(s)
  BY DEF Unused
<1>6. top < limit /\ r = Given(c.at, len, s, top)
  BY DEF Extended, Failed
<1>7. ~(top < c.at)
  BY DEF WrapsPastTop
<1>8. sum \in Nat /\ sum = c.at + 2 + len /\ len + 2 < Word /\ c.at < Word /\ sum < 2 * Word
  BY <1>2, <1>4 DEF SizeT
<1>. HIDE DEF r, s, sum
<1>9. sum < Word
  <2>1. SUFFICES ASSUME Word <= sum PROVE FALSE
    BY <1>2, <1>8
  <2>2. top = sum - Word
    BY <1>2, <1>8, <2>1, WrapsOnce
  <2>. HIDE DEF top
  <2>. QED BY <1>2, <1>7, <1>8, <2>2
<1>10. top = sum
  BY <1>2, <1>8, <1>9, NoWrap
<1>. HIDE DEF top
<1>11. top = c.at + 2 + len /\ top \in Nat /\ a.brk < top /\ top \in HeapStart .. Word - 1
  BY <1>2, <1>4, <1>6, <1>8, <1>10
<1>12. r.ok /\ r.at = c.at /\ r.sz = len /\ r.arena = Arena(s, top)
  BY <1>6 DEF Given
<1>. DEFINE b == r.arena
<1>13. b = Arena(b.flp, b.brk) /\ b.flp = s /\ b.brk = top
  BY <1>12 DEF Arena
<1>14. \A j \in 1 .. Len(s) : End(s[j]) \in Nat
  BY <1>1, EntryIs
<1>15. IsArena(b)
  <2>1. \A j \in 1 .. Len(s) : End(s[j]) < top
    BY <1>1, <1>11, <1>14
  <2>. QED BY <1>1, <1>11, <1>13, <2>1 DEF IsArena
<1>16. Unused(b) = { x \in Nat : top <= x } \cup Bytes(s)
  BY <1>13 DEF Unused
<1>17. End(r) = top
  BY <1>11, <1>12 DEF End, SizeT
<1>18. Span(r) \in SUBSET Nat /\ \A x \in Nat : x \in Span(r) <=> c.at <= x /\ x < top
  BY <1>2, <1>12, <1>17, SpanIs
<1>19. Span(c) \in SUBSET Nat /\ \A x \in Nat : x \in Span(c) <=> c.at <= x /\ x < a.brk
  BY <1>2, <1>3, SpanIs
<1>20. ASSUME NEW x \in Nat, x \in Bytes(s) PROVE x < a.brk
  <2>1. PICK j \in 1 .. Len(s) : Within(x, s[j])
    BY <1>20 DEF Bytes
  <2>. QED BY <1>1, <1>14, <2>1 DEF Within
<1>21. ASSUME NEW x \in Nat
       PROVE  /\ x \in Unused(b) <=> (x \in Unused(a) \/ x \in Span(c)) /\ ~(x \in Span(r))
              /\ x \in Span(r) => x \in Unused(a) \/ x \in Span(c)
  <2>1. /\ x \in Unused(a) <=> a.brk <= x \/ x \in Bytes(s)
        /\ x \in Unused(b) <=> top <= x \/ x \in Bytes(s)
        /\ ~(x \in Span(c) /\ x \in Unused(a))
        /\ x \in Bytes(s) => x < a.brk
    BY <1>5, <1>16, <1>20
  <2>2. x \in Span(r) <=> c.at <= x /\ x < top
    BY <1>18
  <2>3. x \in Span(c) <=> c.at <= x /\ x < a.brk
    BY <1>19
  <2>4. a.brk \in Nat /\ a.brk < top /\ c.at < a.brk /\ top \in Nat /\ c.at \in Nat
    BY <1>1, <1>2, <1>4, <1>11
  <2>. QED BY <2>1, <2>2, <2>3, <2>4
<1>22. Unused(b) = (Unused(a) \cup Span(c)) \ Span(r) /\ Span(r) \subseteq Unused(a) \cup Span(c)
  <2>1. Unused(a) \in SUBSET Nat /\ Unused(b) \in SUBSET Nat
    BY DEF Unused, Bytes
  <2>. QED BY <1>18, <1>19, <1>21, <2>1
<1>23. 2 <= len
  BY <1>2
<1>. QED BY <1>2, <1>12, <1>15, <1>22, <1>23 DEF ResizedFrom, Freelist, SizeT, r

LEMMA AllocateGives ==
  ASSUME NEW a, NEW want, NEW limit, allocate(a, want, limit).ok
  PROVE  LET r == allocate(a, want, limit)
         IN  r = [ok |-> TRUE, at |-> r.at, sz |-> r.sz, arena |-> r.arena]
<1>. DEFINE r == allocate(a, want, limit)
            len == Enough(want)
<1>1. r = IF Fitting(a.flp, len) # {} THEN FromList(a, len)
          ELSE IF HasSpace(a.brk, len, limit) THEN Given(a.brk, len, a.flp, a.brk + len + SizeT)
          ELSE Failed(a)
  BY DEF allocate
<1>2. r.ok
  OBVIOUS
<1>3. \E at, sz, list, brk : FromList(a, len) = Given(at, sz, list, brk)
  BY DEF FromList
<1>. HIDE DEF r, len
<1>4. ~Failed(a).ok
  BY DEF Failed
<1>5. \E at, sz, list, brk : r = Given(at, sz, list, brk)
  BY <1>1, <1>2, <1>3, <1>4
<1>. QED BY <1>5 DEF Given, r

LEMMA MovedIs ==
  ASSUME NEW a, IsArena(a), NEW c \in Entry, Span(c) \cap Unused(a) = {},
         NEW len \in 0 .. Word - 1, NEW limit \in Limits, Moved(a, c, len, limit).ok
  PROVE  LET r == Moved(a, c, len, limit) IN ResizedFrom(a, c, r) /\ r.sz \in len .. Enough(len) + Freelist
<1>. DEFINE r == Moved(a, c, len, limit)
            new == allocate(a, len, limit)
            old == release(new.arena, c)
<1>1. Piece(c.at, c.sz) = c
  BY DEF Piece, Entry
<1>2. r = IF new.ok THEN [new EXCEPT !.arena = old] ELSE Failed(a)
  BY <1>1 DEF Moved
<1>3. new.ok
  BY <1>2 DEF Failed
<1>4. TakenFrom(a, new) /\ new.sz \in len .. Enough(len) + Freelist
  BY <1>3, AllocateIs
<1>5. new = [ok |-> TRUE, at |-> new.at, sz |-> new.sz, arena |-> new.arena]
  BY <1>3, AllocateGives
<1>. HIDE DEF new, old
<1>6. r.ok /\ r.at = new.at /\ r.sz = new.sz /\ r.arena = old
  BY <1>2, <1>3, <1>5
<1>7. Span(r) = Span(new)
  BY <1>6 DEF Span, End
<1>8. /\ IsArena(new.arena) /\ new.at \in Nat /\ new.sz \in Nat
      /\ HeapStart <= new.at /\ Freelist - SizeT <= new.sz
      /\ Span(new) \subseteq Unused(a) /\ Unused(new.arena) = Unused(a) \ Span(new)
  BY <1>4 DEF TakenFrom
<1>9. Span(c) \cap Unused(new.arena) = {} /\ Span(c) \cap Span(new) = {}
  BY <1>8
<1>10. IsArena(old) /\ Unused(old) = Unused(new.arena) \cup Span(c)
  BY <1>8, <1>9, ReleaseIs DEF old
<1>11. Unused(old) = (Unused(a) \cup Span(c)) \ Span(new)
  BY <1>8, <1>9, <1>10
<1>. HIDE DEF r
<1>12. ResizedFrom(a, c, r)
  BY <1>6, <1>7, <1>8, <1>9, <1>10, <1>11 DEF ResizedFrom
<1>. QED BY <1>4, <1>6, <1>12 DEF r

\* realloc() looks at where the chunk is and how large, and at nothing else.
LEMMA ReallocateSees ==
  ASSUME NEW a, NEW c, NEW len, NEW limit
  PROVE  reallocate(a, c, len, limit) = reallocate(a, Piece(c.at, c.sz), len, limit)
<1>. DEFINE p == Piece(c.at, c.sz)
<1>1. p.at = c.at /\ p.sz = c.sz
  BY DEF Piece
<1>. HIDE DEF p
<1>2. WrapsPastTop(c, len) = WrapsPastTop(p, len)
  BY <1>1 DEF WrapsPastTop
<1>3. End(c) = End(p)
  BY <1>1 DEF End
<1>4. Shrunk(a, c, len) = Shrunk(a, p, len)
  BY <1>1 DEF Shrunk, Cuts
<1>5. Above(a, c, len) = Above(a, p, len)
  BY <1>1, <1>3 DEF Above, Touches
<1>6. \A k : GrownInto(a, c, len, k) = GrownInto(a, p, len, k)
  BY <1>1 DEF GrownInto
<1>7. Topmost(a, c, len) = Topmost(a, p, len)
  BY <1>3 DEF Topmost, Touches
<1>8. Extended(a, c, len, limit) = Extended(a, p, len, limit)
  BY <1>1 DEF Extended
<1>9. Moved(a, c, len, limit) = Moved(a, p, len, limit)
  BY <1>1 DEF Moved
<1>10. reallocate(a, c, len, limit) = reallocate(a, p, len, limit)
  BY <1>1, <1>2, <1>4, <1>5, <1>6, <1>7, <1>8, <1>9 DEF reallocate
<1>. QED BY <1>10 DEF p

\* realloc() takes from the free bytes what the chunk grows by and returns
\* what it gives up.
LEMMA ReallocateIs ==
  ASSUME NEW a, IsArena(a), NEW c \in Entry, Span(c) \cap Unused(a) = {},
         ResizesFit, NEW len \in ReallocSizes, NEW limit \in Limits,
         reallocate(a, c, len, limit).ok
  PROVE  LET r == reallocate(a, c, len, limit)
         IN  ResizedFrom(a, c, r) /\ r.sz \in len .. Enough(len) + Freelist
<1>. DEFINE r == reallocate(a, c, len, limit)
<1>1. len \in Nat /\ len < Word /\ 2 <= len /\ len + SizeT < Word /\ Word \in Nat
  BY Constants DEF ResizesFit, Freelist, SizeT
<1>2. Enough(len) = len /\ len \in 0 .. Word - 1
  BY <1>1, EnoughIs
<1>3. r = CASE WrapsPastTop(c, len) -> Failed(a)
            [] ~WrapsPastTop(c, len) /\ len <= c.sz -> Shrunk(a, c, len)
            [] OTHER ->
                 IF Above(a, c, len) # {} THEN GrownInto(a, c, len, Least(Above(a, c, len)))
                 ELSE IF Topmost(a, c, len) THEN Extended(a, c, len, limit)
                 ELSE Moved(a, c, len, limit)
  BY DEF reallocate
<1>4. r.ok
  OBVIOUS
<1>5. c.sz \in Nat
  BY EntryIs
<1>. HIDE DEF r
<1>6. ASSUME r.sz \in Nat, len <= r.sz, r.sz <= len + Freelist
      PROVE  r.sz \in len .. Enough(len) + Freelist
  BY <1>1, <1>2, <1>6 DEF Freelist
<1>7. ~WrapsPastTop(c, len)
  BY <1>3, <1>4 DEF Failed
<1>8. CASE len <= c.sz
  <2>1. r = Shrunk(a, c, len)
    BY <1>3, <1>7, <1>8
  <2>2. r.ok /\ ResizedFrom(a, c, r) /\ len <= r.sz /\ r.sz <= len + Freelist
    BY <1>1, <1>8, <2>1, ShrunkIs
  <2>3. r.sz \in Nat
    BY <2>2 DEF ResizedFrom
  <2>. QED BY <1>6, <2>2, <2>3 DEF r
<1>9. CASE ~(len <= c.sz)
  <2>1. c.sz < len
    BY <1>1, <1>5, <1>9
  <2>2. CASE Above(a, c, len) # {}
    <3>. DEFINE k == Least(Above(a, c, len))
    <3>1. r = GrownInto(a, c, len, k)
      BY <1>3, <1>7, <1>9, <2>2
    <3>2. Above(a, c, len) \in SUBSET Nat
      BY ArenaIs DEF Above
    <3>3. k \in Above(a, c, len)
      BY <2>2, <3>2, LeastExists
    <3>. HIDE DEF k
    <3>4. r.ok /\ ResizedFrom(a, c, r) /\ len <= r.sz /\ r.sz <= len + Freelist
      BY <1>1, <2>1, <3>1, <3>3, GrownIntoIs
    <3>5. r.sz \in Nat
      BY <3>4 DEF ResizedFrom
    <3>. QED BY <1>6, <3>4, <3>5 DEF r
  <2>3. CASE Above(a, c, len) = {} /\ Topmost(a, c, len)
    <3>1. r = Extended(a, c, len, limit)
      BY <1>3, <1>7, <1>9, <2>3
    <3>2. Touches(c, a.brk)
      BY <2>3 DEF Topmost
    <3>3. ResizedFrom(a, c, r) /\ r.sz = len
      BY <1>1, <1>4, <1>7, <2>1, <3>1, <3>2, ExtendedIs
    <3>4. len <= r.sz /\ r.sz <= len + Freelist /\ r.sz \in Nat
      BY <1>1, <3>3 DEF Freelist
    <3>. QED BY <1>6, <3>3, <3>4 DEF r
  <2>4. CASE Above(a, c, len) = {} /\ ~Topmost(a, c, len)
    <3>1. r = Moved(a, c, len, limit)
      BY <1>3, <1>7, <1>9, <2>4
    <3>. QED BY <1>2, <1>4, <3>1, MovedIs DEF r
  <2>. QED BY <2>2, <2>3, <2>4
<1>. QED BY <1>8, <1>9

-----------------------------------------------------------------------------
(* The invariant                                                           *)

\* A chunk the program holds can become a list entry, and is as large as it
\* was asked to be and little more.
IsChunk(c) ==
  /\ c \in [at : Nat, sz : Nat, want : 0 .. Word - 1]
  /\ HeapStart <= c.at /\ Freelist - SizeT <= c.sz
  /\ c.sz \in c.want .. Enough(c.want) + Freelist

Spans(S) == UNION { Span(c) : c \in S }

HeapInv ==
  /\ IsArena(Now)
  /\ \A c \in used : IsChunk(c)
  /\ \A c, d \in used : c # d => Span(c) \cap Span(d) = {}
  /\ Spans(used) \cap Unused(Now) = {}
  /\ Spans(used) \cup Unused(Now) = { x \in Nat : HeapStart <= x }

LEMMA ChunkIs ==
  ASSUME NEW c, IsChunk(c)
  PROVE  /\ c.at \in Nat /\ c.sz \in Nat /\ HeapStart <= c.at /\ 2 <= c.sz
         /\ c.want \in Nat /\ c.want < Word /\ c.want <= c.sz /\ c.sz <= Enough(c.want) + 4
         /\ c = [at |-> c.at, sz |-> c.sz, want |-> c.want]
         /\ Piece(c.at, c.sz) \in Entry /\ Span(Piece(c.at, c.sz)) = Span(c)
         /\ End(Piece(c.at, c.sz)) = End(c)
         /\ End(c) \in Nat /\ End(c) = c.at + 2 + c.sz /\ Span(c) \in SUBSET Nat
         /\ \A x \in Nat : x \in Span(c) <=> c.at <= x /\ x < End(c)
         /\ c.at \in Span(c)
<1>1. /\ c \in [at : Nat, sz : Nat, want : 0 .. Word - 1]
      /\ HeapStart <= c.at /\ 2 <= c.sz
      /\ c.sz \in c.want .. Enough(c.want) + 4
  BY DEF IsChunk, Freelist, SizeT
<1>2. /\ c.at \in Nat /\ c.sz \in Nat /\ c.want \in 0 .. Word - 1
      /\ c = [at |-> c.at, sz |-> c.sz, want |-> c.want]
  BY <1>1
<1>3. c.want \in Nat /\ c.want < Word
  BY <1>2, Constants
<1>4. Enough(c.want) \in Nat
  BY <1>3, EnoughIs
<1>5. c.want <= c.sz /\ c.sz <= Enough(c.want) + 4
  BY <1>1, <1>3, <1>4
<1>6. Piece(c.at, c.sz) = [at |-> c.at, sz |-> c.sz]
  BY DEF Piece
<1>7. Piece(c.at, c.sz) \in Entry
  BY <1>1, <1>2, <1>6 DEF Entry, Freelist, SizeT
<1>8. End(Piece(c.at, c.sz)) = End(c) /\ Span(Piece(c.at, c.sz)) = Span(c)
  BY <1>6 DEF End, Span
<1>9. End(c) \in Nat /\ End(c) = c.at + 2 + c.sz /\ Span(c) \in SUBSET Nat
      /\ \A x \in Nat : x \in Span(c) <=> c.at <= x /\ x < End(c)
  BY <1>2, SpanIs
<1>10. c.at \in Span(c)
  BY <1>2, <1>9
<1>. QED BY <1>1, <1>2, <1>3, <1>5, <1>7, <1>8, <1>9, <1>10

LEMMA SpansIs ==
  ASSUME NEW S, NEW x
  PROVE  x \in Spans(S) <=> \E c \in S : x \in Span(c)
BY DEF Spans

\* Chunks leave and a chunk comes: what leaves becomes free, but for what the
\* new chunk takes.
LEMMA Handover ==
  ASSUME HeapInv, NEW gone \in SUBSET used, NEW new, NEW b,
         IsArena(b), flp' = b.flp, brkval' = b.brk, used' = (used \ gone) \cup new,
         \A h \in new : IsChunk(h), \A g, h \in new : g = h,
         Spans(new) \subseteq Unused(Now) \cup Spans(gone),
         Unused(b) = (Unused(Now) \cup Spans(gone)) \ Spans(new)
  PROVE  HeapInv'
<1>1. /\ \A c \in used : IsChunk(c)
      /\ \A c, d \in used : c # d => Span(c) \cap Span(d) = {}
      /\ Spans(used) \cap Unused(Now) = {}
      /\ Spans(used) \cup Unused(Now) = { x \in Nat : HeapStart <= x }
  BY DEF HeapInv
<1>2. Now' = b
  BY DEF Now, Arena, IsArena
<1>3. Spans(used') = (Spans(used) \ Spans(gone)) \cup Spans(new)
  <2>1. ASSUME NEW x, x \in Spans(used') PROVE x \in (Spans(used) \ Spans(gone)) \cup Spans(new)
    <3>1. PICK c \in used' : x \in Span(c)
      BY <2>1, SpansIs
    <3>2. CASE c \in new
      BY <3>1, <3>2, SpansIs
    <3>3. CASE c \in used \ gone
      <4>1. \A d \in gone : ~(x \in Span(d))
        BY <1>1, <3>1, <3>3
      <4>. QED BY <3>1, <3>3, <4>1, SpansIs
    <3>. QED BY <3>1, <3>2, <3>3
  <2>2. ASSUME NEW x, x \in Spans(used), ~(x \in Spans(gone)) PROVE x \in Spans(used')
    <3>1. PICK c \in used : x \in Span(c)
      BY <2>2, SpansIs
    <3>2. ~(c \in gone)
      BY <2>2, <3>1, SpansIs
    <3>. QED BY <3>1, <3>2, SpansIs
  <2>3. ASSUME NEW x, x \in Spans(new) PROVE x \in Spans(used')
    <3>1. PICK c \in new : x \in Span(c)
      BY <2>3, SpansIs
    <3>. QED BY <3>1, SpansIs
  <2>. QED BY <2>1, <2>2, <2>3
<1>4. Spans(gone) \subseteq Spans(used)
  BY SpansIs
<1>5. Spans(used') \cap Unused(b) = {}
  BY <1>1, <1>3, <1>4
<1>6. Spans(used') \cup Unused(b) = { x \in Nat : HeapStart <= x }
  BY <1>1, <1>3, <1>4
<1>7. ASSUME NEW c \in used', NEW d \in used', c # d PROVE Span(c) \cap Span(d) = {}
  <2>1. ASSUME NEW g \in used \ gone, NEW h \in new PROVE Span(g) \cap Span(h) = {}
    <3>1. Span(g) \subseteq Spans(used) /\ Span(h) \subseteq Spans(new)
      BY SpansIs
    <3>2. Span(g) \cap Spans(gone) = {}
      <4>1. ASSUME NEW x \in Span(g), x \in Spans(gone) PROVE FALSE
        <5>1. PICK e \in gone : x \in Span(e)
          BY <4>1, SpansIs
        <5>2. e # g
          OBVIOUS
        <5>. QED BY <1>1, <5>1, <5>2
      <4>. QED BY <4>1
    <3>. QED BY <1>1, <3>1, <3>2
  <2>2. CASE c \in used /\ d \in used
    BY <1>1, <1>7, <2>2
  <2>3. CASE c \in new /\ d \in new
    BY <1>7, <2>3
  <2>4. CASE c \in used \ gone /\ d \in new
    BY <2>1, <2>4
  <2>5. CASE d \in used \ gone /\ c \in new
    BY <2>1, <2>5
  <2>. QED BY <2>2, <2>3, <2>4, <2>5
<1>8. \A c \in used' : IsChunk(c)
  BY <1>1
<1>. DEFINE u == used'
<1>9. /\ IsArena(b) /\ \A c \in u : IsChunk(c)
      /\ \A c, d \in u : c # d => Span(c) \cap Span(d) = {}
      /\ Spans(u) \cap Unused(b) = {}
      /\ Spans(u) \cup Unused(b) = { x \in Nat : HeapStart <= x }
  BY <1>5, <1>6, <1>7, <1>8
<1>. QED BY <1>2, <1>9 DEF HeapInv

LEMMA HeapInit == Init => HeapInv
<1>. SUFFICES ASSUME Init PROVE HeapInv
  OBVIOUS
<1>1. flp = << >> /\ brkval = HeapStart /\ used = {}
  BY DEF Init
<1>2. Now = Arena(Now.flp, Now.brk) /\ Now.flp = << >> /\ Now.brk = HeapStart
  BY <1>1 DEF Now, Arena
<1>3. << >> \in Seq(Entry) /\ Len(<< >>) = 0
  OBVIOUS
<1>4. << >> \in Row
  BY <1>3 DEF Row
<1>5. HeapStart \in HeapStart .. Word - 1
  BY Constants
<1>6. IsArena(Now)
  BY <1>2, <1>3, <1>4, <1>5 DEF IsArena
<1>7. Bytes(<< >>) = {}
  BY <1>3 DEF Bytes
<1>8. Unused(Now) = { x \in Nat : HeapStart <= x }
  BY <1>2, <1>7 DEF Unused
<1>9. Spans(used) = {}
  BY <1>1 DEF Spans
<1>. QED BY <1>1, <1>6, <1>8, <1>9 DEF HeapInv

\* What free() and realloc() are given.
LEMMA HeldChunk ==
  ASSUME HeapInv, NEW c \in used
  PROVE  /\ IsArena(Now) /\ IsChunk(c)
         /\ Piece(c.at, c.sz) \in Entry /\ Span(Piece(c.at, c.sz)) = Span(c)
         /\ Span(c) \cap Unused(Now) = {} /\ Span(c) \in SUBSET Nat
         /\ Spans({c}) = Span(c)
<1>1. IsArena(Now) /\ IsChunk(c) /\ Spans(used) \cap Unused(Now) = {}
  BY DEF HeapInv
<1>2. Span(c) \subseteq Spans(used) /\ Spans({c}) = Span(c)
  BY DEF Spans
<1>. QED BY <1>1, <1>2, ChunkIs

\* What an allocation hands out is a chunk.
LEMMA HoldingIs ==
  ASSUME NEW r, r.at \in Nat, r.sz \in Nat, HeapStart <= r.at, Freelist - SizeT <= r.sz,
         NEW want \in 0 .. Word - 1, r.sz \in want .. Enough(want) + Freelist
  PROVE  IsChunk(Holding(r, want)) /\ Spans({Holding(r, want)}) = Span(r)
<1>1. Holding(r, want) = [at |-> r.at, sz |-> r.sz, want |-> want]
  BY DEF Holding
<1>2. Span(Holding(r, want)) = Span(r)
  BY <1>1 DEF Span, End
<1>. QED BY <1>1, <1>2 DEF IsChunk, Spans

LEMMA MallocKeeps ==
  ASSUME HeapInv, NEW limit \in Limits, NEW want \in MallocSizes, malloc(want, limit)
  PROVE  HeapInv'
<1>. DEFINE r == allocate(Now, want, limit)
            h == Holding(r, want)
<1>1. want \in 0 .. Word - 1
  BY MallocAssumption
<1>2. r.ok /\ flp' = r.arena.flp /\ brkval' = r.arena.brk /\ used' = used \cup {h}
  BY DEF malloc, Become
<1>3. IsArena(Now)
  BY DEF HeapInv
<1>4. TakenFrom(Now, r) /\ r.sz \in want .. Enough(want) + Freelist
  BY <1>1, <1>2, <1>3, AllocateIs
<1>. HIDE DEF r
<1>5. IsChunk(h) /\ Spans({h}) = Span(r)
  BY <1>1, <1>4, HoldingIs DEF TakenFrom
<1>. HIDE DEF h
<1>. DEFINE none == {}
            new == {h}
            b == r.arena
<1>6. Spans(none) = {}
  BY DEF Spans
<1>7. /\ IsArena(b) /\ Spans(new) \subseteq Unused(Now) \cup Spans(none)
      /\ Unused(b) = (Unused(Now) \cup Spans(none)) \ Spans(new)
  BY <1>4, <1>5, <1>6 DEF TakenFrom
<1>8. none \in SUBSET used /\ used' = (used \ none) \cup new
      /\ (\A g \in new : IsChunk(g)) /\ (\A f, g \in new : f = g)
  BY <1>2, <1>5
<1>9. flp' = b.flp /\ brkval' = b.brk
  BY <1>2
<1>. HIDE DEF none, new, b
<1>. QED BY <1>7, <1>8, <1>9, Handover

LEMMA FreeKeeps ==
  ASSUME HeapInv, NEW c \in used, free(c)
  PROVE  HeapInv'
<1>. DEFINE p == Piece(c.at, c.sz)
            b == release(Now, p)
            gone == {c}
            new == {}
<1>1. flp' = b.flp /\ brkval' = b.brk /\ used' = used \ {c}
  BY DEF free, Become
<1>2. /\ IsArena(Now) /\ p \in Entry /\ Span(p) = Span(c)
      /\ Span(c) \cap Unused(Now) = {} /\ Span(c) \in SUBSET Nat /\ Spans(gone) = Span(c)
  BY HeldChunk
<1>. HIDE DEF p
<1>3. IsArena(b) /\ Unused(b) = Unused(Now) \cup Span(p)
  BY <1>2, ReleaseIs
<1>4. Spans(new) = {}
  BY DEF Spans
<1>5. gone \in SUBSET used /\ used' = (used \ gone) \cup new
      /\ (\A g \in new : IsChunk(g)) /\ (\A f, g \in new : f = g)
  BY <1>1
<1>6. /\ Spans(new) \subseteq Unused(Now) \cup Spans(gone)
      /\ Unused(b) = (Unused(Now) \cup Spans(gone)) \ Spans(new)
  BY <1>2, <1>3, <1>4
<1>. HIDE DEF b, gone, new
<1>. QED BY <1>1, <1>3, <1>5, <1>6, Handover

LEMMA ReallocKeeps ==
  ASSUME HeapInv, ResizesFit, NEW limit \in Limits, NEW c \in used, NEW want \in ReallocSizes,
         realloc(c, want, limit)
  PROVE  HeapInv'
<1>. DEFINE p == Piece(c.at, c.sz)
            r == reallocate(Now, c, want, limit)
            h == Holding(r, want)
            gone == {c}
            new == {h}
            b == r.arena
<1>1. r.ok /\ flp' = b.flp /\ brkval' = b.brk /\ used' = (used \ {c}) \cup {h}
  BY DEF realloc, Become
<1>2. /\ IsArena(Now) /\ p \in Entry /\ Span(p) = Span(c)
      /\ Span(c) \cap Unused(Now) = {} /\ Span(c) \in SUBSET Nat /\ Spans(gone) = Span(c)
  BY HeldChunk
<1>3. r = reallocate(Now, p, want, limit)
  BY ReallocateSees
<1>. HIDE DEF p, r
<1>4. ResizedFrom(Now, p, r) /\ r.sz \in want .. Enough(want) + Freelist
  BY <1>1, <1>2, <1>3, ReallocateIs
<1>5. want \in 0 .. Word - 1
  BY MallocAssumption
<1>6. IsChunk(h) /\ Spans({h}) = Span(r)
  BY <1>4, <1>5, HoldingIs DEF ResizedFrom
<1>7. gone \in SUBSET used /\ used' = (used \ gone) \cup new
      /\ (\A g \in new : IsChunk(g)) /\ (\A f, g \in new : f = g)
  BY <1>1, <1>6
<1>8. /\ IsArena(b) /\ Spans(new) \subseteq Unused(Now) \cup Spans(gone)
      /\ Unused(b) = (Unused(Now) \cup Spans(gone)) \ Spans(new)
  BY <1>2, <1>4, <1>6 DEF ResizedFrom
<1>. HIDE DEF b, gone, new, h
<1>. QED BY <1>1, <1>7, <1>8, Handover

LEMMA HeapStep == HeapInv /\ ResizesFit /\ [Next]_vars => HeapInv'
<1>. SUFFICES ASSUME HeapInv, ResizesFit, [Next]_vars PROVE HeapInv'
  OBVIOUS
<1>1. CASE UNCHANGED vars
  <2>1. flp' = flp /\ brkval' = brkval /\ used' = used
    BY <1>1 DEF vars
  <2>2. Now' = Now
    BY <2>1 DEF Now
  <2>. QED BY <2>1, <2>2 DEF HeapInv
<1>2. ASSUME NEW limit \in Limits, NEW want \in MallocSizes, malloc(want, limit) PROVE HeapInv'
  BY <1>2, MallocKeeps
<1>3. ASSUME NEW limit \in Limits, NEW c \in used, NEW want \in ReallocSizes, realloc(c, want, limit)
      PROVE  HeapInv'
  BY <1>3, ReallocKeeps
<1>4. ASSUME NEW c \in used, free(c) PROVE HeapInv'
  BY <1>4, FreeKeeps
<1>. QED BY <1>1, <1>2, <1>3, <1>4 DEF Next

-----------------------------------------------------------------------------
(* The heap is sound                                                       *)

\* A range of free bytes below __brkval lies in one entry: between two
\* entries there is at least one byte in use.
LEMMA RangeInEntry ==
  ASSUME NEW a, IsArena(a), NEW at \in Nat, NEW to \in Nat, at < to, at < a.brk,
         \A x \in Nat : at <= x /\ x < to => x \in Unused(a)
  PROVE  \E k \in 1 .. Len(a.flp) : a.flp[k].at <= at /\ to <= End(a.flp[k])
<1>. DEFINE s == a.flp
<1>1. /\ s \in Row /\ a.brk \in Nat
      /\ \A k \in 1 .. Len(s) : End(s[k]) < a.brk /\ s[k] \in Entry
  BY ArenaIs
<1>2. \A k \in 1 .. Len(s) : s[k].at \in Nat /\ End(s[k]) \in Nat /\ s[k].at < End(s[k])
  BY <1>1, EntryIs
<1>3. \A x \in Nat : x \in Unused(a) <=> a.brk <= x \/ x \in Bytes(s)
  BY DEF Unused
<1>. HIDE DEF s
<1>4. at \in Bytes(s)
  BY <1>1, <1>3
<1>5. PICK k \in 1 .. Len(s) : s[k].at <= at /\ at < End(s[k])
  BY <1>4 DEF Bytes, Within
<1>6. to <= End(s[k])
  <2>1. SUFFICES ASSUME End(s[k]) < to PROVE FALSE
    BY <1>2
  <2>2. End(s[k]) \in Bytes(s)
    BY <1>1, <1>2, <1>3, <1>5, <2>1
  <2>3. PICK j \in 1 .. Len(s) : s[j].at <= End(s[k]) /\ End(s[k]) < End(s[j])
    BY <2>2 DEF Bytes, Within
  <2>4. j # k
    BY <1>2, <2>3
  <2>5. k < j => End(s[k]) < s[j].at
    BY <1>1, RowIs
  <2>6. j < k => End(s[j]) < s[k].at
    BY <1>1, RowIs
  <2>7. j < k \/ k < j
    BY <2>4
  <2>. QED BY <1>2, <2>3, <2>5, <2>6, <2>7
<1>. QED BY <1>5, <1>6 DEF s

\* malloc() fails only if no range of free bytes is large enough.
LEMMA FailureMeansFull ==
  ASSUME NEW a, IsArena(a), NEW want \in MallocSizes, NEW limit \in Limits,
         ~allocate(a, want, limit).ok,
         NEW at \in Nat, HeapStart <= at,
         \/ at + Enough(want) + SizeT <= a.brk
         \/ at + Enough(want) + SizeT <= limit
  PROVE  \E x \in Nat : at <= x /\ x < at + Enough(want) + SizeT /\ ~(x \in Unused(a))
<1>. DEFINE s == a.flp
            len == Enough(want)
            to == at + len + 2
<1>1. /\ s \in Row /\ a.brk \in HeapStart .. Word - 1 /\ a.brk \in Nat /\ DOMAIN s = 1 .. Len(s)
      /\ \A k \in 1 .. Len(s) : End(s[k]) < a.brk /\ s[k] \in Entry
  BY ArenaIs
<1>2. /\ Word \in Nat /\ HeapStart \in Nat /\ 2 <= HeapStart /\ want \in Nat
      /\ limit \in Nat /\ limit < Word
  BY Constants DEF SizeT
<1>3. len \in Nat /\ 2 <= len
  BY <1>2, EnoughIs
<1>4. Fitting(s, len) = {}
  <2>1. SUFFICES ASSUME Fitting(s, len) # {} PROVE FALSE
    OBVIOUS
  <2>2. allocate(a, want, limit) = FromList(a, len)
    BY <2>1 DEF allocate
  <2>. HIDE DEF len
  <2>3. FromList(a, len).ok
    BY <1>3, <2>1, FromListIs
  <2>. QED BY <2>2, <2>3
<1>5. ~HasSpace(a.brk, len, limit)
  BY <1>4 DEF allocate, Given
<1>6. to <= a.brk \/ to <= limit
  BY DEF SizeT
<1>. HIDE DEF s, len
<1>7. SUFFICES ASSUME \A x \in Nat : at <= x /\ x < to => x \in Unused(a) PROVE FALSE
  BY DEF SizeT, len
<1>8. to \in Nat /\ at < to
  BY <1>3
<1>9. CASE at < a.brk
  <2>1. PICK k \in 1 .. Len(s) : s[k].at <= at /\ to <= End(s[k])
    <3>. HIDE DEF to
    <3>. QED BY <1>7, <1>8, <1>9, RangeInEntry DEF s
  <2>2. s[k].at \in Nat /\ s[k].sz \in Nat /\ End(s[k]) = s[k].at + 2 + s[k].sz
    BY <1>1, EntryIs
  <2>3. s[k].sz >= len
    BY <1>3, <2>1, <2>2
  <2>4. k \in Fitting(s, len)
    BY <1>1, <2>3 DEF Fitting
  <2>. QED BY <1>4, <2>4
<1>10. CASE ~(at < a.brk)
  <2>1. to <= limit /\ a.brk + len + 2 <= limit /\ a.brk < limit
    BY <1>1, <1>2, <1>3, <1>6, <1>10
  <2>2. len + 2 < Word /\ len + 2 \in Nat
    BY <1>1, <1>2, <1>3, <2>1
  <2>3. (len + 2) % Word = len + 2
    BY <1>2, <2>2, NoWrap
  <2>4. limit - a.brk >= len /\ limit - a.brk >= (len + 2) % Word
    BY <1>1, <1>2, <1>3, <2>1, <2>3
  <2>. QED BY <1>5, <2>1, <2>4 DEF HasSpace, SizeT
<1>. QED BY <1>9, <1>10

LEMMA SoundHeap == HeapInv => TypeOK /\ HeapIsSound
<1>. SUFFICES ASSUME HeapInv PROVE TypeOK /\ HeapIsSound
  OBVIOUS
<1>1. /\ IsArena(Now) /\ \A c \in used : IsChunk(c)
      /\ \A c, d \in used : c # d => Span(c) \cap Span(d) = {}
      /\ Spans(used) \cap Unused(Now) = {}
      /\ Spans(used) \cup Unused(Now) = { x \in Nat : HeapStart <= x }
  BY DEF HeapInv
<1>2. Now.flp = flp /\ Now.brk = brkval
  BY DEF Now, Arena
<1>3. /\ flp \in Row /\ brkval \in HeapStart .. Word - 1 /\ brkval \in Nat
      /\ Len(flp) \in Nat /\ DOMAIN flp = 1 .. Len(flp)
      /\ \A k \in 1 .. Len(flp) : End(flp[k]) < brkval /\ flp[k] \in Entry
  <2>1. LET a == Now IN
        /\ a.flp \in Row /\ a.brk \in HeapStart .. Word - 1 /\ a.brk \in Nat
        /\ Len(a.flp) \in Nat /\ DOMAIN a.flp = 1 .. Len(a.flp)
        /\ \A k \in 1 .. Len(a.flp) : End(a.flp[k]) < a.brk /\ a.flp[k] \in Entry
    BY <1>1, ArenaIs
  <2>. QED BY <1>2, <2>1
<1>4. Word \in Nat /\ HeapStart \in Nat /\ HeapStart < Word
  BY Constants
<1>5. ASSUME NEW c \in used PROVE End(c) <= brkval
  <2>1. Piece(c.at, c.sz) \in Entry /\ Span(Piece(c.at, c.sz)) \cap Unused(Now) = {}
        /\ End(Piece(c.at, c.sz)) = End(c)
    BY HeldChunk, ChunkIs
  <2>2. End(Piece(c.at, c.sz)) <= Now.brk
    BY <1>1, <2>1, BetweenEntries
  <2>. QED BY <1>2, <2>1, <2>2
<1>6. \A k \in 1 .. Len(flp) : /\ flp[k].at \in Nat /\ flp[k].sz \in Nat /\ HeapStart <= flp[k].at
                               /\ flp[k] = [at |-> flp[k].at, sz |-> flp[k].sz]
                               /\ End(flp[k]) = flp[k].at + 2 + flp[k].sz
                               /\ Span(flp[k]) \in SUBSET Nat
                               /\ \A x \in Nat : x \in Span(flp[k]) <=> Within(x, flp[k])
  <2>1. ASSUME NEW c \in Entry
        PROVE  /\ c.at \in Nat /\ c.sz \in Nat /\ HeapStart <= c.at
               /\ End(c) = c.at + 2 + c.sz
               /\ Span(c) \in SUBSET Nat /\ \A x \in Nat : x \in Span(c) <=> Within(x, c)
    BY EntryIs, SpanIs
  <2>2. ASSUME NEW c \in Entry PROVE c = [at |-> c.at, sz |-> c.sz]
    BY DEF Entry
  <2>. QED BY <1>3, <2>1, <2>2
<1>7. Unused(Now) = { x \in Nat : brkval <= x } \cup Bytes(flp)
  BY <1>2 DEF Unused
<1>8. UNION { Span(c) : c \in Entries } = Bytes(flp)
  <2>1. ASSUME NEW k \in 1 .. Len(flp), NEW x \in Span(flp[k]) PROVE x \in Bytes(flp)
    BY <1>6 DEF Bytes
  <2>2. ASSUME NEW x \in Bytes(flp) PROVE \E k \in 1 .. Len(flp) : x \in Span(flp[k])
    BY <1>6 DEF Bytes
  <2>. QED BY <1>3, <2>1, <2>2 DEF Entries
<1>9. Taken = Spans(used)
  BY DEF Taken, Spans
<1>10. ASSUME NEW x \in Bytes(flp) PROVE x \in Nat /\ x < brkval
  <2>1. x \in Nat /\ \E k \in 1 .. Len(flp) : Within(x, flp[k])
    BY DEF Bytes
  <2>2. PICK k \in 1 .. Len(flp) : Within(x, flp[k])
    BY <2>1
  <2>3. flp[k].at \in Nat /\ flp[k].sz \in Nat /\ End(flp[k]) = flp[k].at + 2 + flp[k].sz
    BY <1>6
  <2>4. End(flp[k]) \in Nat /\ End(flp[k]) < brkval /\ x < End(flp[k])
    BY <1>3, <2>2, <2>3 DEF Within
  <2>. QED BY <1>3, <2>1, <2>4
<1>11. TypeOK
  <2>1. \A k \in 1 .. Len(flp) : flp[k] \in Chunk
    <3>1. ASSUME NEW k \in 1 .. Len(flp)
          PROVE  flp[k].at \in 0 .. Word - 1 /\ flp[k].sz \in 0 .. Word - 1
      <4>1. /\ flp[k].at \in Nat /\ flp[k].sz \in Nat /\ End(flp[k]) = flp[k].at + 2 + flp[k].sz
            /\ End(flp[k]) < brkval /\ brkval < Word /\ brkval \in Nat
        BY <1>3, <1>4, <1>6
      <4>. QED BY <1>4, <4>1
    <3>2. ASSUME NEW k \in 1 .. Len(flp) PROVE flp[k] = [at |-> flp[k].at, sz |-> flp[k].sz]
      BY <1>6
    <3>3. ASSUME NEW k \in 1 .. Len(flp), NEW at, NEW sz, flp[k] = [at |-> at, sz |-> sz],
                 at \in 0 .. Word - 1, sz \in 0 .. Word - 1
          PROVE  flp[k] \in Chunk
      BY <3>3 DEF Chunk
    <3>. QED BY <3>1, <3>2, <3>3
  <2>2. flp \in Seq(Entry)
    BY <1>3, RowIs
  <2>3. flp \in Seq(Chunk)
    BY <1>3, <2>1, <2>2
  <2>4. ASSUME NEW c \in used PROVE c \in Held
    <3>1. /\ c.at \in Nat /\ c.sz \in Nat /\ c.want \in Nat /\ c.want < Word
          /\ c = [at |-> c.at, sz |-> c.sz, want |-> c.want] /\ End(c) = c.at + 2 + c.sz
      BY <1>1, ChunkIs
    <3>2. c.at < Word /\ c.sz < Word
      BY <1>3, <1>4, <1>5, <3>1
    <3>3. c.at \in 0 .. Word - 1 /\ c.sz \in 0 .. Word - 1 /\ c.want \in 0 .. Word - 1
      BY <1>4, <3>1, <3>2
    <3>. QED BY <3>1, <3>3 DEF Held
  <2>. QED BY <1>3, <1>4, <2>3, <2>4 DEF TypeOK
<1>12. Tiled
  <2>1. ASSUME NEW x PROVE x \in Spans(used) \cup Bytes(flp) <=> x \in HeapStart .. brkval - 1
    <3>1. CASE x \in Nat
      <4>1. x \in Spans(used) \cup Unused(Now) <=> HeapStart <= x
        BY <1>1, <3>1
      <4>2. x \in Unused(Now) <=> brkval <= x \/ x \in Bytes(flp)
        BY <1>7, <3>1
      <4>3. ~(x \in Spans(used) /\ x \in Unused(Now))
        BY <1>1
      <4>4. x \in Bytes(flp) => x < brkval
        BY <1>10
      <4>. QED BY <1>3, <1>4, <3>1, <4>1, <4>2, <4>3, <4>4
    <3>2. CASE ~(x \in Nat)
      <4>1. ~(x \in Spans(used)) /\ ~(x \in Bytes(flp))
        BY <1>1, <1>10, <3>2
      <4>. QED BY <1>3, <1>4, <3>2, <4>1
    <3>. QED BY <3>1, <3>2
  <2>2. \A c \in used, d \in Entries : Span(c) \cap Span(d) = {}
    <3>1. ASSUME NEW c \in used, NEW k \in 1 .. Len(flp) PROVE Span(c) \cap Span(flp[k]) = {}
      <4>1. Span(c) \subseteq Spans(used)
        BY DEF Spans
      <4>2. Span(flp[k]) \subseteq Bytes(flp)
        BY <1>6 DEF Bytes
      <4>. QED BY <1>1, <1>7, <4>1, <4>2
    <3>. QED BY <1>3, <3>1 DEF Entries
  <2>. QED BY <1>1, <1>8, <1>9, <2>1, <2>2 DEF Tiled
<1>13. Coalesced
  <2>1. ASSUME NEW k \in 1 .. Len(flp)
        PROVE  End(flp[k]) < IF k = Len(flp) THEN brkval ELSE flp[k + 1].at
    <3>1. CASE k = Len(flp)
      BY <1>3, <3>1
    <3>2. CASE k # Len(flp)
      <4>1. Len(flp) \in Nat
        BY <1>3
      <4>2. k + 1 \in 1 .. Len(flp) /\ k < k + 1
        BY <3>2, <4>1
      <4>. QED BY <1>3, <3>2, <4>2, RowIs
    <3>. QED BY <3>1, <3>2
  <2>. QED BY <1>3, <2>1 DEF Coalesced
<1>14. FailsOnlyWhenFull
  <2>1. SUFFICES ASSUME NEW want \in MallocSizes, NEW limit \in Limits, ~allocate(Now, want, limit).ok,
                        NEW at \in HeapStart .. Word, RoomAt(at, Enough(want) + SizeT, limit)
                 PROVE  FALSE
    BY DEF FailsOnlyWhenFull
  <2>. DEFINE size == Enough(want) + SizeT
  <2>2. at \in Nat /\ HeapStart <= at /\ Enough(want) \in Nat /\ SizeT = 2 /\ size \in Nat
    BY <1>4, <2>1, Constants, EnoughIs DEF SizeT
  <2>3. /\ at + size <= brkval \/ at + size <= limit
        /\ (at .. at + size - 1) \cap Spans(used) = {}
    BY <1>9, <2>1 DEF RoomAt
  <2>4. at + size = at + Enough(want) + SizeT
    BY <2>2
  <2>. HIDE DEF size
  <2>5. \/ at + Enough(want) + SizeT <= Now.brk
        \/ at + Enough(want) + SizeT <= limit
    BY <1>2, <2>3, <2>4
  <2>6. PICK x \in Nat : at <= x /\ x < at + Enough(want) + SizeT /\ ~(x \in Unused(Now))
    BY <1>1, <2>1, <2>2, <2>5, FailureMeansFull
  <2>7. x \in at .. at + size - 1
    BY <2>2, <2>4, <2>6
  <2>8. x \in Spans(used)
    <3>1. HeapStart <= x
      BY <1>4, <2>2, <2>6
    <3>. QED BY <1>1, <2>6, <3>1
  <2>. QED BY <2>3, <2>7, <2>8
<1>15. WasteBounded /\ HoldsEntry
  <2>1. ASSUME NEW c \in used
        PROVE  c.sz \in c.want .. Enough(c.want) + Freelist /\ c.sz >= Freelist - SizeT
    <3>1. IsChunk(c) /\ c.sz \in Nat /\ 2 <= c.sz
      BY <1>1, ChunkIs
    <3>. QED BY <3>1 DEF IsChunk, Freelist, SizeT
  <2>. QED BY <2>1 DEF WasteBounded, HoldsEntry
<1>. QED BY <1>11, <1>12, <1>13, <1>14, <1>15 DEF HeapIsSound

\* Whatever the program calls, in whatever order: the chunks and the free list
\* tile the heap, the list is sorted and merged, malloc() fails only for want
\* of room, and no chunk is larger than it must be by more than a list entry
\* (malloc.c:80-260, realloc.c:40-140).
THEOREM HeapStaysSound == ResizesFit /\ Spec => [](TypeOK /\ HeapIsSound)
<1>1. ResizesFit => ResizesFit'
  BY DEF ResizesFit
<1>2. Init => HeapInv
  BY HeapInit
<1>3. HeapInv /\ ResizesFit /\ [Next]_vars => HeapInv'
  BY HeapStep
<1>4. HeapInv => TypeOK /\ HeapIsSound
  BY SoundHeap
<1>. QED BY <1>1, <1>2, <1>3, <1>4, PTL DEF Spec

-----------------------------------------------------------------------------
(* The program sees a heap                                                 *)

Block(c) == [at |-> c.at + SizeT, len |-> c.want]
Blocks == { [at |-> c.at + SizeT, len |-> c.want] : c \in used }

LEMMA ChunksApart ==
  ASSUME NEW c, IsChunk(c), NEW d, IsChunk(d), Span(c) \cap Span(d) = {}
  PROVE  c.at # d.at /\ ~HeapPromise!Overlap(Block(c), Block(d))
<1>1. /\ c.at \in Nat /\ c.want \in Nat /\ c.at + 2 + c.want <= End(c) /\ End(c) \in Nat
      /\ c.at \in Span(c) /\ \A x \in Nat : x \in Span(c) <=> c.at <= x /\ x < End(c)
  BY ChunkIs
<1>2. /\ d.at \in Nat /\ d.want \in Nat /\ d.at + 2 + d.want <= End(d) /\ End(d) \in Nat
      /\ d.at \in Span(d) /\ \A x \in Nat : x \in Span(d) <=> d.at <= x /\ x < End(d)
  BY ChunkIs
<1>3. c.at # d.at
  BY <1>1, <1>2
<1>4. ~(c.at <= d.at /\ d.at < End(c)) /\ ~(d.at <= c.at /\ c.at < End(d))
  BY <1>1, <1>2
<1>5. End(c) <= d.at \/ End(d) <= c.at
  BY <1>1, <1>2, <1>4
<1>6. ~(c.at + 2 < d.at + 2 + d.want /\ d.at + 2 < c.at + 2 + c.want)
  BY <1>1, <1>2, <1>5
<1>7. ~HeapPromise!Overlap(Block(c), Block(d))
  BY <1>6 DEF HeapPromise!Overlap, Block, SizeT
<1>. QED BY <1>3, <1>7

LEMMA ChunkIsBlock ==
  ASSUME NEW c, IsChunk(c), End(c) < Word
  PROVE  Block(c) \in HeapPromise!Block
<1>1. /\ c.at \in Nat /\ c.sz \in Nat /\ c.want \in Nat /\ c.want < Word /\ End(c) = c.at + 2 + c.sz
      /\ Word \in Nat
  BY ChunkIs, Constants
<1>2. c.at + 2 \in 0 .. Word - 1 /\ c.want \in 0 .. Word - 1
  BY <1>1
<1>. QED BY <1>2 DEF Block, HeapPromise!Block, SizeT

\* No chunk reaches beyond the last address.
LEMMA ChunksEnd ==
  ASSUME NEW a, IsArena(a), NEW c, IsChunk(c), Span(c) \cap Unused(a) = {}
  PROVE  End(c) < Word
<1>1. Piece(c.at, c.sz) \in Entry /\ Span(Piece(c.at, c.sz)) \cap Unused(a) = {}
      /\ End(Piece(c.at, c.sz)) = End(c) /\ End(c) \in Nat
  BY ChunkIs
<1>2. End(c) <= a.brk /\ a.brk \in HeapStart .. Word - 1
  BY <1>1, BetweenEntries, ArenaIs
<1>. QED BY <1>1, <1>2, Constants

\* Different chunks are different blocks.
LEMMA BlocksWithout ==
  ASSUME HeapInv, NEW c \in used
  PROVE  { Block(d) : d \in used \ {c} } = { Block(d) : d \in used } \ {Block(c)}
<1>1. ASSUME NEW d \in used, d # c PROVE Block(d) # Block(c)
  <2>1. IsChunk(c) /\ IsChunk(d) /\ Span(c) \cap Span(d) = {}
    BY <1>1 DEF HeapInv
  <2>2. c.at # d.at /\ c.at \in Nat /\ d.at \in Nat
    BY <2>1, ChunksApart, ChunkIs
  <2>3. c.at + 2 # d.at + 2
    BY <2>2
  <2>. QED BY <2>3 DEF Block, SizeT
<1>. QED BY <1>1

LEMMA MallocRefines ==
  ASSUME HeapInv, NEW limit \in Limits, NEW want \in MallocSizes, malloc(want, limit)
  PROVE  HeapPromise!Next
<1>. DEFINE r == allocate(Now, want, limit)
            h == Holding(r, want)
<1>1. want \in 0 .. Word - 1
  BY MallocAssumption
<1>2. r.ok /\ used' = used \cup {h}
  BY DEF malloc, Become
<1>3. IsArena(Now) /\ Spans(used) \cap Unused(Now) = {} /\ \A c \in used : IsChunk(c)
  BY DEF HeapInv
<1>4. TakenFrom(Now, r) /\ r.sz \in want .. Enough(want) + Freelist
  BY <1>1, <1>2, <1>3, AllocateIs
<1>. HIDE DEF r
<1>5. IsChunk(h) /\ Spans({h}) = Span(r)
  BY <1>1, <1>4, HoldingIs DEF TakenFrom
<1>. HIDE DEF h
<1>6. \A c \in used : Span(h) \cap Span(c) = {}
  <2>1. Span(h) \subseteq Unused(Now)
    BY <1>4, <1>5 DEF TakenFrom, Spans
  <2>. QED BY <1>3, <2>1 DEF Spans
<1>7. End(h) < Word
  <2>1. IsArena(r.arena) /\ Span(h) \cap Unused(r.arena) = {}
    BY <1>4, <1>5 DEF TakenFrom, Spans
  <2>. QED BY <1>5, <2>1, ChunksEnd
<1>8. Block(h) \in HeapPromise!Block
  BY <1>5, <1>7, ChunkIsBlock
<1>9. \A c \in used : h.at # c.at /\ ~HeapPromise!Overlap(Block(h), Block(c))
  BY <1>3, <1>5, <1>6, ChunksApart
<1>10. { Block(c) : c \in used' } = { Block(c) : c \in used } \cup {Block(h)}
  BY <1>2
<1>11. Block(h) \notin { Block(c) : c \in used }
  <2>1. ASSUME NEW c \in used PROVE Block(h) # Block(c)
    <3>1. h.at # c.at /\ h.at \in Nat /\ c.at \in Nat
      BY <1>3, <1>5, <1>9, ChunkIs
    <3>2. h.at + 2 # c.at + 2
      BY <3>1
    <3>. QED BY <3>2 DEF Block, SizeT
  <2>. QED BY <2>1
<1>12. HeapPromise!Apart(Block(h), { Block(c) : c \in used })
  BY <1>9 DEF HeapPromise!Apart
<1>13. HeapPromise!Allocate
  <2>1. Block(h) \in { Block(c) : c \in used' }
    BY <1>10
  <2>. QED BY <1>8, <1>10, <1>11, <1>12, <2>1 DEF HeapPromise!Allocate, Block
<1>. QED BY <1>13 DEF HeapPromise!Next

LEMMA FreeRefines ==
  ASSUME HeapInv, NEW c \in used, free(c)
  PROVE  HeapPromise!Next
<1>1. used' = used \ {c}
  BY DEF free
<1>2. { Block(d) : d \in used' } = { Block(d) : d \in used } \ {Block(c)}
  BY <1>1, BlocksWithout
<1>3. HeapPromise!Release
  BY <1>2 DEF HeapPromise!Release, Block
<1>. QED BY <1>3 DEF HeapPromise!Next

LEMMA ReallocRefines ==
  ASSUME HeapInv, ResizesFit, NEW limit \in Limits, NEW c \in used, NEW want \in ReallocSizes,
         realloc(c, want, limit)
  PROVE  HeapPromise!Next
<1>. DEFINE p == Piece(c.at, c.sz)
            r == reallocate(Now, c, want, limit)
            h == Holding(r, want)
            kept == used \ {c}
<1>1. r.ok /\ used' = kept \cup {h}
  BY DEF realloc
<1>2. /\ IsArena(Now) /\ p \in Entry /\ Span(p) = Span(c) /\ p.at = c.at
      /\ Span(c) \cap Unused(Now) = {} /\ IsChunk(c)
  BY HeldChunk DEF Piece
<1>3. r = reallocate(Now, p, want, limit)
  BY ReallocateSees
<1>. HIDE DEF p, r
<1>4. ResizedFrom(Now, p, r) /\ r.sz \in want .. Enough(want) + Freelist
  BY <1>1, <1>2, <1>3, ReallocateIs
<1>5. want \in 0 .. Word - 1
  BY MallocAssumption
<1>6. IsChunk(h) /\ Spans({h}) = Span(r) /\ h.at = r.at
  BY <1>4, <1>5, HoldingIs DEF ResizedFrom, Holding
<1>. HIDE DEF h
<1>7. Span(h) = Span(r)
  BY <1>6 DEF Spans
<1>8. \A d \in kept : IsChunk(d) /\ Span(h) \cap Span(d) = {}
  <2>1. ASSUME NEW d \in kept PROVE Span(h) \cap Span(d) = {}
    <3>1. Span(d) \cap Span(c) = {} /\ Span(d) \cap Unused(Now) = {}
      BY DEF HeapInv, Spans
    <3>2. Span(h) \subseteq Unused(Now) \cup Span(c)
      BY <1>2, <1>4, <1>7 DEF ResizedFrom
    <3>. QED BY <3>1, <3>2
  <2>. QED BY <2>1 DEF HeapInv
<1>9. End(h) < Word
  <2>1. IsArena(r.arena) /\ Span(h) \cap Unused(r.arena) = {}
    BY <1>4, <1>7 DEF ResizedFrom
  <2>. QED BY <1>6, <2>1, ChunksEnd
<1>10. Block(h) \in HeapPromise!Block
  BY <1>6, <1>9, ChunkIsBlock
<1>11. \A d \in kept : ~HeapPromise!Overlap(Block(h), Block(d))
  BY <1>6, <1>8, ChunksApart
<1>12. { Block(d) : d \in kept } = { Block(d) : d \in used } \ {Block(c)}
  BY BlocksWithout
<1>13. { Block(d) : d \in used' } = ({ Block(d) : d \in used } \ {Block(c)}) \cup {Block(h)}
  BY <1>1, <1>12
<1>14. HeapPromise!Apart(Block(h), { Block(d) : d \in used } \ {Block(c)})
  BY <1>11, <1>12 DEF HeapPromise!Apart
<1>15. Block(h).at # Block(c).at => ~HeapPromise!Overlap(Block(h), Block(c))
  <2>1. SUFFICES ASSUME Block(h).at # Block(c).at PROVE ~HeapPromise!Overlap(Block(h), Block(c))
    OBVIOUS
  <2>2. h.at # c.at
    BY <2>1 DEF Block
  <2>3. Span(h) \cap Span(c) = {}
    BY <1>2, <1>4, <1>6, <1>7, <2>2 DEF ResizedFrom
  <2>. QED BY <1>2, <1>6, <2>3, ChunksApart
<1>16. HeapPromise!Resize
  <2>1. Block(h) \in { Block(d) : d \in used' } /\ Block(c) \in { Block(d) : d \in used }
    BY <1>13
  <2>. QED BY <1>10, <1>13, <1>14, <1>15, <2>1 DEF HeapPromise!Resize, Block
<1>. QED BY <1>16 DEF HeapPromise!Next

LEMMA StepRefines == HeapInv /\ ResizesFit /\ [Next]_vars => [HeapPromise!Next]_Blocks
<1>. SUFFICES ASSUME HeapInv, ResizesFit, [Next]_vars PROVE [HeapPromise!Next]_Blocks
  OBVIOUS
<1>1. CASE UNCHANGED vars
  BY <1>1 DEF vars, Blocks
<1>2. ASSUME NEW limit \in Limits, NEW want \in MallocSizes, malloc(want, limit) PROVE HeapPromise!Next
  BY <1>2, MallocRefines
<1>3. ASSUME NEW limit \in Limits, NEW c \in used, NEW want \in ReallocSizes, realloc(c, want, limit)
      PROVE  HeapPromise!Next
  BY <1>3, ReallocRefines
<1>4. ASSUME NEW c \in used, free(c) PROVE HeapPromise!Next
  BY <1>4, FreeRefines
<1>. QED BY <1>1, <1>2, <1>3, <1>4 DEF Next

\* The program is given memory of its own: no call hands out a byte that is in
\* use, and what realloc() moves does not overlap its old place, so that the
\* copy is whole (malloc.c:80, realloc.c:40, Heap.tla).
THEOREM MallocImplementsHeap == ResizesFit /\ Spec => ImplementsHeap
<1>1. ResizesFit => ResizesFit'
  BY DEF ResizesFit
<1>2. Init => HeapInv /\ HeapPromise!Init
  BY HeapInit DEF Init, HeapPromise!Init
<1>3. HeapInv /\ ResizesFit /\ [Next]_vars => HeapInv' /\ [HeapPromise!Next]_Blocks
  BY HeapStep, StepRefines
<1>. QED BY <1>1, <1>2, <1>3, PTL DEF Spec, ImplementsHeap, HeapPromise!Spec, Blocks

=============================================================================
