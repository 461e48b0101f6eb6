------------------------------- MODULE Malloc -------------------------------
(***************************************************************************)
(* The allocator of the MightyCore core: one list of free chunks between   *)
(* the start of the heap and __brkval, above which memory is untouched up  *)
(* to the stack.                                                           *)
(*                                                                         *)
(* A chunk is a size field and sz bytes.  Its address is that of the size  *)
(* field; a pointer handed to the program is SizeT higher.                 *)
(***************************************************************************)
EXTENDS Integers, Sequences

CONSTANTS
  Word,           \* how many values a size_t or a pointer has
  HeapStart,      \* __malloc_heap_start
  Limits,         \* where the heap must end, by the depth of the stack
  MallocSizes,    \* what the program asks malloc for
  ReallocSizes    \* and realloc

SizeT == 2        \* sizeof(size_t)
Freelist == 4     \* sizeof(struct __freelist)

ASSUME MallocAssumption ==
  /\ Word \in Nat /\ HeapStart \in SizeT .. Word - 1
  /\ Limits \subseteq 0 .. Word - 1
  /\ MallocSizes \subseteq 0 .. Word - 1
  /\ ReallocSizes \subseteq 0 .. Word - 1

VARIABLES
  flp,            \* the chunks on the free list, from its head
  brkval,         \* __brkval
  used            \* the chunks the program holds, want being what it asked for

vars == << flp, brkval, used >>

Chunk == [at : 0 .. Word - 1, sz : 0 .. Word - 1]
Held  == [at : 0 .. Word - 1, sz : 0 .. Word - 1, want : 0 .. Word - 1]

TypeOK == flp \in Seq(Chunk) /\ brkval \in 0 .. Word - 1 /\ used \subseteq Held

Init == flp = << >> /\ brkval = HeapStart /\ used = {}

(* An operation takes and returns the part of the state the allocator      *)
(* keeps.                                                                  *)
Arena(list, brk) == [flp |-> list, brk |-> brk]
Now == Arena(flp, brkval)

End(c) == c.at + SizeT + c.sz
Piece(at, sz) == [at |-> at, sz |-> sz]

Least(S) == CHOOSE k \in S : \A j \in S : k <= j
Without(s, k) == SubSeq(s, 1, k - 1) \o SubSeq(s, k + 1, Len(s))

-----------------------------------------------------------------------------
(* malloc *)

EnoughUnchecked(len) == len
Enough(len) == IF len < Freelist - SizeT THEN Freelist - SizeT ELSE len

Failed(a) == [ok |-> FALSE, arena |-> a]
Given(at, sz, list, brk) ==
  [ok |-> TRUE, at |-> at, sz |-> sz, arena |-> Arena(list, brk)]

Fitting(list, len) == { k \in DOMAIN list : list[k].sz >= len }

(* The first of the smallest chunks that fit: an exact one if there is any. *)
BestFit(list, len) ==
  Least({ k \in Fitting(list, len) :
            \A j \in Fitting(list, len) : list[k].sz <= list[j].sz })

(* The chunk is split if the rest can hold a list entry, and its upper     *)
(* part handed out.                                                        *)
SplitsSwapped(sz, len) == len - sz >= Freelist
Splits(sz, len) == sz - len >= Freelist

FromList(a, len) ==
  LET k == BestFit(a.flp, len)
      c == a.flp[k]
      lower == Piece(c.at, c.sz - len - SizeT)
  IN  IF Splits(c.sz, len)
        THEN Given(End(lower), len, [a.flp EXCEPT ![k] = lower], a.brk)
        ELSE Given(c.at, c.sz, Without(a.flp, k), a.brk)

(* The sum wraps for the largest sizes. *)
HasSpaceOneTest(brk, len, limit) == brk < limit /\ limit - brk >= (len + SizeT) % Word
HasSpace(brk, len, limit) ==
  /\ brk < limit
  /\ limit - brk >= len
  /\ limit - brk >= (len + SizeT) % Word

allocate(a, want, limit) ==
  LET len == Enough(want)
  IN  IF Fitting(a.flp, len) # {} THEN FromList(a, len)
      ELSE IF HasSpace(a.brk, len, limit)
        THEN Given(a.brk, len, a.flp, a.brk + len + SizeT)
      ELSE Failed(a)

-----------------------------------------------------------------------------
(* free *)

Touches(c, at) == End(c) = at

JoinsNever(c, d) == FALSE
Joins(c, d) == Touches(c, d.at)
Joined(c, d) == Piece(c.at, c.sz + d.sz + SizeT)

(* The chunk before the entry that follows it, one with it if they touch. *)
WithUpper(c, upper) ==
  IF upper # << >> /\ Joins(c, Head(upper))
    THEN << Joined(c, Head(upper)) >> \o Tail(upper)
    ELSE << c >> \o upper

WithLower(lower, list) ==
  LET last == lower[Len(lower)]
  IN  IF Joins(last, Head(list))
        THEN SubSeq(lower, 1, Len(lower) - 1) \o << Joined(last, Head(list)) >> \o Tail(list)
        ELSE lower \o list

(* A last entry that touches __brkval goes back above it. *)
LowerBrkNever(list, brk) == Arena(list, brk)
LowerBrk(list, brk) ==
  LET last == list[Len(list)]
  IN  IF Touches(last, brk) THEN Arena(SubSeq(list, 1, Len(list) - 1), last.at)
                            ELSE Arena(list, brk)

release(a, c) ==
  LET above == { k \in DOMAIN a.flp : a.flp[k].at >= c.at }
      place == IF above = {} THEN Len(a.flp) + 1 ELSE Least(above)
      lower == SubSeq(a.flp, 1, place - 1)
      list  == WithUpper(c, SubSeq(a.flp, place, Len(a.flp)))
  IN  CASE a.flp = << >> -> LowerBrk(<< c >>, a.brk)
        [] a.flp # << >> /\ lower = << >> -> Arena(list, a.brk)
        [] OTHER -> LowerBrk(WithLower(lower, list), a.brk)

-----------------------------------------------------------------------------
(* realloc *)

WrapsPastTopNever(c, len) == FALSE
WrapsPastTop(c, len) == (c.at + SizeT + len) % Word < c.at

(* What is cut off must hold a list entry. *)
Cuts(c, len) == c.sz > Freelist /\ len <= c.sz - Freelist

Shrunk(a, c, len) ==
  IF Cuts(c, len)
    THEN Given(c.at, len, release(a, Piece(c.at + SizeT + len, c.sz - len - SizeT)).flp,
                          release(a, Piece(c.at + SizeT + len, c.sz - len - SizeT)).brk)
    ELSE Given(c.at, c.sz, a.flp, a.brk)

(* The list entry right above, if it is large enough. *)
AboveAnySize(a, c, len) == { k \in DOMAIN a.flp : Touches(c, a.flp[k].at) }
Above(a, c, len) ==
  { k \in DOMAIN a.flp : /\ Touches(c, a.flp[k].at)
                         /\ a.flp[k].sz + SizeT >= len - c.sz }

GrownInto(a, c, len, k) ==
  LET d == a.flp[k]
      rest == d.sz + SizeT - (len - c.sz)
  IN  IF rest > Freelist
        THEN Given(c.at, len,
                   [a.flp EXCEPT ![k] = Piece(c.at + SizeT + len, rest - SizeT)], a.brk)
        ELSE Given(c.at, c.sz + d.sz + SizeT, Without(a.flp, k), a.brk)

(* The topmost chunk grows in place or not at all, unless a chunk of the   *)
(* list may do.                                                            *)
Topmost(a, c, len) ==
  Touches(c, a.brk) /\ \A k \in DOMAIN a.flp : a.flp[k].sz < len

Extended(a, c, len, limit) ==
  LET top == (c.at + SizeT + len) % Word
  IN  IF top < limit THEN Given(c.at, len, a.flp, top) ELSE Failed(a)

Moved(a, c, len, limit) ==
  LET new == allocate(a, len, limit)
      old == release(new.arena, Piece(c.at, c.sz))
  IN  IF new.ok THEN [new EXCEPT !.arena = old] ELSE Failed(a)

reallocate(a, c, len, limit) ==
  CASE WrapsPastTop(c, len) -> Failed(a)
    [] ~WrapsPastTop(c, len) /\ len <= c.sz -> Shrunk(a, c, len)
    [] OTHER ->
         IF Above(a, c, len) # {} THEN GrownInto(a, c, len, Least(Above(a, c, len)))
         ELSE IF Topmost(a, c, len) THEN Extended(a, c, len, limit)
         ELSE Moved(a, c, len, limit)

-----------------------------------------------------------------------------
Become(a) == flp' = a.flp /\ brkval' = a.brk

Holding(r, want) == [at |-> r.at, sz |-> r.sz, want |-> want]

malloc(want, limit) ==
  LET r == allocate(Now, want, limit)
  IN  /\ r.ok
      /\ Become(r.arena)
      /\ used' = used \cup { Holding(r, want) }

free(c) ==
  /\ Become(release(Now, Piece(c.at, c.sz)))
  /\ used' = used \ {c}

realloc(c, want, limit) ==
  LET r == reallocate(Now, c, want, limit)
  IN  /\ r.ok
      /\ Become(r.arena)
      /\ used' = (used \ {c}) \cup { Holding(r, want) }

Next ==
  \/ \E limit \in Limits :
       \/ \E want \in MallocSizes : malloc(want, limit)
       \/ \E c \in used, want \in ReallocSizes : realloc(c, want, limit)
  \/ \E c \in used : free(c)

Spec == Init /\ [][Next]_vars


-----------------------------------------------------------------------------
(* Properties *)

Entries  == { flp[k] : k \in DOMAIN flp }
Span(c)  == c.at .. End(c) - 1
Taken    == UNION { Span(c) : c \in used }

(* The chunks held and those on the list share no byte, and between the    *)
(* start of the heap and __brkval no byte is lost.                         *)
Tiled ==
  /\ Taken \cup UNION { Span(c) : c \in Entries } = HeapStart .. brkval - 1
  /\ \A c, d \in used : c # d => Span(c) \cap Span(d) = {}
  /\ \A c \in used, d \in Entries : Span(c) \cap Span(d) = {}

(* The list is in the order of addresses, no two entries touch, and the    *)
(* last does not touch __brkval.                                           *)
Coalesced ==
  \A k \in DOMAIN flp :
    End(flp[k]) < IF k = Len(flp) THEN brkval ELSE flp[k + 1].at

(* malloc fails only if nowhere in the heap are as many bytes together as  *)
(* it needs: no order of calls leaves room it cannot see.                  *)
RoomAt(at, size, limit) ==
  /\ at + size <= brkval \/ at + size <= limit
  /\ (at .. at + size - 1) \cap Taken = {}

FailsOnlyWhenFull ==
  \A want \in MallocSizes, limit \in Limits :
    ~allocate(Now, want, limit).ok =>
      \A at \in HeapStart .. Word : ~RoomAt(at, Enough(want) + SizeT, limit)

(* A chunk has at most Freelist bytes more than the program needed,        *)
(* however often it was resized.                                           *)
WasteBounded == \A c \in used : c.sz \in c.want .. Enough(c.want) + Freelist

(* Every chunk held can become a list entry when it is freed.              *)
HoldsEntry == \A c \in used : c.sz >= Freelist - SizeT

(* The chunks of the heap share no byte and none is lost; the free list is *)
(* sorted and merged; an allocation fails only for want of room            *)
(* (malloc.c:80-260, realloc.c).                                           *)
HeapIsSound == Tiled /\ Coalesced /\ FailsOnlyWhenFull /\ WasteBounded /\ HoldsEntry

(* The program sees a heap. *)
HeapPromise ==
  INSTANCE Heap WITH
    Address <- 0 .. Word - 1, Size <- 0 .. Word - 1,
    blocks <- { [at |-> c.at + SizeT, len |-> c.want] : c \in used }

(* No memory the program holds is given away or moved under its feet.      *)
ImplementsHeap == HeapPromise!Spec

=============================================================================
