----------------------------- MODULE SbufProofs -----------------------------
(***************************************************************************)
(* A string buffer owns its memory and is the text buffer its users count  *)
(* on, for all texts, sizes and heaps.                                     *)
(***************************************************************************)
EXTENDS Sbuf, TLAPS

Flags == {AUTOEXTEND, DYNAMIC, DYNSTRUCT, OVERFLOWED, FINISHED}

\* A buffer in use: the text leaves room for the NUL, and what the flags call
\* dynamic are two blocks of the heap.
Sane(sb) ==
    /\ sb \in [buf : Nat, size : Nat, text : Seq(Chars), flags : SUBSET Flags, self : Nat]
    /\ Len(sb.text) < sb.size
    /\ DYNAMIC \in sb.flags => sb.buf \in Blocks
    /\ DYNSTRUCT \in sb.flags => sb.self \in Blocks
    /\ DYNAMIC \in sb.flags /\ DYNSTRUCT \in sb.flags => sb.buf # sb.self

\* Between two steps, sbuf_vprintf has a piece to print and none was refused.
SbufInv ==
    /\ pc \in {"none", "idle", "try", "grow"}
    /\ pc = "none" => s = NoSbuf
    /\ pc # "none" => Sane(s)
    /\ pc \in {"try", "grow"} => arg \in Pieces /\ OVERFLOWED \notin s.flags
    /\ wild = FALSE
    /\ live = Own(s)

USE DEF AUTOEXTEND, DYNAMIC, DYNSTRUCT, OVERFLOWED, FINISHED, NULL, STACK, ARRAY

\* Growing moves a text as it is to a block of its own with the room wanted,
\* and frees the block it leaves.
LEMMA Grows ==
    ASSUME NEW sb, Sane(sb), live = Own(sb), NEW wanted \in Nat,
           NEW g \in sbuf_ensure_capacity(sb, wanted)
    PROVE  /\ Sane(g.s) /\ g.live = Own(g.s)
           /\ sbuf_capacity(g.s) >= wanted
           /\ g.s.text = sb.text
           /\ OVERFLOWED \in g.s.flags <=> OVERFLOWED \in sb.flags
<1> USE SizesAssumption
<1>1. CASE sbuf_capacity(sb) >= wanted
  BY <1>1 DEF sbuf_ensure_capacity
<1>2. CASE ~(sbuf_capacity(sb) >= wanted)
  <2>0. g \in sbuf_extend(sb, wanted - sbuf_capacity(sb))
    BY <1>2 DEF sbuf_ensure_capacity
  <2>1. PICK b \in Fresh(live), n \in sbuf_extendsize(sb.size + (wanted - sbuf_capacity(sb))) :
            g = Moved(sb, b, n)
    BY <2>0 DEF sbuf_extend
  <2>2. n \in Nat /\ n >= sb.size + (wanted - sbuf_capacity(sb))
    BY DEF sbuf_extendsize, Sane, sbuf_capacity
  <2>3. b \in Blocks /\ b \notin live /\ b \in Nat
    BY DEF Fresh
  <2>4. /\ g.s.buf = b /\ g.s.size = n /\ g.s.text = sb.text /\ g.s.self = sb.self
        /\ g.s.flags = sb.flags \cup {DYNAMIC}
        /\ g.s \in [buf : Nat, size : Nat, text : Seq(Chars), flags : SUBSET Flags, self : Nat]
    BY <2>1, <2>2, <2>3 DEF Sane, Flags, Moved
  <2>5. Len(g.s.text) < g.s.size /\ sbuf_capacity(g.s) >= wanted
    BY <1>2, <2>2, <2>4 DEF Sane, sbuf_capacity
  <2>6. g.live = Own(g.s)
    BY <2>1, <2>3, <2>4 DEF Sane, Own, OldBlock, Moved
  <2>7. QED
    BY <2>3, <2>4, <2>5, <2>6 DEF Sane, Own
<1>3. QED
  BY <1>1, <1>2

\* A buffer that sbuf_new makes is empty, sane, and owns what was allocated.
LEMMA News ==
    ASSUME SbufInv, sbuf_new
    PROVE  SbufInv' /\ s'.text = <<>> /\ OVERFLOWED \notin s'.flags
<1> USE SizesAssumption
<1>1. s = NoSbuf /\ live = {}
  BY DEF SbufInv, sbuf_new, NoSbuf, Own
<1>2. PICK n \in Lengths, f \in SUBSET {AUTOEXTEND}, x \in Selves :
          NewArray(n, f, x) \/ NewDynamic(n, f, x)
  BY DEF sbuf_new
<1>3. n \in Nat /\ n > 0
  OBVIOUS
<1>4. x \in Nat /\ (x # STACK => x \in Blocks) /\ STACK \notin Blocks
  BY DEF Selves, Fresh
<1>5. CASE NewArray(n, f, x)
  BY <1>1, <1>3, <1>4, <1>5 DEF NewArray, SelfFlag, SelfBlock, SbufInv, Sane, Own, Flags, sbuf_new
<1>6. CASE NewDynamic(n, f, x)
  <2>1. PICK size \in (IF f = {} THEN {n} ELSE sbuf_extendsize(n)), b \in Fresh(live \cup {x}) :
            /\ s' = [buf |-> b, size |-> size, text |-> <<>>,
                     flags |-> f \cup SelfFlag(x) \cup {DYNAMIC}, self |-> x]
            /\ live' = live \cup SelfBlock(x) \cup {b}
    BY <1>6 DEF NewDynamic
  <2>2. size \in Nat /\ size > 0
    BY <1>3 DEF sbuf_extendsize
  <2>3. b \in Blocks /\ b \in Nat /\ b # x
    BY DEF Fresh
  <2>4. QED
    BY <1>1, <1>4, <2>1, <2>2, <2>3 DEF SelfFlag, SelfBlock, SbufInv, Sane, Own, Flags, sbuf_new
<1>7. QED
  BY <1>2, <1>5, <1>6

\* A step of the text buffer, or none.
TextStep == [Buffer!Next]_<<s.text, OVERFLOWED \in s.flags>>

\* sbuf_bcat on a sane buffer, the present one or one just cleared: the piece
\* is appended, or was or is refused.
LEMMA Bcats ==
    ASSUME NEW sb, Sane(sb), live = Own(sb), wild = FALSE, NEW p \in Pieces, sbuf_bcat(sb, p)
    PROVE  /\ Sane(s') /\ live' = Own(s') /\ wild' = FALSE
           /\ \/ ~Refused(sb) /\ s'.text = sb.text \o p /\ OVERFLOWED \notin s'.flags
              \/ s'.text = sb.text /\ OVERFLOWED \in s'.flags
<1> USE PiecesAssumption
<1>0. p \in Seq(Chars) /\ Len(p) \in Nat
  OBVIOUS
<1>1. CASE Refused(sb) /\ s' = sb /\ UNCHANGED <<live, wild>>
  BY <1>1 DEF Refused
<1>2. CASE ~Refused(sb) /\ sbuf_capacity(sb) < Len(p) /\ Overflow(sb)
  BY <1>2 DEF Overflow, WithFlags, Sane, Own, Flags
<1>3. CASE /\ ~Refused(sb)
           /\ \E g \in sbuf_ensure_capacity(sb, Len(p)) :
                 s' = Appended(g.s, p) /\ live' = g.live /\ Write(g.s, Len(p))
  <2>1. PICK g \in sbuf_ensure_capacity(sb, Len(p)) :
            s' = Appended(g.s, p) /\ live' = g.live /\ Write(g.s, Len(p))
    BY <1>3
  <2>2. /\ Sane(g.s) /\ g.live = Own(g.s) /\ sbuf_capacity(g.s) >= Len(p)
        /\ g.s.text = sb.text /\ OVERFLOWED \notin g.s.flags
    BY <1>0, <1>3, Grows DEF Refused
  <2>3. /\ s'.text = g.s.text \o p /\ s'.size = g.s.size /\ s'.flags = g.s.flags
        /\ s'.buf = g.s.buf /\ s'.self = g.s.self
    BY <2>1, <2>2 DEF Appended, Sane
  <2>4. g.s.text \o p \in Seq(Chars) /\ Len(g.s.text \o p) = Len(g.s.text) + Len(p)
    BY <1>0, <2>2 DEF Sane
  <2>5. Len(g.s.text) + Len(p) < g.s.size /\ g.s.size \in Nat /\ Len(g.s.text) \in Nat
    BY <1>0, <2>2 DEF Sane, sbuf_capacity
  <2>6. ~(Len(g.s.text) + Len(p) > g.s.size)
    BY <1>0, <2>5
  <2>7. wild' = FALSE
    BY <2>1, <2>6, Zenon DEF Write
  <2>8. s' \in [buf : Nat, size : Nat, text : Seq(Chars), flags : SUBSET Flags, self : Nat]
    BY <2>1, <2>2, <2>4 DEF Appended, Sane
  <2>9. Sane(s')
    BY <2>2, <2>3, <2>4, <2>5, <2>8 DEF Sane
  <2>10. live' = Own(s')
    BY <2>1, <2>2, <2>3 DEF Own
  <2>11. QED
    BY <1>3, <2>2, <2>3, <2>7, <2>9, <2>10
<1>4. QED
  BY <1>1, <1>2, <1>3 DEF sbuf_bcat

\* sbuf_bcat, sbuf_cat and sbuf_putc.
LEMMA Cats ==
    ASSUME SbufInv, NEW p \in Pieces, Cat(p)
    PROVE  SbufInv' /\ TextStep
<1>1. /\ Sane(s') /\ live' = Own(s') /\ wild' = FALSE
      /\ \/ ~Refused(s) /\ s'.text = s.text \o p /\ OVERFLOWED \notin s'.flags
         \/ s'.text = s.text /\ OVERFLOWED \in s'.flags
  BY Bcats DEF Cat, SbufInv
<1>2. pc = "idle" /\ pc' = "idle"
  BY DEF Cat
<1>3. SbufInv'
  BY <1>1, <1>2 DEF SbufInv
<1>4. CASE ~Refused(s) /\ s'.text = s.text \o p /\ OVERFLOWED \notin s'.flags
  BY <1>3, <1>4 DEF Refused, TextStep, Buffer!Next, Buffer!Append_
<1>5. CASE s'.text = s.text /\ OVERFLOWED \in s'.flags
  BY <1>3, <1>5 DEF TextStep, Buffer!Next, Buffer!Refuse
<1>6. QED
  BY <1>1, <1>3, <1>4, <1>5

\* Clearing a buffer leaves its memory as it is.
LEMMA Clears ==
    ASSUME Sane(s)
    PROVE  Sane(Cleared) /\ Own(Cleared) = Own(s) /\ Cleared.text = <<>> /\ ~Refused(Cleared)
<1>1. /\ Cleared.buf = s.buf /\ Cleared.size = s.size /\ Cleared.self = s.self
      /\ Cleared.text = <<>> /\ Cleared.flags = s.flags \ {FINISHED, OVERFLOWED}
  BY DEF Cleared, Sane
<1>2. Cleared \in [buf : Nat, size : Nat, text : Seq(Chars), flags : SUBSET Flags, self : Nat]
  <2>1. ASSUME NEW t \in Seq(Chars), NEW f \in SUBSET Flags
        PROVE  [s EXCEPT !.text = t, !.flags = f]
                 \in [buf : Nat, size : Nat, text : Seq(Chars), flags : SUBSET Flags, self : Nat]
    BY DEF Sane
  <2>2. <<>> \in Seq(Chars) /\ s.flags \ {FINISHED, OVERFLOWED} \in SUBSET Flags
    BY DEF Sane
  <2>3. QED
    BY <2>1, <2>2, Zenon DEF Cleared
<1>3. Sane(Cleared)
  BY <1>1, <1>2 DEF Sane
<1>4. QED
  BY <1>1, <1>3 DEF Own, Refused

\* sbuf_bcpy and sbuf_cpy.
LEMMA Cpys ==
    ASSUME SbufInv, NEW p \in Pieces, Cpy(p)
    PROVE  SbufInv' /\ TextStep
<1> USE PiecesAssumption
<1>1. Sane(Cleared) /\ live = Own(Cleared) /\ Cleared.text = <<>> /\ ~Refused(Cleared)
  BY Clears DEF Cpy, SbufInv
<1>2. /\ Sane(s') /\ live' = Own(s') /\ wild' = FALSE
      /\ \/ s'.text = Cleared.text \o p /\ OVERFLOWED \notin s'.flags
         \/ s'.text = Cleared.text /\ OVERFLOWED \in s'.flags
  BY <1>1, Bcats DEF Cpy, SbufInv
<1>3. \/ s'.text = p /\ OVERFLOWED \notin s'.flags
      \/ s'.text = <<>> /\ OVERFLOWED \in s'.flags
  BY <1>1, <1>2
<1>4. SbufInv'
  BY <1>2 DEF SbufInv, Cpy
<1>5. TextStep
  BY <1>3 DEF TextStep, Buffer!Next, Buffer!Replace, Buffer!ReplaceFails
<1>6. QED
  BY <1>4, <1>5

\* A buffer whose flags OVERFLOWED and FINISHED change stays sane and owns what
\* it owned.
LEMMA Flagged ==
    ASSUME Sane(s), NEW on \in SUBSET {OVERFLOWED, FINISHED}, NEW off \in SUBSET {OVERFLOWED},
           s' = WithFlags(s, on, off)
    PROVE  Sane(s') /\ Own(s') = Own(s) /\ s'.text = s.text /\ s'.size = s.size
           /\ s'.flags = (s.flags \ off) \cup on
BY DEF Sane, Own, WithFlags, Flags

\* So does one whose text becomes a prefix.
LEMMA Shortened ==
    ASSUME Sane(s), NEW n \in 0..Len(s.text), s' = [s EXCEPT !.text = SubSeq(@, 1, n)]
    PROVE  Sane(s') /\ Own(s') = Own(s) /\ s'.text = SubSeq(s.text, 1, n) /\ s'.flags = s.flags
<1>1. SubSeq(s.text, 1, n) \in Seq(Chars) /\ Len(SubSeq(s.text, 1, n)) = n
  BY DEF Sane
<1>2. /\ s'.buf = s.buf /\ s'.size = s.size /\ s'.self = s.self /\ s'.flags = s.flags
      /\ s'.text = SubSeq(s.text, 1, n)
  BY DEF Sane
<1>3. s' \in [buf : Nat, size : Nat, text : Seq(Chars), flags : SUBSET Flags, self : Nat]
  BY <1>1 DEF Sane
<1>4. Len(s'.text) < s'.size
  BY <1>1, <1>2 DEF Sane
<1>5. QED
  BY <1>2, <1>3, <1>4 DEF Sane, Own

\* The operations that only change flags or the length.
LEMMA Edits ==
    ASSUME SbufInv, sbuf_clear \/ sbuf_setpos \/ sbuf_trim \/ sbuf_finish
    PROVE  SbufInv' /\ TextStep
<1>0. pc = "idle" /\ pc' = "idle" /\ Sane(s) /\ live' = live /\ live = Own(s) /\ wild = FALSE
  BY DEF SbufInv, sbuf_clear, sbuf_setpos, sbuf_trim, sbuf_finish
<1>1. CASE sbuf_clear
  <2>1. s' = Cleared /\ wild' = FALSE
    BY <1>0, <1>1 DEF sbuf_clear
  <2>2. SbufInv' /\ s'.text = <<>> /\ OVERFLOWED \notin s'.flags
    BY <1>0, <2>1, Clears DEF SbufInv, Refused
  <2>3. QED
    BY <2>2 DEF TextStep, Buffer!Next, Buffer!Clear
<1>2. CASE sbuf_setpos
  <2>1. PICK n \in 0..Len(s.text) : s' = [s EXCEPT !.text = SubSeq(@, 1, n)]
    BY <1>2 DEF sbuf_setpos
  <2>2. SbufInv' /\ s'.text = SubSeq(s.text, 1, n) /\ s'.flags = s.flags
    BY <1>0, <1>2, <2>1, Shortened DEF SbufInv, sbuf_setpos
  <2>3. QED
    BY <2>2 DEF TextStep, Buffer!Next, Buffer!Cut
<1>3. CASE sbuf_trim
  <2>1. PICK n \in 0..Len(s.text) : s' = [s EXCEPT !.text = SubSeq(@, 1, n)]
    BY <1>3 DEF sbuf_trim
  <2>2. SbufInv' /\ s'.text = SubSeq(s.text, 1, n) /\ s'.flags = s.flags
    BY <1>0, <1>3, <2>1, Shortened DEF SbufInv, sbuf_trim
  <2>3. QED
    BY <2>2 DEF TextStep, Buffer!Next, Buffer!Cut
<1>4. CASE sbuf_finish
  <2>1. s' = WithFlags(s, {FINISHED}, {OVERFLOWED}) /\ Write(s, 1)
    BY <1>4 DEF sbuf_finish
  <2>2. Sane(s') /\ Own(s') = Own(s) /\ s'.text = s.text /\ OVERFLOWED \notin s'.flags
    BY <1>0, <2>1, Flagged
  <2>3. ~(Len(s.text) + 1 > s.size)
    BY <1>0 DEF Sane
  <2>4. wild' = FALSE
    BY <1>0, <2>1, <2>3, Zenon DEF Write
  <2>5. SbufInv'
    BY <1>0, <2>2, <2>4 DEF SbufInv
  <2>6. QED
    BY <2>2, <2>5 DEF TextStep, Buffer!Next, Buffer!Finish
<1>5. QED
  BY <1>1, <1>2, <1>3, <1>4

\* sbuf_putc of a NUL makes room or is refused.
LEMMA PutNuls ==
    ASSUME SbufInv, PutNul
    PROVE  SbufInv' /\ TextStep
<1>0. pc = "idle" /\ pc' = "idle" /\ Sane(s) /\ live = Own(s) /\ wild = FALSE
  BY DEF SbufInv, PutNul
<1>1. CASE \E g \in sbuf_ensure_capacity(s, 1) : s' = g.s /\ live' = g.live /\ UNCHANGED wild
  <2>1. PICK g \in sbuf_ensure_capacity(s, 1) : s' = g.s /\ live' = g.live /\ UNCHANGED wild
    BY <1>1
  <2>2. /\ Sane(g.s) /\ g.live = Own(g.s) /\ g.s.text = s.text
        /\ OVERFLOWED \in g.s.flags <=> OVERFLOWED \in s.flags
    BY <1>0, Grows
  <2>3. SbufInv'
    BY <1>0, <2>1, <2>2 DEF SbufInv
  <2>4. QED
    BY <2>1, <2>2, <2>3 DEF TextStep
<1>2. CASE Overflow(s)
  <2>1. Sane(s') /\ Own(s') = Own(s) /\ s'.text = s.text /\ OVERFLOWED \in s'.flags
    BY <1>0, <1>2, Flagged DEF Overflow
  <2>2. SbufInv'
    BY <1>0, <1>2, <2>1 DEF SbufInv, Overflow
  <2>3. QED
    BY <2>1, <2>2 DEF TextStep, Buffer!Next, Buffer!Refuse
<1>3. QED
  BY <1>1, <1>2 DEF PutNul

\* One try of sbuf_vprintf writes within the block, its NUL included.
LEMMA Tries ==
    ASSUME SbufInv, PrintfTry
    PROVE  SbufInv' /\ TextStep
<1> USE PiecesAssumption
<1>0. /\ pc = "try" /\ Sane(s) /\ live' = live /\ live = Own(s) /\ wild = FALSE
      /\ arg \in Pieces /\ OVERFLOWED \notin s.flags
  BY DEF SbufInv, PrintfTry
<1>1. /\ s.text \in Seq(Chars) /\ Len(s.text) \in Nat /\ arg \in Seq(Chars) /\ Len(arg) \in Nat
      /\ s.size \in Nat /\ Len(s.text) < s.size
  BY <1>0 DEF Sane
<1>2. CASE Len(arg) <= sbuf_capacity(s)
  <2>1. s' = Appended(s, arg) /\ pc' = "idle" /\ Write(s, Len(arg) + 1)
    BY <1>2 DEF PrintfTry
  <2>2. ~(Len(s.text) + (Len(arg) + 1) > s.size)
    <3>1. ASSUME NEW t \in Nat, NEW a \in Nat, NEW c \in Nat, a <= c - t - 1
          PROVE  ~(t + (a + 1) > c)
      BY <3>1
    <3>2. QED
      BY <1>1, <1>2, <3>1 DEF sbuf_capacity
  <2>3. wild' = FALSE
    BY <1>0, <2>1, <2>2, Zenon DEF Write
  <2>4. s.text \o arg \in Seq(Chars) /\ Len(s.text \o arg) = Len(s.text) + Len(arg)
    BY <1>1
  <2>5. /\ s'.text = s.text \o arg /\ s'.size = s.size /\ s'.flags = s.flags
        /\ s'.buf = s.buf /\ s'.self = s.self
    BY <1>0, <2>1 DEF Appended, Sane
  <2>6. s' \in [buf : Nat, size : Nat, text : Seq(Chars), flags : SUBSET Flags, self : Nat]
    BY <1>0, <2>1, <2>4 DEF Appended, Sane
  <2>7. Sane(s')
    BY <1>0, <1>1, <2>2, <2>4, <2>5, <2>6 DEF Sane
  <2>8. SbufInv'
    BY <1>0, <2>1, <2>3, <2>5, <2>7 DEF SbufInv, Own
  <2>9. QED
    BY <1>0, <2>5, <2>8 DEF TextStep, Buffer!Next, Buffer!Append_
<1>3. CASE ~(Len(arg) <= sbuf_capacity(s))
  <2>1. s' = s /\ arg' = arg /\ pc' = "grow" /\ Write(s, sbuf_capacity(s) + 1)
    BY <1>3 DEF PrintfTry
  <2>2. ~(Len(s.text) + (sbuf_capacity(s) + 1) > s.size)
    BY <1>1 DEF sbuf_capacity
  <2>3. wild' = FALSE
    BY <1>0, <2>1, <2>2, Zenon DEF Write
  <2>4. QED
    BY <1>0, <2>1, <2>3 DEF SbufInv, TextStep
<1>4. QED
  BY <1>2, <1>3

\* After a try that did not fit, sbuf_vprintf grows the buffer or gives up.
LEMMA PrintfGrows ==
    ASSUME SbufInv, PrintfGrow
    PROVE  SbufInv' /\ TextStep
<1> USE PiecesAssumption
<1>0. /\ pc = "grow" /\ Sane(s) /\ live = Own(s) /\ wild = FALSE
      /\ arg \in Pieces /\ OVERFLOWED \notin s.flags /\ Len(arg) \in Nat
  BY DEF SbufInv, PrintfGrow
<1>1. CASE \E g \in sbuf_ensure_capacity(s, Len(arg)) :
             s' = g.s /\ live' = g.live /\ pc' = "try" /\ UNCHANGED <<arg, wild>>
  <2>1. PICK g \in sbuf_ensure_capacity(s, Len(arg)) :
             s' = g.s /\ live' = g.live /\ pc' = "try" /\ UNCHANGED <<arg, wild>>
    BY <1>1
  <2>2. /\ Sane(g.s) /\ g.live = Own(g.s) /\ g.s.text = s.text
        /\ OVERFLOWED \in g.s.flags <=> OVERFLOWED \in s.flags
    BY <1>0, Grows
  <2>3. SbufInv'
    BY <1>0, <2>1, <2>2 DEF SbufInv
  <2>4. QED
    BY <2>1, <2>2, <2>3 DEF TextStep
<1>2. CASE Overflow(s) /\ pc' = "idle" /\ arg' = <<>>
  <2>1. Sane(s') /\ Own(s') = Own(s) /\ s'.text = s.text /\ OVERFLOWED \in s'.flags
    BY <1>0, <1>2, Flagged DEF Overflow
  <2>2. SbufInv'
    BY <1>0, <1>2, <2>1 DEF SbufInv, Overflow
  <2>3. QED
    BY <2>1, <2>2 DEF TextStep, Buffer!Next, Buffer!Refuse
<1>3. QED
  BY <1>1, <1>2 DEF PrintfGrow

\* There is no buffer.
LEMMA SbufInit == Init => SbufInv /\ Buffer!Init
BY DEF Init, SbufInv, NoSbuf, Own, Buffer!Init

\* Every operation preserves the invariant and is a step of the text buffer.
LEMMA SbufStep ==
    ASSUME SbufInv, [Next]_vars
    PROVE  SbufInv' /\ TextStep
<1>1. CASE UNCHANGED vars
  BY <1>1 DEF vars, SbufInv, Sane, Own, TextStep
<1>2. CASE sbuf_new
  <2>1. SbufInv' /\ s'.text = <<>> /\ OVERFLOWED \notin s'.flags
    BY <1>2, News
  <2>2. s.text = <<>> /\ OVERFLOWED \notin s.flags
    BY <1>2 DEF SbufInv, sbuf_new, NoSbuf
  <2>3. QED
    BY <2>1, <2>2 DEF TextStep
<1>3. CASE sbuf_delete
  <2>1. pc' = "none" /\ s' = NoSbuf /\ live' = {} /\ live = Own(s)
    BY <1>3 DEF SbufInv, sbuf_delete
  <2>2. wild' = FALSE
    BY <1>3, <2>1, Zenon DEF SbufInv, sbuf_delete
  <2>3. s'.text = <<>> /\ OVERFLOWED \notin s'.flags /\ SbufInv'
    BY <2>1, <2>2 DEF SbufInv, NoSbuf, Own
  <2>4. QED
    BY <2>3 DEF TextStep, Buffer!Next, Buffer!Clear
<1>4. CASE sbuf_clear \/ sbuf_setpos \/ sbuf_trim \/ sbuf_finish
  BY <1>4, Edits
<1>5. ASSUME NEW p \in Pieces, sbuf_printf(p) PROVE SbufInv' /\ TextStep
  BY <1>5 DEF SbufInv, Sane, Own, TextStep, sbuf_printf, Refused
<1>6. CASE PrintfError
  BY <1>6 DEF SbufInv, TextStep, PrintfError
<1>7. QED
  BY <1>1, <1>2, <1>3, <1>4, <1>5, <1>6, Cats, Cpys, PutNuls, Tries, PrintfGrows
  DEF Next, Client, Printf

\* No operation writes outside the buffer's block, and the heap has exactly
\* the blocks of the buffer (sbuf_extend, sbuf_delete).
THEOREM BuffersOwnTheirMemory == Spec => []MemoryIsOwned
<1>1. SbufInv => MemoryIsOwned
  BY DEF SbufInv, MemoryIsOwned
<1>2. QED
  BY <1>1, SbufInit, SbufStep, PTL DEF Spec

\* However its memory moves, the buffer is a text to which pieces are appended
\* whole and in order (sbuf_bcat, sbuf_vprintf).
THEOREM BuffersAreTexts == Spec => ImplementsText
<1>1. TextStep => [Buffer!Next]_(Buffer!vars)
  BY DEF TextStep, Buffer!vars
<1>2. QED
  BY <1>1, SbufInit, SbufStep, PTL DEF Spec, ImplementsText, Buffer!Spec

=============================================================================
