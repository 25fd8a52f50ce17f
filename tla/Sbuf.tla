-------------------------------- MODULE Sbuf --------------------------------
(***************************************************************************)
(* The string buffer of kext/lib/sbuf.c, in which the read functions put   *)
(* their texts together: memory of the caller or of the kernel's heap,     *)
(* which grows on demand, with room for a terminating NUL.                 *)
(*                                                                         *)
(* A client calls the operations in any order; sbuf_vprintf is several     *)
(* steps, because it tries, grows and tries again.  Sizes are scaled down  *)
(* by the constants.  The bytes of a block are modelled up to s_len: the   *)
(* ones behind are written but never read, as sbuf_setpos only shortens.   *)
(***************************************************************************)
EXTENDS Integers, Sequences

CONSTANTS
    Chars,          \* characters
    Pieces,         \* the texts that are appended
    Lengths,        \* the lengths that sbuf_new is called with
    MINEXTENDSIZE,  \* SBUF_MINEXTENDSIZE
    PAGE_SIZE,
    INT_MAX,        \* bound: the largest size
    Blocks,         \* addresses of heap blocks
    Blank           \* white space

\* Addresses that are not of the heap.
NULL  == 0
STACK == 1
ARRAY == 2

ASSUME SizesAssumption ==
    /\ MINEXTENDSIZE \in Nat \ {0} /\ PAGE_SIZE \in Nat \ {0} /\ INT_MAX \in Nat
    /\ Lengths \subseteq 1..INT_MAX
    /\ Blocks \subseteq Nat \ {NULL, STACK, ARRAY}

ASSUME PiecesAssumption == Pieces \subseteq Seq(Chars)

AUTOEXTEND == "autoextend"
DYNAMIC    == "dynamic"
DYNSTRUCT  == "dynstruct"
OVERFLOWED == "overflowed"
FINISHED   == "finished"

VARIABLES
    s,      \* struct sbuf: s_buf, s_size, s_flags, its text and its address
    live,   \* blocks of the heap that are allocated
    arg,    \* what sbuf_vprintf prints
    pc,     \* "none" (no buffer), "idle", "try" or "grow"
    wild    \* BOOLEAN: a write outside the block, or a block freed twice

vars == <<s, live, arg, pc, wild>>

NoSbuf == [buf |-> NULL, size |-> 0, text |-> <<>>, flags |-> {}, self |-> STACK]

Init == s = NoSbuf /\ live = {} /\ arg = <<>> /\ pc = "none" /\ wild = FALSE

\* The block that the heap hands out next, of those not in X.  Addresses are
\* only compared for equality: any free one does.
Fresh(X) == {b \in Blocks \ X : \A c \in Blocks \ X : b <= c}

-----------------------------------------------------------------------------
(* Sizes                                                                   *)

IsDoubling(n) == \E k \in 0..INT_MAX : n = MINEXTENDSIZE * 2^k

\* Mutant of sbuf_extendsize: pages are rounded down.
MutExtendsize(target) ==
    {n \in 1..INT_MAX :
        IF target < PAGE_SIZE
        THEN n >= target /\ IsDoubling(n) /\ (n = MINEXTENDSIZE \/ n < 2 * target)
        ELSE n <= target /\ n % PAGE_SIZE = 0 /\ n + PAGE_SIZE > target}

\* The size that sbuf_extendsize makes of a target, none if it is too large:
\* doubling from the smallest one, or whole pages.
sbuf_extendsize(target) ==
    {n \in 1..INT_MAX :
        /\ n >= target
        /\ IF target < PAGE_SIZE
           THEN IsDoubling(n) /\ (n = MINEXTENDSIZE \/ n < 2 * target)
           ELSE n % PAGE_SIZE = 0 /\ n < target + PAGE_SIZE}

\* One byte is reserved for the NUL.
sbuf_capacity(sb) == sb.size - Len(sb.text) - 1

\* Mutant of OldBlock: the block that is left is never freed.
MutOldBlock(sb) == {}

\* The block that growing frees, unless it is the array of the caller.
OldBlock(sb) == IF DYNAMIC \in sb.flags THEN {sb.buf} ELSE {}

\* The buffer after its s_size bytes were copied to block b of n bytes.
Moved(sb, b, n) ==
    [s |-> [sb EXCEPT !.buf = b, !.size = n, !.flags = @ \cup {DYNAMIC}],
     live |-> (live \cup {b}) \ OldBlock(sb)]

\* The ways sbuf_extend succeeds: only a buffer that may grow does.
sbuf_extend(sb, addlen) ==
    {Moved(sb, g[1], g[2]) : g \in
        Fresh(live) \X IF AUTOEXTEND \in sb.flags THEN sbuf_extendsize(sb.size + addlen) ELSE {}}

sbuf_ensure_capacity(sb, wanted) ==
    IF sbuf_capacity(sb) >= wanted THEN {[s |-> sb, live |-> live]}
    ELSE sbuf_extend(sb, wanted - sbuf_capacity(sb))

-----------------------------------------------------------------------------
(* A buffer comes and goes                                                 *)

\* The structure of the caller, or one of the heap.
Selves == {STACK} \cup Fresh(live)

\* Flags and blocks of a structure at x.
SelfFlag(x)  == IF x = STACK THEN {} ELSE {DYNSTRUCT}
SelfBlock(x) == IF x = STACK THEN {} ELSE {x}

\* sbuf_new with memory of the caller
NewArray(n, f, x) ==
    /\ s' = [buf |-> ARRAY, size |-> n, text |-> <<>>, flags |-> f \cup SelfFlag(x), self |-> x]
    /\ live' = live \cup SelfBlock(x)

\* sbuf_new with memory of its own
NewDynamic(n, f, x) ==
    \E size \in IF f = {} THEN {n} ELSE sbuf_extendsize(n), b \in Fresh(live \cup {x}) :
        /\ s' = [buf |-> b, size |-> size, text |-> <<>>,
                 flags |-> f \cup SelfFlag(x) \cup {DYNAMIC}, self |-> x]
        /\ live' = live \cup SelfBlock(x) \cup {b}

\* A failure deletes the structure again and leaves nothing.
sbuf_new ==
    /\ pc = "none" /\ pc' = "idle"
    /\ \E n \in Lengths, f \in SUBSET {AUTOEXTEND}, x \in Selves :
          NewArray(n, f, x) \/ NewDynamic(n, f, x)
    /\ UNCHANGED <<arg, wild>>

\* Blocks of the buffer: its memory and its structure.
Own(sb) ==
    (IF DYNAMIC \in sb.flags THEN {sb.buf} ELSE {}) \cup
    (IF DYNSTRUCT \in sb.flags THEN {sb.self} ELSE {})

sbuf_delete ==
    /\ pc = "idle" /\ pc' = "none"
    /\ wild' = (wild \/ ~(Own(s) \subseteq live))
    /\ live' = live \ Own(s)
    /\ s' = NoSbuf
    /\ UNCHANGED arg

-----------------------------------------------------------------------------
(* Text                                                                    *)

\* n bytes are written behind the text of sb.
Write(sb, n) == wild' = (wild \/ Len(sb.text) + n > sb.size)

Appended(sb, p) == [sb EXCEPT !.text = @ \o p]

WithFlags(sb, on, off) == [sb EXCEPT !.flags = (@ \ off) \cup on]

Overflow(sb) == s' = WithFlags(sb, {OVERFLOWED}, {}) /\ UNCHANGED <<live, wild>>

\* Mutant of Refused: a piece is refused only if it does not fit itself.
MutRefused(sb) == FALSE

\* A piece was refused, and so are all later ones.
Refused(sb) == OVERFLOWED \in sb.flags

sbuf_bcat(sb, p) ==
    \/ Refused(sb) /\ s' = sb /\ UNCHANGED <<live, wild>>
    \/ /\ ~Refused(sb)
       /\ \E g \in sbuf_ensure_capacity(sb, Len(p)) :
             s' = Appended(g.s, p) /\ live' = g.live /\ Write(g.s, Len(p))
    \/ ~Refused(sb) /\ sbuf_capacity(sb) < Len(p) /\ Overflow(sb)

\* sbuf_bcat and sbuf_cat; sbuf_putc of a character
Cat(p) == pc = "idle" /\ sbuf_bcat(s, p) /\ UNCHANGED <<arg, pc>>

Cleared == [s EXCEPT !.text = <<>>, !.flags = @ \ {FINISHED, OVERFLOWED}]

\* sbuf_bcpy and sbuf_cpy
Cpy(p) == pc = "idle" /\ sbuf_bcat(Cleared, p) /\ UNCHANGED <<arg, pc>>

sbuf_clear == pc = "idle" /\ s' = Cleared /\ UNCHANGED <<live, arg, pc, wild>>

sbuf_setpos ==
    /\ pc = "idle"
    /\ \E pos \in 0..Len(s.text) : s' = [s EXCEPT !.text = SubSeq(@, 1, pos)]
    /\ UNCHANGED <<live, arg, pc, wild>>

\* sbuf_putc of a NUL: it needs room like any character, but is not appended.
PutNul ==
    /\ pc = "idle" /\ ~Refused(s)
    /\ \/ \E g \in sbuf_ensure_capacity(s, 1) : s' = g.s /\ live' = g.live /\ UNCHANGED wild
       \/ sbuf_capacity(s) < 1 /\ Overflow(s)
    /\ UNCHANGED <<arg, pc>>

sbuf_trim ==
    /\ pc = "idle" /\ ~Refused(s)
    /\ \E n \in 0..Len(s.text) :
          /\ \A i \in n + 1..Len(s.text) : s.text[i] = Blank
          /\ n > 0 => s.text[n] # Blank
          /\ s' = [s EXCEPT !.text = SubSeq(@, 1, n)]
    /\ UNCHANGED <<live, arg, pc, wild>>

sbuf_finish ==
    /\ pc = "idle"
    /\ Write(s, 1)
    /\ s' = WithFlags(s, {FINISHED}, {OVERFLOWED})
    /\ UNCHANGED <<live, arg, pc>>

-----------------------------------------------------------------------------
(* sbuf_vprintf                                                            *)

sbuf_printf(p) ==
    /\ pc = "idle" /\ ~Refused(s)
    /\ arg' = p /\ pc' = "try"
    /\ UNCHANGED <<s, live, wild>>

\* vsnprintf writes what fits, and a NUL, and says how long the piece is.
PrintfTry ==
    /\ pc = "try"
    /\ IF Len(arg) <= sbuf_capacity(s)
       THEN /\ Write(s, Len(arg) + 1)
            /\ s' = Appended(s, arg) /\ pc' = "idle" /\ arg' = <<>>
       ELSE /\ Write(s, sbuf_capacity(s) + 1)
            /\ pc' = "grow" /\ UNCHANGED <<s, arg>>
    /\ UNCHANGED live

\* vsnprintf fails: the piece is dropped, and the buffer is not marked.
PrintfError ==
    /\ pc = "try"
    /\ pc' = "idle" /\ arg' = <<>>
    /\ UNCHANGED <<s, live, wild>>

\* The buffer grows and the piece is tried again, or is refused.
PrintfGrow ==
    /\ pc = "grow"
    /\ \/ \E g \in sbuf_ensure_capacity(s, Len(arg)) :
             s' = g.s /\ live' = g.live /\ pc' = "try" /\ UNCHANGED <<arg, wild>>
       \/ Overflow(s) /\ pc' = "idle" /\ arg' = <<>>

-----------------------------------------------------------------------------
Client ==
    \/ sbuf_new \/ sbuf_delete \/ sbuf_clear \/ sbuf_setpos \/ PutNul \/ sbuf_trim \/ sbuf_finish
    \/ \E p \in Pieces : Cat(p) \/ Cpy(p) \/ sbuf_printf(p)

Printf == PrintfTry \/ PrintfError \/ PrintfGrow

Next == Client \/ Printf

Spec == Init /\ [][Next]_vars /\ WF_vars(Printf)

-----------------------------------------------------------------------------
(* Properties                                                              *)

\* No operation writes outside the block that the buffer has at the time, the
\* NUL of sbuf_finish and of vsnprintf included; and the heap has exactly the
\* blocks of the buffer that exists: growing frees the block it leaves unless
\* it is the caller's array, and sbuf_delete leaves nothing, also of a buffer
\* that grew out of an array.
MemoryIsOwned == ~wild /\ live = Own(s)

Buffer == INSTANCE TextBuffer WITH text <- s.text, failed <- OVERFLOWED \in s.flags

\* The buffer is the text buffer that its users count on: pieces are appended
\* whole and in order however often the memory is moved, and none is appended
\* after one that was refused for want of room (one that vsnprintf failed to
\* format is left out).
ImplementsText == Buffer!Spec

\* sbuf_vprintf returns: what growing makes room for fits at the next try.
PrintfReturns == pc \in {"try", "grow"} ~> pc = "idle"

=============================================================================
