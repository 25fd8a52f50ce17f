----------------------------- MODULE TextBuffer -----------------------------
(***************************************************************************)
(* What a string buffer promises to the read functions that print into it: *)
(* a text to which whole pieces are appended in order.  Once a piece did   *)
(* not fit, every later one is refused as well, until the text is cleared  *)
(* or finished: the text never has a hole or half a piece.                 *)
(***************************************************************************)
EXTENDS Integers, Sequences

CONSTANT Pieces     \* the texts that are appended, a set of sequences

VARIABLES text, failed

vars == <<text, failed>>

Init == text = <<>> /\ failed = FALSE

Append_(p) == ~failed /\ text' = text \o p /\ UNCHANGED failed

Refuse == failed' = TRUE /\ UNCHANGED text

\* A shorter text, a prefix of the present one.
Cut(n) == text' = SubSeq(text, 1, n) /\ UNCHANGED failed

Clear == text' = <<>> /\ failed' = FALSE

\* The piece replaces the text.
Replace(p) == text' = p /\ failed' = FALSE

\* Clearing, then refusing the piece.
ReplaceFails == text' = <<>> /\ failed' = TRUE

Finish == failed' = FALSE /\ UNCHANGED text

Next ==
    \/ \E p \in Pieces : Append_(p) \/ Replace(p)
    \/ \E n \in 0..Len(text) : Cut(n)
    \/ Refuse \/ ReplaceFails \/ Clear \/ Finish

Spec == Init /\ [][Next]_vars

=============================================================================
