------------------------------- MODULE Stream -------------------------------
(***************************************************************************)
(* What ParseZone promises its caller about the channel it returns        *)
(* (src/zscan.go, the comment of ParseZone): it "returns each parsed RR   *)
(* or on error on the returned channel" and "the channel t is closed ...  *)
(* when the end of r is reached".  The stream is a sequence of items that *)
(* only grows, nothing is sent once it is closed, and it is eventually    *)
(* closed.                                                                 *)
(***************************************************************************)
EXTENDS Naturals, Sequences

CONSTANT Items      \* the values a Token can carry

VARIABLES items,    \* the Tokens received from the channel so far
          closed    \* the channel has been closed

vars == <<items, closed>>

Init == items = <<>> /\ closed = FALSE

\* One Token is sent and received.
Emit ==
  /\ ~closed
  /\ Len(items') = Len(items) + 1
  /\ SubSeq(items', 1, Len(items)) = items
  /\ items'[Len(items')] \in Items
  /\ UNCHANGED closed

\* The channel is closed, once.
Close == ~closed /\ closed' = TRUE /\ UNCHANGED items

Next == Emit \/ Close

Spec == Init /\ [][Next]_vars /\ WF_vars(Close)
=============================================================================
