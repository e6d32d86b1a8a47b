------------------------------- MODULE MCMsg -------------------------------
(* One message, two zones, two ids, and requests that carry a question. *)
EXTENDS Msg

MCZones == {"z1.", "z2."}
MCRequests == {[id |-> 7, question |-> <<Q("z1.", "A")>>]}
=============================================================================
