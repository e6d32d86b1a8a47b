-------------------------------- MODULE Msg --------------------------------
(***************************************************************************)
(* The message helpers of src/dns.go (lines 797-996): the Set* methods     *)
(* that shape a *Msg in place, and the Is* predicates that classify one.  *)
(* A program builds a message by calling setters on it, possibly several  *)
(* on the same message, so the model is one message and any sequence of   *)
(* setter calls, up to MaxCalls.                                           *)
(*                                                                         *)
(* Data abstraction: names, ids and request messages are members of small *)
(* constant sets; an RR of the Ns and Extra sections is its type only.    *)
(* The Msg type and its constants are defined outside src/; a new(Msg) is *)
(* the Go zero value: opcode 0 (QUERY), rcode 0 (NOERROR), all flags      *)
(* false and empty sections.                                               *)
(***************************************************************************)
EXTENDS Naturals, Sequences

CONSTANTS
  Zones,      \* the names z passed to the setters
  Ids,        \* the values Id() may return
  Rcodes,     \* the rcodes passed to SetRcode (0 is NOERROR, 1 FORMERR)
  Requests,   \* request messages: records [id, question], each with a question
  MaxCalls    \* bound: setter calls on the message

\* The opcode, rcode, type and class values the code uses.
OpcodeQuery == 0
OpcodeNotify == 4
OpcodeUpdate == 5
RcodeSuccess == 0
RcodeFormatError == 1

VARIABLES hdr, question, ns, extra, last, calls
vars == <<hdr, question, ns, extra, last, calls>>

\* A Question{Name, Qtype, Qclass}.
Q(z, t) == [name |-> z, qtype |-> t, qclass |-> "IN"]

Init ==
  /\ hdr = [id |-> 0, response |-> FALSE, authoritative |-> FALSE,
            opcode |-> OpcodeQuery, rcode |-> RcodeSuccess, recursionDesired |-> FALSE]
  /\ question = <<>> /\ ns = <<>> /\ extra = <<>>
  /\ last = "none" /\ calls = 0

\* Every setter call is counted and remembered (last is a ghost for the property).
Call(name) == calls < MaxCalls /\ last' = name /\ calls' = calls + 1

\* request.Question[0] is read unchecked (a request without one panics).
SetReply ==
  /\ Call("SetReply")
  /\ \E r \in Requests :
       /\ hdr' = [hdr EXCEPT !.id = r.id, !.authoritative = TRUE, !.response = TRUE,
                             !.opcode = OpcodeQuery, !.rcode = RcodeSuccess]
       /\ question' = <<r.question[1]>>
  /\ UNCHANGED <<ns, extra>>

SetQuestion ==
  /\ Call("SetQuestion")
  /\ \E z \in Zones, t \in {"A", "SOA"}, i \in Ids :
       /\ hdr' = [hdr EXCEPT !.id = i, !.recursionDesired = TRUE]
       /\ question' = <<Q(z, t)>>
  /\ UNCHANGED <<ns, extra>>

SetNotify ==
  /\ Call("SetNotify")
  /\ \E z \in Zones, i \in Ids :
       /\ hdr' = [hdr EXCEPT !.opcode = OpcodeNotify, !.authoritative = TRUE, !.id = i]
       /\ question' = <<Q(z, "SOA")>>
  /\ UNCHANGED <<ns, extra>>

SetRcode ==
  /\ Call("SetRcode")
  /\ \E r \in Requests, rc \in Rcodes :
       /\ hdr' = [hdr EXCEPT !.rcode = rc, !.opcode = OpcodeQuery, !.response = TRUE,
                             !.authoritative = FALSE, !.id = r.id]
       /\ question' = <<r.question[1]>>
  /\ UNCHANGED <<ns, extra>>

\* Unlike SetRcode it leaves the question section as it was.
SetRcodeFormatError ==
  /\ Call("SetRcodeFormatError")
  /\ \E r \in Requests :
       hdr' = [hdr EXCEPT !.rcode = RcodeFormatError, !.opcode = OpcodeQuery,
                          !.response = TRUE, !.authoritative = FALSE, !.id = r.id]
  /\ UNCHANGED <<question, ns, extra>>

SetUpdate ==
  /\ Call("SetUpdate")
  /\ \E z \in Zones, i \in Ids :
       /\ hdr' = [hdr EXCEPT !.id = i, !.opcode = OpcodeUpdate]
       /\ question' = <<Q(z, "SOA")>>
  /\ UNCHANGED <<ns, extra>>

\* The opcode is left as it was.
SetIxfr ==
  /\ Call("SetIxfr")
  /\ \E z \in Zones, i \in Ids :
       /\ hdr' = [hdr EXCEPT !.id = i]
       /\ question' = <<Q(z, "IXFR")>>
       /\ ns' = <<"SOA">>
  /\ UNCHANGED extra

SetAxfr ==
  /\ Call("SetAxfr")
  /\ \E z \in Zones, i \in Ids :
       /\ hdr' = [hdr EXCEPT !.id = i]
       /\ question' = <<Q(z, "AXFR")>>
  /\ UNCHANGED <<ns, extra>>

\* A TSIG RR is appended to Extra (its fields are not modelled).
SetTsig ==
  /\ Call("SetTsig")
  /\ extra' = Append(extra, "TSIG")
  /\ UNCHANGED <<hdr, question, ns>>

\* An OPT RR is appended to Extra.
SetEdns0 ==
  /\ Call("SetEdns0")
  /\ extra' = Append(extra, "OPT")
  /\ UNCHANGED <<hdr, question, ns>>

Next ==
  \/ SetReply \/ SetQuestion \/ SetNotify \/ SetRcode \/ SetRcodeFormatError
  \/ SetUpdate \/ SetIxfr \/ SetAxfr \/ SetTsig \/ SetEdns0

Spec == Init /\ [][Next]_vars
-----------------------------------------------------------------------------
(* The predicates; each one is false on a message without a question. *)
HasQuestion == Len(question) > 0

IsRcode(rc) == HasQuestion /\ hdr.rcode = rc
IsQuestion == HasQuestion /\ ~hdr.response
IsRcodeFormatError == HasQuestion /\ hdr.rcode = RcodeFormatError
IsUpdate == HasQuestion /\ hdr.opcode = OpcodeUpdate /\ question[1].qtype = "SOA"
IsNotify ==
  HasQuestion /\ hdr.opcode = OpcodeNotify
  /\ question[1].qclass = "IN" /\ question[1].qtype = "SOA"
IsAxfr ==
  HasQuestion /\ hdr.opcode = OpcodeQuery
  /\ question[1].qclass = "IN" /\ question[1].qtype = "AXFR"
IsIxfr ==
  HasQuestion /\ hdr.opcode = OpcodeQuery
  /\ question[1].qclass = "IN" /\ question[1].qtype = "IXFR"
IsTsig == Len(extra) > 0 /\ extra[Len(extra)] = "TSIG"
IsEdns0 == \E i \in DOMAIN extra : extra[i] = "OPT"
-----------------------------------------------------------------------------
(***************************************************************************)
(* Each setter makes the message what its comment says it creates, and    *)
(* the matching Is* predicate recognises it, whatever was set before:     *)
(* SetRcodeFormatError "creates a packet with FormError set", SetAxfr and *)
(* SetIxfr "dns msg suitable for requesting" a transfer, SetTsig and      *)
(* SetEdns0 append their RR.  SetRcodeFormatError copies no question, so  *)
(* IsRcodeFormatError is false on a new message, and SetAxfr and SetIxfr  *)
(* keep the opcode of an earlier SetNotify or SetUpdate.                  *)
(***************************************************************************)
SetterMakesPredicate ==
  /\ last = "SetRcodeFormatError" => IsRcodeFormatError
  /\ last = "SetNotify" => IsNotify
  /\ last = "SetUpdate" => IsUpdate
  /\ last = "SetAxfr" => IsAxfr
  /\ last = "SetIxfr" => IsIxfr
  /\ last = "SetQuestion" => IsQuestion
  /\ last = "SetTsig" => IsTsig
  /\ last = "SetEdns0" => IsEdns0
=============================================================================
