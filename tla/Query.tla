------------------------------- MODULE Query -------------------------------
(***************************************************************************)
(* The q command-line client (src/examples/q/q.go): main classifies its   *)
(* arguments into a nameserver, a type, a class and query names, fills in *)
(* the defaults, then sends one query per name through the asynchronous  *)
(* client (c.Do) with a single *dns.Msg m that it rewrites for each name, *)
(* and counts the replies that arrive on DefaultReplyChan until it has one *)
(* per name.  Each c.Do runs the handler q in a goroutine of its own: it   *)
(* packs and sends m (w.Send), waits for the answer or an error           *)
(* (w.Receive) and writes the exchange to the reply channel (w.Write).    *)
(*                                                                         *)
(* m is shared by main and every handler without a lock.  A handler reads *)
(* it when it runs, which may be after main has moved on to the next name: *)
(* the data race is a choice of when the handler's Send step happens.     *)
(* The flags (-dnssec, -check, -short, ...) change only what is printed    *)
(* or what m carries besides its Id and question, so they are left out.  *)
(***************************************************************************)
EXTENDS Naturals, Sequences, DomainName

CONSTANTS
  ArgVectors,   \* the argument vectors flag.Args() may return
  MaxArgs,      \* bound: the length of an argument vector
  StrRR,        \* dns.Str_rr: upper-case type mnemonic -> type code
  StrClass,     \* dns.Str_class: upper-case class mnemonic -> class code
  Ids,          \* the values dns.Id() may return, and that a reply may carry
  Server        \* conf.Servers[0], the first resolver of /etc/resolv.conf

ClassINET == 1
TypeA     == 1
TypeNS    == 2
Port      == "53"

Req == 1..MaxArgs                         \* the query numbers, one per name
Question == [name : STRING, qtype : Nat, qclass : Nat]
Packet == [id : Ids \cup {0}, question : Question]
\* A reply, or NoReply: the nil Msg w.Write passes on when w.Receive failed.
Replies == [id : Ids, rcode : {"success", "failure"}]
NoReply == [id |-> 0, rcode |-> "none"]

VARIABLES
  args,        \* flag.Args()
  argi,        \* the Flags loop index
  pc,          \* where main is
  qtype, qclass, qname, nameserver,
  m,           \* the shared message: its Id and Question[0]
  j,           \* the range loop over qname
  hstate,      \* per query: the handler's progress
  wire,        \* per query: the packet the handler's w.Send packed
  reply,       \* per query: what w.Receive returned
  i,           \* the replies main has counted
  mismatch     \* the queries for which main printed "Id mismatch"

vars == <<args, argi, pc, qtype, qclass, qname, nameserver, m, j, hstate,
          wire, reply, i, mismatch>>

ZeroQuestion == [name |-> "", qtype |-> 0, qclass |-> 0]

UpperOf == "ABCDEFGHIJKLMNOPQRSTUVWXYZ"
LowerOf == "abcdefghijklmnopqrstuvwxyz"

\* strings.ToUpper on ASCII: each lower-case letter becomes its capital.
RECURSIVE ToUpper(_)
ToUpper(s) ==
  IF Len(s) = 0 THEN ""
  ELSE LET c == Char(s, 1)
           u == IF InChars(c, LowerOf)
                THEN Char(UpperOf, CHOOSE k \in 1..26 : Char(LowerOf, k) = c)
                ELSE c
       IN u \o ToUpper(SubSeq(s, 2, Len(s)))

HasPrefix(s, p) == Len(p) <= Len(s) /\ SubSeq(s, 1, Len(p)) = p

\* main up to flag.Parse: the defaults of lines 42-45 and a new, empty m.
Init ==
  /\ args \in ArgVectors
  /\ argi = 1
  /\ pc = "flags"
  /\ qtype = 0 /\ qclass = ClassINET /\ qname = <<>>
  /\ nameserver = "@" \o Server
  /\ m = [id |-> 0, question |-> ZeroQuestion]
  /\ j = 1
  /\ hstate = [k \in Req |-> "idle"]
  /\ wire = [k \in Req |-> [id |-> 0, question |-> ZeroQuestion]]
  /\ reply = [k \in Req |-> NoReply]
  /\ i = 0
  /\ mismatch = {}
-----------------------------------------------------------------------------
(***************************************************************************)
(* One turn of the Flags loop on the argument a, as the tests come in the *)
(* code, each ending the turn with continue: an empty argument makes      *)
(* flag.Arg(i)[0] panic; '@' names the server; a type mnemonic (checked   *)
(* first, so "ANY" is a type) or a class mnemonic, upper-cased; TYPEnnn   *)
(* with a number; anything else is a query name.                          *)
(***************************************************************************)
ArgKind(a) ==
  IF Len(a) = 0 THEN "panic"
  ELSE IF Char(a, 1) = "@" THEN "server"
  ELSE IF ToUpper(a) \in DOMAIN StrRR THEN "type"
  ELSE IF ToUpper(a) \in DOMAIN StrClass THEN "class"
  ELSE IF HasPrefix(a, "TYPE") /\ IsAtoi(SubSeq(a, 5, Len(a))) THEN "typennn"
  ELSE "name"

\* The turn's effect; TYPEnnn keeps uint16(Atoi(nnn)).
Classify(a) ==
  CASE ArgKind(a) = "panic" ->
         pc' = "panicked" /\ UNCHANGED <<qtype, qclass, qname, nameserver>>
    [] ArgKind(a) = "server" ->
         nameserver' = a /\ UNCHANGED <<pc, qtype, qclass, qname>>
    [] ArgKind(a) = "type" ->
         qtype' = StrRR[ToUpper(a)] /\ UNCHANGED <<pc, qclass, qname, nameserver>>
    [] ArgKind(a) = "class" ->
         qclass' = StrClass[ToUpper(a)] /\ UNCHANGED <<pc, qtype, qname, nameserver>>
    [] ArgKind(a) = "typennn" ->
         /\ qtype' = Atoi(SubSeq(a, 5, Len(a))) % 65536
         /\ UNCHANGED <<pc, qclass, qname, nameserver>>
    [] ArgKind(a) = "name" ->
         qname' = Append(qname, a) /\ UNCHANGED <<pc, qtype, qclass, nameserver>>

Flag ==
  /\ pc = "flags" /\ argi <= Len(args)
  /\ Classify(args[argi])
  /\ argi' = argi + 1
  /\ UNCHANGED <<args, m, j, hstate, wire, reply, i, mismatch>>

(***************************************************************************)
(* After the loop: no name means the root's NS records; type 0 becomes A; *)
(* the nameserver loses its '@' and gains the port.  m is made with one   *)
(* question (the EDNS0 record of -dnssec or -nsid is not modelled).       *)
(***************************************************************************)
Defaults ==
  /\ pc = "flags" /\ argi > Len(args)
  /\ qname' = IF qname = <<>> THEN <<".">> ELSE qname
  /\ qtype' = IF qname = <<>> THEN TypeNS
              ELSE IF qtype = 0 THEN TypeA
              ELSE qtype
  /\ nameserver' = SubSeq(nameserver, 2, Len(nameserver)) \o ":" \o Port
  /\ pc' = "question"
  /\ UNCHANGED <<args, argi, qclass, m, j, hstate, wire, reply, i, mismatch>>

\* The range loop, first half: m.Question[0] = Question{v, qtype, qclass}.
SetQuestion ==
  /\ pc = "question"
  /\ m' = [m EXCEPT !.question = [name |-> qname[j], qtype |-> qtype, qclass |-> qclass]]
  /\ pc' = "id"
  /\ UNCHANGED <<args, argi, qtype, qclass, qname, nameserver, j, hstate, wire, reply, i, mismatch>>

\* Mutant: the reply loop starts counting at 1.
SetIdAndDoFromOne ==
  /\ pc = "id"
  /\ \E id \in Ids : m' = [m EXCEPT !.id = id]
  /\ hstate' = [hstate EXCEPT ![j] = "queued"]
  /\ IF j < Len(qname)
     THEN j' = j + 1 /\ pc' = "question" /\ UNCHANGED i
     ELSE pc' = "recv" /\ i' = 1 /\ UNCHANGED j
  /\ UNCHANGED <<args, argi, qtype, qclass, qname, nameserver, wire, reply, mismatch>>

(***************************************************************************)
(* Second half: m.Id = dns.Id() and c.Do(m, nameserver), which hands the  *)
(* pointer m to a handler goroutine and returns.  After the last name the *)
(* reply loop starts with i := 0.                                         *)
(***************************************************************************)
SetIdAndDo ==
  /\ pc = "id"
  /\ \E id \in Ids : m' = [m EXCEPT !.id = id]
  /\ hstate' = [hstate EXCEPT ![j] = "queued"]
  /\ IF j < Len(qname)
     THEN j' = j + 1 /\ pc' = "question" /\ UNCHANGED i
     ELSE pc' = "recv" /\ i' = 0 /\ UNCHANGED j
  /\ UNCHANGED <<args, argi, qtype, qclass, qname, nameserver, wire, reply, mismatch>>
-----------------------------------------------------------------------------
\* The handler q, w.Send(m): it packs m as it is when the goroutine runs.
HandlerSend(k) ==
  /\ hstate[k] = "queued"
  /\ wire' = [wire EXCEPT ![k] = m]
  /\ hstate' = [hstate EXCEPT ![k] = "sent"]
  /\ UNCHANGED <<args, argi, pc, qtype, qclass, qname, nameserver, m, j, reply, i, mismatch>>

(***************************************************************************)
(* w.Receive returns the server's answer (whatever Id and rcode it       *)
(* carries) or an error, after which r is nil; w.Write(r) puts the       *)
(* exchange {Request: m, Reply: r} on DefaultReplyChan.                   *)
(***************************************************************************)
HandlerReceive(k) ==
  /\ hstate[k] = "sent"
  /\ \E r \in Replies \cup {NoReply} : reply' = [reply EXCEPT ![k] = r]
  /\ hstate' = [hstate EXCEPT ![k] = "written"]
  /\ UNCHANGED <<args, argi, pc, qtype, qclass, qname, nameserver, m, j, wire, i, mismatch>>

\* Mutant: i++ inside "if r.Reply != nil", so a failed query is not counted.
ReceiveCountsReplies ==
  /\ pc = "recv"
  /\ \E k \in Req :
       /\ hstate[k] = "written"
       /\ hstate' = [hstate EXCEPT ![k] = "read"]
       /\ mismatch' = IF reply[k] # NoReply /\ reply[k].rcode = "success"
                           /\ m.id # reply[k].id
                      THEN mismatch \cup {k} ELSE mismatch
       /\ i' = IF reply[k] # NoReply THEN i + 1 ELSE i
       /\ pc' = IF reply[k] # NoReply /\ i + 1 = Len(qname) THEN "done" ELSE "recv"
  /\ UNCHANGED <<args, argi, qtype, qclass, qname, nameserver, m, j, wire, reply>>

(***************************************************************************)
(* One turn of the forever loop: take any written exchange from the      *)
(* channel; for a successful reply compare r.Request.Id (m's Id now, as  *)
(* Request is the pointer m) with r.Reply.Id; count it, nil or not, and   *)
(* stop after len(qname) replies.                                         *)
(***************************************************************************)
Receive ==
  /\ pc = "recv"
  /\ \E k \in Req :
       /\ hstate[k] = "written"
       /\ hstate' = [hstate EXCEPT ![k] = "read"]
       /\ mismatch' = IF reply[k] # NoReply /\ reply[k].rcode = "success"
                           /\ m.id # reply[k].id
                      THEN mismatch \cup {k} ELSE mismatch
  /\ i' = i + 1
  /\ pc' = IF i + 1 = Len(qname) THEN "done" ELSE "recv"
  /\ UNCHANGED <<args, argi, qtype, qclass, qname, nameserver, m, j, wire, reply>>

Main == Flag \/ Defaults \/ SetQuestion \/ SetIdAndDo \/ Receive
Handler(k) == HandlerSend(k) \/ HandlerReceive(k)

Next == Main \/ \E k \in Req : Handler(k)

\* Go schedules every runnable goroutine eventually; w.Receive returns an
\* answer or an error (the client's read timeout), so each step that stays
\* enabled is taken.
Spec == Init /\ [][Next]_vars /\ WF_vars(Main) /\ \A k \in Req : WF_vars(Handler(k))
-----------------------------------------------------------------------------
(***************************************************************************)
(* main stops (break forever) only when every query it handed to c.Do has *)
(* had its exchange read from DefaultReplyChan: the counter i, reset      *)
(* after the send loop and bumped once per exchange, nil replies too,     *)
(* stays equal to the number of exchanges read.                            *)
(***************************************************************************)
ExitAfterAllReplies ==
  pc = "done" => \A k \in 1..Len(qname) : hstate[k] = "read"

(***************************************************************************)
(* q ends normally on every argument vector without an empty argument     *)
(* (an empty one makes the Flags loop panic): each handler sends, gets an *)
(* answer or an error and writes it, and main counts every exchange, so  *)
(* the forever loop is left even when some queries fail.                  *)
(***************************************************************************)
QueryTerminates ==
  (\A k \in DOMAIN args : args[k] # "") => <>(pc = "done")

(***************************************************************************)
(* q implements QueryAbstract: its questions are settled when the Flags   *)
(* loop and the defaults are over; a query is asked when its handler has  *)
(* packed and sent m, answered when w.Write has put the exchange on the   *)
(* channel, and reported when main has read it.                           *)
(***************************************************************************)
Asked(k) == hstate[k] \in {"sent", "written", "read"}
Answered(k) == hstate[k] \in {"written", "read"}

Abstract == INSTANCE QueryAbstract WITH
  Questions <- Question,
  want <- IF pc \in {"flags", "panicked"} THEN <<>>
          ELSE [k \in 1..Len(qname) |->
                  [name |-> qname[k], qtype |-> qtype, qclass |-> qclass]],
  asked <- [k \in Req |-> IF Asked(k) THEN wire[k] ELSE [none |-> TRUE]],
  got <- [k \in Req |-> IF Answered(k) THEN reply[k] ELSE [none |-> TRUE]],
  seen <- {k \in Req : hstate[k] = "read"},
  done <- pc = "done"

(***************************************************************************)
(* Every behaviour of q is one of QueryAbstract: each handler sends its   *)
(* own name's question, "Id mismatch" is printed only for a reply whose   *)
(* Id is not its query's, and q always gets to the end.                   *)
(***************************************************************************)
QueryRefined == Abstract!Spec
=============================================================================
