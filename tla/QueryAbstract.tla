--------------------------- MODULE QueryAbstract ---------------------------
(***************************************************************************)
(* What the q client promises its user, with no goroutines and no shared  *)
(* message: once it has settled on its questions (one per name given, all *)
(* with the same type and class), it asks each one in a query of its own,  *)
(* under some Id; each query gets an answer or an error; it reports each   *)
(* exchange once, saying "Id mismatch" exactly when a successful answer   *)
(* carries another Id than its own query; and it ends once every exchange *)
(* is reported.                                                            *)
(***************************************************************************)
EXTENDS Naturals, Sequences

CONSTANTS
  MaxArgs,     \* bound: the number of questions
  Questions,   \* the questions q may ask
  Ids,         \* the query Ids
  Replies,     \* the answers a server may give
  NoReply      \* an error in place of an answer

None == [none |-> TRUE]
Req == 1..MaxArgs

VARIABLES
  want,      \* the questions, in order, once settled; <<>> before
  asked,     \* per query: the packet sent, or None
  got,       \* per query: the answer (or NoReply), or None
  seen,      \* the queries whose exchange was reported
  mismatch,  \* the queries reported as "Id mismatch"
  done       \* q has ended

vars == <<want, asked, got, seen, mismatch, done>>

Init ==
  /\ want = <<>>
  /\ asked = [k \in Req |-> None]
  /\ got = [k \in Req |-> None]
  /\ seen = {} /\ mismatch = {} /\ done = FALSE

Settle ==
  /\ want = <<>>
  /\ \E n \in 1..MaxArgs : want' \in [1..n -> Questions]
  /\ UNCHANGED <<asked, got, seen, mismatch, done>>

Ask(k) ==
  /\ k \in DOMAIN want /\ asked[k] = None
  /\ \E id \in Ids : asked' = [asked EXCEPT ![k] = [id |-> id, question |-> want[k]]]
  /\ UNCHANGED <<want, got, seen, mismatch, done>>

Answer(k) ==
  /\ asked[k] # None /\ got[k] = None
  /\ \E r \in Replies \cup {NoReply} : got' = [got EXCEPT ![k] = r]
  /\ UNCHANGED <<want, asked, seen, mismatch, done>>

WrongId(k) == got[k] # NoReply /\ got[k].rcode = "success" /\ got[k].id # asked[k].id

Report(k) ==
  /\ got[k] # None /\ k \notin seen
  /\ seen' = seen \cup {k}
  /\ mismatch' = IF WrongId(k) THEN mismatch \cup {k} ELSE mismatch
  /\ done' = (seen' = DOMAIN want)
  /\ UNCHANGED <<want, asked, got>>

Exchange == \E k \in Req : Ask(k) \/ Answer(k) \/ Report(k)

Next == Settle \/ Exchange

\* Every settled question is eventually asked, answered and reported (q
\* need not settle: it may stop before, on a bad argument).
Spec == Init /\ [][Next]_vars /\ WF_vars(Exchange)
=============================================================================
