------------------------------- MODULE RRset -------------------------------
(***************************************************************************)
(* RRset (src/dns.go): a slice of RRs with Push, Pop and Ok.  The model is *)
(* one set that a program creates with NewRRset and then pushes to and    *)
(* pops from, in any order.  An RR is its header fields that the methods  *)
(* read (name, class, ttl).  pushed and popped are what the last Push and *)
(* the last Pop returned (Nil stands for the nil RR).                      *)
(***************************************************************************)
EXTENDS Naturals, Sequences

CONSTANTS
  RRs,      \* the RRs that may be pushed: records [name, class, ttl]
  MaxLen    \* bound: the length of the set

VARIABLES rrset, pushed, popped
vars == <<rrset, pushed, popped>>

Nil == [name |-> "", class |-> "", ttl |-> 0]

\* NewRRset: make([]RR, 0).
Init == rrset = <<>> /\ pushed = FALSE /\ popped = Nil

\* Mutant: Push compares only the owner name with the first RR.
PushNoClass(r) ==
  /\ rrset # <<>>
  /\ IF rrset[1].name # r.name
     THEN pushed' = FALSE /\ UNCHANGED rrset
     ELSE rrset' = Append(rrset, r) /\ pushed' = TRUE

(***************************************************************************)
(* Push onto a non-empty set: the RR is appended only when its name and   *)
(* its class equal those of the first RR; the TTL is not compared (the    *)
(* code has that test commented out).                                      *)
(***************************************************************************)
PushOnto(r) ==
  /\ rrset # <<>>
  /\ IF rrset[1].name # r.name \/ rrset[1].class # r.class
     THEN pushed' = FALSE /\ UNCHANGED rrset
     ELSE rrset' = Append(rrset, r) /\ pushed' = TRUE

\* Push: an empty set takes any RR.
Push ==
  /\ Len(rrset) < MaxLen
  /\ \E r \in RRs :
       \/ rrset = <<>> /\ rrset' = <<r>> /\ pushed' = TRUE
       \/ PushOnto(r)
  /\ UNCHANGED popped

\* Pop: nil on an empty set, else the last RR, which is removed.
Pop ==
  IF rrset = <<>>
  THEN popped' = Nil /\ UNCHANGED <<rrset, pushed>>
  ELSE /\ popped' = rrset[Len(rrset)]
       /\ rrset' = SubSeq(rrset, 1, Len(rrset) - 1)
       /\ UNCHANGED pushed

Next == Push \/ Pop

Spec == Init /\ [][Next]_vars

(***************************************************************************)
(* Ok: every RR after the first has the first one's TTL, name and class.  *)
(* It reads s[0] unchecked, so it is defined on non-empty sets only: on   *)
(* an empty set the Go method panics.                                     *)
(***************************************************************************)
Ok(s) ==
  \A i \in 2..Len(s) :
    s[i].ttl = s[1].ttl /\ s[i].name = s[1].name /\ s[i].class = s[1].class
-----------------------------------------------------------------------------
TypeOK ==
  /\ rrset \in Seq(RRs) /\ Len(rrset) <= MaxLen
  /\ pushed \in BOOLEAN /\ popped \in RRs \cup {Nil}

(***************************************************************************)
(* Spec 3: an RR-set must agree on name and class, and TTL equality is    *)
(* tolerated on push but required by RFC 2181.  So after any sequence of  *)
(* Push and Pop calls, Ok on a non-empty set fails exactly when two of    *)
(* its RRs have different TTLs: Push's two guards and a Pop that empties  *)
(* the set (after which Push accepts anything) together keep name and     *)
(* class uniform.                                                          *)
(***************************************************************************)
OkIffUniformTtl ==
  rrset # <<>> =>
    (Ok(rrset) <=> \A i \in DOMAIN rrset : rrset[i].ttl = rrset[1].ttl)
=============================================================================
