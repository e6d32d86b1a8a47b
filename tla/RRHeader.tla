------------------------------ MODULE RRHeader ------------------------------
(***************************************************************************)
(* The presentation of RR headers (src/dns.go): RR_Header.String, the     *)
(* header's part of every RR's String, RR_Header.Len, and RRset.String,   *)
(* which prints each RR of a set on a line of its own.  A header is       *)
(* [name, rrtype, class, ttl] with the codes as numbers; an RR adds the   *)
(* text of its rdata, which its own String method appends to the header.  *)
(***************************************************************************)
EXTENDS Naturals, Sequences

LOCAL INSTANCE SequencesExt

CONSTANTS
  ClassStr,   \* dns.Class_str: class code -> mnemonic
  RrStr       \* dns.Rr_str: type code -> mnemonic

TypeOPT == 41

\* strconv.Itoa on a non-negative number: its decimal digits.
RECURSIVE Itoa(_)
Itoa(n) ==
  LET d == SubSeq("0123456789", (n % 10) + 1, (n % 10) + 1) IN
  IF n < 10 THEN d ELSE Itoa(n \div 10) \o d

\* Mutant: the empty owner name is printed as it is.
HeaderStringNoRoot(h) ==
  (IF h.rrtype = TypeOPT THEN ";" ELSE "")
  \o h.name \o "\t"
  \o Itoa(h.ttl) \o "\t"
  \o (IF h.class \in DOMAIN ClassStr THEN ClassStr[h.class] ELSE "CLASS" \o Itoa(h.class)) \o "\t"
  \o (IF h.rrtype \in DOMAIN RrStr THEN RrStr[h.rrtype] ELSE "TYPE" \o Itoa(h.rrtype)) \o "\t"

(***************************************************************************)
(* RR_Header.String: an OPT pseudo-record starts with ';' (it is a        *)
(* comment in a zone file); the empty name prints as the root "."; then   *)
(* the TTL, the class mnemonic or CLASSn, the type mnemonic or TYPEn,     *)
(* each field followed by a tab.                                           *)
(***************************************************************************)
HeaderString(h) ==
  (IF h.rrtype = TypeOPT THEN ";" ELSE "")
  \o (IF Len(h.name) = 0 THEN "." ELSE h.name) \o "\t"
  \o Itoa(h.ttl) \o "\t"
  \o (IF h.class \in DOMAIN ClassStr THEN ClassStr[h.class] ELSE "CLASS" \o Itoa(h.class)) \o "\t"
  \o (IF h.rrtype \in DOMAIN RrStr THEN RrStr[h.rrtype] ELSE "TYPE" \o Itoa(h.rrtype)) \o "\t"

\* An RR's String: its header's, then its rdata.
RRString(r) == HeaderString(r.hdr) \o r.rdata

\* RRset.String: every RR's String followed by a newline.
RRsetString(s) ==
  IF s = <<>> THEN ""
  ELSE FlattenSeq([k \in DOMAIN s |-> RRString(s[k]) \o "\n"])

\* RR_Header.Len: the name's length plus one, plus the ten bytes of type,
\* class, TTL and rdlength.
HeaderLen(h) == Len(h.name) + 1 + 10
=============================================================================
