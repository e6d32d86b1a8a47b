------------------------------- MODULE MCNames -------------------------------
(***************************************************************************)
(* The data helpers of src/dns.go that the zone parser does not drive: an *)
(* RRset under any sequence of Push and Pop calls, and the pure name      *)
(* functions IsDomainName and zoneMatch, each checked against a reference *)
(* definition on every string up to a length over a small alphabet.  A   *)
(* driver builds the string w one character per step, beside the RRset   *)
(* calls; the name properties hold of every w it builds.                   *)
(***************************************************************************)
EXTENDS RRset, DomainName, RRHeader

VARIABLE w

MCRRs == [name : {"x.", ""}, class : {"IN", "CH"}, ttl : {0, 2147483647}]

\* The parts of Class_str and Rr_str the RRs use.
MCClassStr == [c \in {1, 3} |-> IF c = 1 THEN "IN" ELSE "CH"]
MCRrStr == [t \in {1} |-> "A"]

\* Every string of length at most n over the one-character strings of A.
RECURSIVE Strings(_, _)
Strings(A, n) ==
  IF n = 0 THEN {""}
  ELSE Strings(A, n - 1) \cup {u \o a : u \in Strings(A, n - 1), a \in A}

\* The characters of w: two letters, a digit, the dash and the dot.
NameChars == {"a", "b", "1", "-", "."}
MaxNameLen == 4

\* The driver: w starts empty and grows by one character up to MaxNameLen.
NamesInit == Init /\ w = ""
Extend == Len(w) < MaxNameLen /\ \E c \in NameChars : w' = w \o c /\ UNCHANGED vars
NamesNext == (Next /\ UNCHANGED w) \/ Extend
NamesSpec == NamesInit /\ [][NamesNext]_<<vars, w>>

\* Patterns and zones for zoneMatch: two letters and the dot.
ZoneInputs == Strings({"a", "b", "."}, 3)
-----------------------------------------------------------------------------
(* Reference definitions, from RFC 1035 section 2.3.1 as the function's   *)
(* comment cites it, for names without escapes.                            *)

\* s ends with t.
EndsWith(s, t) == Len(t) <= Len(s) /\ SubSeq(s, Len(s) - Len(t) + 1, Len(s)) = t

\* The dot-separated pieces of s, in order.
RECURSIVE Pieces(_)
Pieces(s) ==
  IF \A i \in 1..Len(s) : Char(s, i) # "."
  THEN <<s>>
  ELSE LET d == CHOOSE i \in 1..Len(s) :
                  Char(s, i) = "." /\ \A j \in 1..i - 1 : Char(s, j) # "."
       IN <<SubSeq(s, 1, d - 1)>> \o Pieces(SubSeq(s, d + 1, Len(s)))

\* The labels of a fully qualified name: the pieces before its final dot.
LabelsOf(f) == SubSeq(Pieces(f), 1, Len(Pieces(f)) - 1)

\* A label has 1 to 63 characters and neither starts nor ends with a dash.
GoodLabel(l) ==
  /\ Len(l) \in 1..63
  /\ Char(l, 1) # "-" /\ Char(l, Len(l)) # "-"

\* A name is valid when it has 1 to 255 characters, all its labels are
\* good, and it has at least one letter (the net package's rule).
RefDomainName(s) ==
  /\ Len(s) \in 1..255
  /\ \A i \in DOMAIN LabelsOf(Fqdn(s)) : GoodLabel(LabelsOf(Fqdn(s))[i])
  /\ \E i \in 1..Len(s) : InChars(Char(s, i), LetterChars)
-----------------------------------------------------------------------------
(***************************************************************************)
(* IsDomainName accepts exactly the names the reference accepts, and for  *)
(* those it returns the number of labels, for every escape-free name w   *)
(* of up to four characters: the dash and dot tests on last, the partlen *)
(* test, the Fqdn that makes the loop see a final dot, and the uint8      *)
(* label counter all take part.                                            *)
(***************************************************************************)
DomainNameMatchesReference ==
  /\ IsDomainName(w) <=> RefDomainName(w)
  /\ IsDomainName(w) => IsDomainNameResult(w).labels = Len(LabelsOf(Fqdn(w)))

(***************************************************************************)
(* zoneMatch(w, zone) holds exactly when w is not empty and one of the  *)
(* two fully qualified names (the empty zone being the root) ends with  *)
(* the other.  The match is byte-wise and symmetric: it                  *)
(* does not stop at a label boundary, so "ab." matches the zone "b.", and *)
(* "b." matches the zone "ab." too.                                        *)
(***************************************************************************)
ZoneMatchIsMutualSuffix ==
  \A z \in ZoneInputs :
    LET P == Fqdn(w)
        Z == Fqdn(IF z = "" THEN "." ELSE z)
    IN ZoneMatch(w, z) <=> (w # "" /\ (EndsWith(P, Z) \/ EndsWith(Z, P)))
-----------------------------------------------------------------------------
(* A reader of the zone-file presentation (spec 4.3: owner, TTL, class,  *)
(* type, rdata), as the reference for printing an RRset.                 *)

\* The pieces of s between the occurrences of the character c.
RECURSIVE SplitOn(_, _)
SplitOn(s, c) ==
  IF \A i \in 1..Len(s) : Char(s, i) # c
  THEN <<s>>
  ELSE LET d == CHOOSE i \in 1..Len(s) : Char(s, i) = c /\ \A j \in 1..i - 1 : Char(s, j) # c
       IN <<SubSeq(s, 1, d - 1)>> \o SplitOn(SubSeq(s, d + 1, Len(s)), c)

\* One line of RRset.String read back: its tab-separated fields.
ReadLine(l) ==
  LET f == SplitOn(l, "\t") IN
  [name |-> f[1], ttl |-> Atoi(f[2]), class |-> f[3], rrtype |-> f[4], rdata |-> f[5]]

\* The RRset's members as A records with the codes of their classes.
AsRR(r) == [hdr |-> [name |-> r.name, rrtype |-> 1, ttl |-> r.ttl,
                     class |-> CHOOSE c \in DOMAIN MCClassStr : MCClassStr[c] = r.class],
            rdata |-> "1.2.3.4"]

(***************************************************************************)
(* RRset.String, whatever Push and Pop made of the set, prints one line   *)
(* per RR, in order, that reads back as that RR: its owner name (the root *)
(* "." for the empty name, which a zone file cannot leave blank without   *)
(* meaning "the previous owner"), its TTL in decimal up to 2^31-1, its     *)
(* class and type mnemonics and its rdata.                                *)
(***************************************************************************)
PrintedRRsetReadsBack ==
  LET ls == SplitOn(RRsetString([k \in DOMAIN rrset |-> AsRR(rrset[k])]), "\n") IN
  /\ Len(ls) = Len(rrset) + 1 /\ ls[Len(ls)] = ""
  /\ \A k \in DOMAIN rrset :
       ReadLine(ls[k]) = [name |-> IF rrset[k].name = "" THEN "." ELSE rrset[k].name,
                          ttl |-> rrset[k].ttl, class |-> rrset[k].class,
                          rrtype |-> "A", rdata |-> "1.2.3.4"]
=============================================================================
