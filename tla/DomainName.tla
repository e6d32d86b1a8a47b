----------------------------- MODULE DomainName -----------------------------
(***************************************************************************)
(* The name helpers of package dns (src/dns.go): IsDomainName, IsFqdn and  *)
(* Fqdn.  They are pure functions of a string, so they are operators; the  *)
(* zone lexer and parser modules use them on the token texts they build.  *)
(* TLC treats a string as a sequence of characters for Len, \o and SubSeq, *)
(* so the translation walks the string one character at a time exactly   *)
(* as the Go loop does.                                                    *)
(***************************************************************************)
EXTENDS Naturals, Sequences

\* The i-th character of s, as a one-character string.
Char(s, i) == SubSeq(s, i, i)

\* c is one of the characters of the string set.
InChars(c, set) == \E k \in 1..Len(set) : Char(set, k) = c

LetterChars == "abcdefghijklmnopqrstuvwxyzABCDEFGHIJKLMNOPQRSTUVWXYZ_*"
DigitChars  == "0123456789"

\* IsFqdn: a name is fully qualified when its last byte is a dot.
IsFqdn(s) == Len(s) > 0 /\ Char(s, Len(s)) = "."

\* Fqdn: append the root dot unless s is already fully qualified.
Fqdn(s) == IF IsFqdn(s) THEN s ELSE s \o "."

(***************************************************************************)
(* The loop of IsDomainName over s[i..], carrying the loop variables last, *)
(* ok, partlen and labels.  The result is the function's pair (labels, ok);*)
(* an early "return 0, false" is [labels |-> 0, ok |-> FALSE].  A Go       *)
(* "break" out of the switch still executes "last = c", so every branch    *)
(* that continues passes c as the new last.                                *)
(***************************************************************************)
Rejected == [labels |-> 0, ok |-> FALSE]

RECURSIVE DomainScan(_, _, _, _, _, _)
DomainScan(s, i, last, ok, partlen, labels) ==
  IF i > Len(s) THEN [labels |-> labels, ok |-> ok]
  ELSE LET c == Char(s, i) IN
    CASE InChars(c, LetterChars) ->
           DomainScan(s, i + 1, c, TRUE, partlen + 1, labels)
      [] c = "\\" ->
           DomainScan(s, i + 1, c, ok, partlen, labels)
      [] InChars(c, DigitChars) ->
           DomainScan(s, i + 1, c, ok, partlen + 1, labels)
      [] c = "-" ->
           IF last = "." THEN Rejected
           ELSE DomainScan(s, i + 1, c, ok, partlen + 1, labels)
      [] c = "." ->
           CASE last \in {".", "-"}      -> Rejected
             [] last = "\\"              -> DomainScan(s, i + 1, c, ok, partlen + 1, labels)
             [] partlen > 63 \/ partlen = 0 -> Rejected
             [] OTHER                    -> DomainScan(s, i + 1, c, ok, 0, (labels + 1) % 256)
      [] OTHER -> Rejected

\* Mutant: the loop runs on s itself, without the Fqdn that ends it in a dot.
IsDomainNameResultNoFqdn(s) ==
  IF Len(s) = 0 \/ Len(s) > 255 THEN Rejected
  ELSE DomainScan(s, 1, ".", FALSE, 0, 0)

\* IsDomainName(s): the label count and whether s is a valid domain name.
IsDomainNameResult(s) ==
  IF Len(s) = 0 \/ Len(s) > 255 THEN Rejected
  ELSE DomainScan(Fqdn(s), 1, ".", FALSE, 0, 0)

IsDomainName(s) == IsDomainNameResult(s).ok

(***************************************************************************)
(* zoneMatch: both names are made fully qualified (an empty zone is the   *)
(* root), then compared byte by byte from the end.  ZoneMatchFrom is the  *)
(* loop at index i (0 is the last byte): it stops with false at the first *)
(* differing byte and with true when either name has no byte left.        *)
(***************************************************************************)
RECURSIVE ZoneMatchFrom(_, _, _)
ZoneMatchFrom(p, z, i) ==
  IF Char(p, Len(p) - i) # Char(z, Len(z) - i) THEN FALSE
  ELSE IF Len(p) - 1 - (i + 1) < 0 \/ Len(z) - 1 - (i + 1) < 0 THEN TRUE
  ELSE ZoneMatchFrom(p, z, i + 1)

\* Mutant: the pattern is compared without being made fully qualified.
ZoneMatchNoFqdn(pattern, zone) ==
  Len(pattern) > 0
  /\ ZoneMatchFrom(pattern, Fqdn(IF Len(zone) = 0 THEN "." ELSE zone), 0)

ZoneMatch(pattern, zone) ==
  Len(pattern) > 0
  /\ ZoneMatchFrom(Fqdn(pattern), Fqdn(IF Len(zone) = 0 THEN "." ELSE zone), 0)

(***************************************************************************)
(* strconv.Atoi, as the parser uses it: an optional sign and at least one *)
(* decimal digit, nothing else.  Out-of-range inputs of Atoi need more    *)
(* digits than any token of the models has.                                *)
(***************************************************************************)
RECURSIVE DigitsValue(_)
DigitsValue(s) ==
  IF Len(s) = 0 THEN 0
  ELSE DigitsValue(SubSeq(s, 1, Len(s) - 1)) * 10
         + (CHOOSE d \in 0..9 : Char(DigitChars, d + 1) = Char(s, Len(s)))

AllDigits(s) == Len(s) > 0 /\ \A i \in 1..Len(s) : InChars(Char(s, i), DigitChars)

IsAtoi(s) ==
  \/ AllDigits(s)
  \/ Len(s) > 1 /\ Char(s, 1) \in {"+", "-"} /\ AllDigits(SubSeq(s, 2, Len(s)))

Atoi(s) ==
  CASE AllDigits(s)      -> DigitsValue(s)
    [] Char(s, 1) = "-"  -> 0 - DigitsValue(SubSeq(s, 2, Len(s)))
    [] OTHER             -> DigitsValue(SubSeq(s, 2, Len(s)))
=============================================================================
