---------------------------- MODULE ZoneLexerSpec ----------------------------
(***************************************************************************)
(* One zlexer goroutine on its own, with a receiver that takes every token *)
(* it sends.  out is the sequence of tokens received so far; nlSeen counts *)
(* the newline characters the lexer scanned outside braces (a ghost for    *)
(* the properties), wordsSeen the word characters it scanned outside a   *)
(* comment (another ghost).  One action per case of the lexer's switch.   *)
(***************************************************************************)
EXTENDS ZoneLexer

LOCAL INSTANCE FiniteSetsExt
LOCAL INSTANCE Functions

VARIABLES lx, out, nlSeen, wordsSeen
vars == <<lx, out, nlSeen, wordsSeen>>

Init == lx = LexInit /\ out = <<>> /\ nlSeen = 0 /\ wordsSeen = 0

\* case " ", "\t"
LexBlank ==
  /\ CanScan(lx)
  /\ \E n \in NextInputs(lx) : n.atom \in Blanks /\ lx' = ScanBlank(n.x, n.x.nread)
  /\ UNCHANGED <<out, nlSeen, wordsSeen>>

\* case ";"
LexSemicolon ==
  /\ CanScan(lx)
  /\ \E n \in NextInputs(lx) : n.atom = ";" /\ lx' = ScanSemicolon(n.x)
  /\ UNCHANGED <<out, nlSeen, wordsSeen>>

\* case "\\"
LexBackslash ==
  /\ CanScan(lx)
  /\ \E n \in NextInputs(lx) : n.atom = "\\" /\ lx' = ScanBackslash(n.x)
  /\ UNCHANGED <<out, nlSeen, wordsSeen>>

\* case "\""
LexQuote ==
  /\ CanScan(lx)
  /\ \E n \in NextInputs(lx) : n.atom = "\"" /\ lx' = ScanQuote(n.x)
  /\ UNCHANGED <<out, nlSeen, wordsSeen>>

\* case "("
LexOpen ==
  /\ CanScan(lx)
  /\ \E n \in NextInputs(lx) : n.atom = "(" /\ lx' = ScanOpen(n.x)
  /\ UNCHANGED <<out, nlSeen, wordsSeen>>

\* case ")"
LexClose ==
  /\ CanScan(lx)
  /\ \E n \in NextInputs(lx) : n.atom = ")" /\ lx' = ScanClose(n.x)
  /\ UNCHANGED <<out, nlSeen, wordsSeen>>

\* default
LexWord ==
  /\ CanScan(lx)
  /\ \E n \in NextInputs(lx) : IsWord(n.atom) /\ lx' = ScanWord(n.x, n.atom)
  /\ wordsSeen' = IF lx.commt THEN wordsSeen ELSE wordsSeen + 1
  /\ UNCHANGED <<out, nlSeen>>

\* case "\n"
LexNewline ==
  /\ CanScan(lx)
  /\ \E n \in NextInputs(lx) : n.atom = "\n" /\ lx' = ScanNewline(n.x, n.x.nread)
  /\ nlSeen' = IF lx.brace = 0 THEN nlSeen + 1 ELSE nlSeen
  /\ UNCHANGED <<out, wordsSeen>>

\* s.Scan() returned scanner.EOF: send the remainder of str.
LexEOF ==
  /\ CanScan(lx) /\ AtEOF(lx)
  /\ lx' = ScanEOF(lx, lx.nread)
  /\ UNCHANGED <<out, nlSeen, wordsSeen>>

\* The deferred close(c), once the last send has completed.
LexClosed ==
  /\ lx.phase = "closing" /\ lx.pend = <<>>
  /\ lx' = [lx EXCEPT !.phase = "closed"]
  /\ UNCHANGED <<out, nlSeen, wordsSeen>>

\* The receiver takes the token the lexer is sending.
Receive ==
  /\ lx.pend # <<>>
  /\ out' = Append(out, Head(lx.pend))
  /\ lx' = [lx EXCEPT !.pend = Tail(@)]
  /\ UNCHANGED <<nlSeen, wordsSeen>>

Next == \/ LexBlank \/ LexSemicolon \/ LexNewline \/ LexBackslash
        \/ LexQuote \/ LexOpen \/ LexClose \/ LexWord
        \/ LexEOF \/ LexClosed \/ Receive

Spec == Init /\ [][Next]_vars

\* The lexer has closed its channel and stops.
Done == lx.phase = "closed"
-----------------------------------------------------------------------------
TokenType == [kind : Kinds, text : STRING, err : BOOLEAN, src : Nat]

TypeOK ==
  /\ lx.str \in STRING /\ lx.brace \in -1..MaxLines /\ lx.l \in TokenType
  /\ lx.phase = "scan" => lx.brace >= 0
  /\ {lx.quote, lx.escape, lx.space, lx.commt, lx.rrtype, lx.owner} \subseteq BOOLEAN
  /\ lx.pend \in Seq(TokenType) /\ out \in Seq(TokenType)
  /\ lx.phase \in {"scan", "closing", "closed"}
  /\ nlSeen \in Nat /\ wordsSeen \in Nat

\* Every token received or being sent, in order.
Sent == out \o lx.pend

(***************************************************************************)
(* Every logical record ends with exactly one NEWLINE (spec 4.2): the     *)
(* lexer sends one NEWLINE for each newline character it scans outside    *)
(* braces, whether that newline ends a comment or a line, and none for a  *)
(* newline inside braces.                                                  *)
(***************************************************************************)
NewlinePerRecord ==
  Len(SelectSeq(Sent, LAMBDA t : t.kind = "NEWLINE" /\ ~t.err)) = nlSeen

(***************************************************************************)
(* Within one logical record (between NEWLINE tokens) only the first token *)
(* may be in owner position, and at most one token is classified as an RR *)
(* type (spec 4.2: a newline inside parentheses is whitespace, and the    *)
(* type table is consulted only until the first RRTYPE of the line).       *)
(***************************************************************************)
OwnerKinds == {"OWNER", "DIRTTL", "DIRORIGIN", "DIRINCLUDE"}

RecordShape ==
  \A i, j \in 1..Len(Sent) :
    (i < j /\ \A k \in i..j : Sent[k].kind # "NEWLINE") =>
      /\ Sent[j].kind \in OwnerKinds => Sent[j].err
      /\ ~(Sent[i].kind = "RRTYPE" /\ Sent[j].kind = "RRTYPE" /\ ~Sent[j].err)

\* How often the word w occurs in the text t.
RECURSIVE Occurrences(_, _)
Occurrences(t, w) ==
  IF Len(t) < Len(w) THEN 0
  ELSE (IF SubSeq(t, 1, Len(w)) = w THEN 1 ELSE 0)
       + Occurrences(SubSeq(t, 2, Len(t)), w)

\* The words of the input pieces.
LexWords == {a \in UNION {Range(q.atoms) : q \in Lines} : IsWord(a)}

\* How many input words the texts of the tokens in s hold.
RECURSIVE WordsIn(_)
WordsIn(s) ==
  IF s = <<>> THEN 0
  ELSE MapThenSumSet(LAMBDA w : Occurrences(Head(s).text, w), LexWords)
       + WordsIn(Tail(s))

(***************************************************************************)
(* Nothing the zone file says outside a comment is dropped (spec 4.2: a    *)
(* comment runs from ';' to the end of the line): once the lexer has      *)
(* closed c without flagging an error, every word it scanned outside a    *)
(* comment is in the text of a token it sent.  At ';' zlexer sets commt without flushing str, and the *)
(* newline that ends the comment clears str (zscan.go:438).               *)
(***************************************************************************)
WordsKept ==
  (Done /\ \A i \in 1..Len(Sent) : ~Sent[i].err) => WordsIn(Sent) = wordsSeen

=============================================================================
