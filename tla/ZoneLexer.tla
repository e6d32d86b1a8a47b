------------------------------ MODULE ZoneLexer ------------------------------
(***************************************************************************)
(* zlexer (src/zscan.go): the goroutine that scans a zone file character  *)
(* by character and sends typed tokens on the unbuffered channel c.       *)
(*                                                                         *)
(* The lexer's locals (str, quote, escape, space, commt, rrtype, owner,   *)
(* brace and the reused token l) form one record, so that a composing     *)
(* module can run one lexer per open file.  One scanned character is one  *)
(* step; the tokens a step sends are queued in pend, and the lexer scans  *)
(* nothing more until the receiver has taken all of them, which is what   *)
(* the blocking sends on an unbuffered channel do.                        *)
(*                                                                         *)
(* Data abstraction.  text/scanner in Mode 0 returns one character per    *)
(* Scan; every character that is not one of  space tab newline ; " \ ( )  *)
(* takes the same "default" branch, so a run of them is one input atom    *)
(* (a word) and one step.  Token texts are TLA+ strings.  strings.ToUpper *)
(* in the table lookups is left out: the words of the models are written  *)
(* in the case the tables use.                                             *)
(***************************************************************************)
EXTENDS Integers, Sequences

CONSTANTS
  TypeNames,   \* the keys of Str_rr: the RR type names the lexer recognises
  ClassNames,  \* the keys of Str_class: the class names
  Lines,       \* input pieces: records with a field atoms, a Seq of atoms
  MaxLines     \* bound: how many pieces one input file has at most

Blanks   == {" ", "\t"}
Specials == Blanks \cup {"\n", ";", "\"", "\\", "(", ")"}
IsWord(a) == a \notin Specials

\* The token values of zscan.go that the zone lexer sends.
Kinds == {"EOF", "STRING", "BLANK", "NEWLINE", "RRTYPE", "OWNER", "CLASS",
          "DIRORIGIN", "DIRTTL", "DIRINCLUDE"}

(***************************************************************************)
(* A token (struct lex): its value, its text, whether the lexer flagged an *)
(* error on it, and (for the properties only) src, the index of the input *)
(* piece being scanned when it was sent; src stands for lex.line.          *)
(***************************************************************************)
Tok(kind, text, src) == [kind |-> kind, text |-> text, err |-> FALSE, src |-> src]

\* The zero lex: what the variable l holds first, and what a receive on a
\* closed channel yields (value 0 is _EOF).
ZeroLex == Tok("EOF", "", 0)

LexInit == [str |-> "", quote |-> FALSE, escape |-> FALSE, space |-> FALSE,
            commt |-> FALSE, rrtype |-> FALSE, owner |-> TRUE, brace |-> 0,
            l |-> ZeroLex, pend |-> <<>>, phase |-> "scan",
            rest |-> <<>>, nread |-> 0]

\* Set l to t and send it (c <- l).
Send(x, t) == [x EXCEPT !.l = t, !.pend = Append(@, t)]

\* The directive check on an owner-position string.
OwnerKind(s) == CASE s = "$TTL"     -> "DIRTTL"
                  [] s = "$ORIGIN"  -> "DIRORIGIN"
                  [] s = "$INCLUDE" -> "DIRINCLUDE"
                  [] OTHER          -> "OWNER"

(***************************************************************************)
(* The classification of a non-owner string flushed at a blank: only while *)
(* no RR type has been seen on the line; the class test comes second and  *)
(* wins for a word that is in both tables.                                 *)
(***************************************************************************)
BlankKind(x) == CASE x.rrtype                 -> "STRING"
                  [] x.str \in ClassNames     -> "CLASS"
                  [] x.str \in TypeNames      -> "RRTYPE"
                  [] OTHER                    -> "STRING"

\* At a newline only the RR type test is made.
NewlineKind(x) == IF ~x.rrtype /\ x.str \in TypeNames THEN "RRTYPE" ELSE "STRING"

(***************************************************************************)
(* case " ", "\t": flush str as an owner/directive or as a string, then    *)
(* send one BLANK unless one was just sent.                               *)
(***************************************************************************)
ScanBlank(x, src) ==
  IF x.commt THEN [x EXCEPT !.escape = FALSE]
  ELSE LET flushed ==
             CASE x.str = "" -> x
               [] x.owner    -> Send(x, Tok(OwnerKind(x.str), x.str, src))
               [] OTHER      -> [Send(x, Tok(BlankKind(x), x.str, src))
                                   EXCEPT !.rrtype = x.rrtype \/ x.str \in TypeNames]
           blank == IF x.space THEN flushed ELSE Send(flushed, Tok("BLANK", " ", src))
       IN [blank EXCEPT !.escape = FALSE, !.str = "", !.owner = FALSE, !.space = TRUE]

\* case ";": an escaped or quoted semicolon is text, otherwise a comment starts.
ScanSemicolon(x) ==
  CASE x.escape -> [x EXCEPT !.escape = FALSE, !.str = @ \o ";"]
    [] x.quote  -> [x EXCEPT !.str = @ \o ";"]
    [] OTHER    -> [x EXCEPT !.commt = TRUE]

(***************************************************************************)
(* case "\n".  Ending a comment discards str and ends the record only     *)
(* outside braces.  Otherwise str is flushed (RR type test only), and the *)
(* newline is a BLANK inside braces and a NEWLINE outside.  Both paths     *)
(* reset rrtype and owner, inside braces too.                              *)
(***************************************************************************)
\* Mutant: the end of a comment sends NEWLINE inside braces too.
ScanNewlineCommentAlways(x, src) ==
  IF x.commt
  THEN [Send([x EXCEPT !.escape = FALSE, !.commt = FALSE, !.rrtype = FALSE, !.str = ""],
             Tok("NEWLINE", "\n", src)) EXCEPT !.owner = TRUE]
  ELSE LET flushed == IF x.str = "" THEN x
                      ELSE Send(x, Tok(NewlineKind(x), x.str, src))
           ended == IF x.brace > 0
                    THEN IF flushed.space
                         THEN [flushed EXCEPT !.l = Tok("BLANK", " ", src)]
                         ELSE Send(flushed, Tok("BLANK", " ", src))
                    ELSE Send(flushed, Tok("NEWLINE", "\n", src))
       IN [ended EXCEPT !.space = @ \/ x.brace > 0, !.escape = FALSE, !.str = "",
                        !.commt = FALSE, !.rrtype = FALSE, !.owner = TRUE]

ScanNewline(x, src) ==
  IF x.commt
  THEN LET y == [x EXCEPT !.escape = FALSE, !.commt = FALSE, !.rrtype = FALSE, !.str = ""]
       IN IF x.brace = 0 THEN [Send(y, Tok("NEWLINE", "\n", src)) EXCEPT !.owner = TRUE]
          ELSE y
  ELSE LET flushed == IF x.str = "" THEN x
                      ELSE Send(x, Tok(NewlineKind(x), x.str, src))
           ended == IF x.brace > 0
                    THEN IF flushed.space
                         THEN [flushed EXCEPT !.l = Tok("BLANK", " ", src)]
                         ELSE Send(flushed, Tok("BLANK", " ", src))
                    ELSE Send(flushed, Tok("NEWLINE", "\n", src))
       IN [ended EXCEPT !.space = @ \/ x.brace > 0, !.escape = FALSE, !.str = "",
                        !.commt = FALSE, !.rrtype = FALSE, !.owner = TRUE]

\* case "\\": an escaped backslash is text; otherwise it escapes the next character.
ScanBackslash(x) ==
  CASE x.commt  -> x
    [] x.escape -> [x EXCEPT !.str = @ \o "\\", !.escape = FALSE]
    [] OTHER    -> [x EXCEPT !.str = @ \o "\\", !.escape = TRUE]

\* case "\"": toggles quote; the quote itself is not kept.
ScanQuote(x) ==
  CASE x.commt  -> x
    [] x.escape -> [x EXCEPT !.str = @ \o "\"", !.escape = FALSE]
    [] OTHER    -> [x EXCEPT !.quote = ~@]

ScanOpen(x) ==
  CASE x.commt  -> x
    [] x.escape -> [x EXCEPT !.str = @ \o "(", !.escape = FALSE]
    [] OTHER    -> [x EXCEPT !.brace = @ + 1]

\* Mutant: the brace count is decremented without the underflow check.
ScanCloseUnchecked(x) ==
  CASE x.commt  -> x
    [] x.escape -> [x EXCEPT !.str = @ \o ")", !.escape = FALSE]
    [] OTHER    -> [x EXCEPT !.brace = @ - 1]

\* case ")": an unmatched brace sends the reused l with err set, and returns.
ScanClose(x) ==
  CASE x.commt        -> x
    [] x.escape       -> [x EXCEPT !.str = @ \o ")", !.escape = FALSE]
    [] x.brace - 1 < 0 -> [Send(x, [x.l EXCEPT !.err = TRUE])
                              EXCEPT !.brace = -1, !.phase = "closing"]
    [] OTHER          -> [x EXCEPT !.brace = @ - 1]

\* default: a run of ordinary characters is appended to str.
ScanWord(x, w) ==
  IF x.commt THEN x
  ELSE [x EXCEPT !.escape = FALSE, !.str = @ \o w, !.space = FALSE]

\* One Scan of a character and the switch of the loop body.
ScanAtom(x, a, src) ==
  CASE a \in Blanks -> ScanBlank(x, src)
    [] a = ";"      -> ScanSemicolon(x)
    [] a = "\n"     -> ScanNewline(x, src)
    [] a = "\\"     -> ScanBackslash(x)
    [] a = "\""     -> ScanQuote(x)
    [] a = "("      -> ScanOpen(x)
    [] a = ")"      -> ScanClose(x)
    [] OTHER        -> ScanWord(x, a)

\* End of input: send the remainder of str as a STRING; the deferred
\* close(c) follows once it has been received.
ScanEOF(x, src) ==
  LET y == IF x.str # "" THEN Send(x, Tok("STRING", x.str, src)) ELSE x
  IN [y EXCEPT !.phase = "closing"]

(***************************************************************************)
(* The input.  The file is read piece by piece; when the current piece is *)
(* used up the next is any member of Lines, up to MaxLines pieces, and    *)
(* the file may end at any piece boundary.  The records [atom, x, new,    *)
(* piece] are the possible next characters with the lexer's input         *)
(* position advanced; new tells that a piece was started, and which.      *)
(***************************************************************************)
NextInputs(x) ==
  IF x.rest # <<>>
  THEN {[atom |-> Head(x.rest), x |-> [x EXCEPT !.rest = Tail(@)], new |-> FALSE]}
  ELSE IF x.nread < MaxLines
       THEN {[atom |-> Head(p.atoms), new |-> TRUE, piece |-> p,
              x |-> [x EXCEPT !.rest = Tail(p.atoms), !.nread = @ + 1]] :
               p \in {q \in Lines : q.atoms # <<>>}}
       ELSE {}

\* The lexer may scan: it is running and its previous sends completed.
CanScan(x) == x.phase = "scan" /\ x.pend = <<>>
AtEOF(x) == x.rest = <<>>

=============================================================================
