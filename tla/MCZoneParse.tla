---------------------------- MODULE MCZoneParse ----------------------------
(***************************************************************************)
(* Models of ZoneParse for TLC.  Each input piece is one line of a zone   *)
(* file, split into the lexer's atoms, with what the line is for the      *)
(* properties: its kind, its explicit TTL (-1 if none; the value for a     *)
(* $TTL line) and whether it is well formed.                               *)
(***************************************************************************)
EXTENDS ZoneParse

MCTypeNames  == {"A", "MX", "TXT", "NS"}
MCClassNames == {"IN"}

P(atoms, kind, ttl, wf) == [atoms |-> atoms, kind |-> kind, ttl |-> ttl, wf |-> wf]

\* x. A 1.2.3.4
LineA      == P(<<"x.", " ", "A", " ", "1.2.3.4", "\n">>, "rr", -1, TRUE)
\* y 1 IN MX 1 x.
LineMX     == P(<<"y", " ", "1", " ", "IN", " ", "MX", " ", "1", " ", "x.", "\n">>, "rr", 1, TRUE)
\* z IN 2 NS x.
LineNS     == P(<<"z", " ", "IN", " ", "2", " ", "NS", " ", "x.", "\n">>, "rr", 2, TRUE)
\* x. TXT "a;b"
LineTXT    == P(<<"x.", " ", "TXT", " ", "\"", "a", ";", "b", "\"", "\n">>, "rr", -1, TRUE)
\* $TTL 7
LineTTL    == P(<<"$TTL", " ", "7", "\n">>, "ttl", 7, TRUE)
\* $INCLUDE f
LineInc    == P(<<"$INCLUDE", " ", "f", "\n">>, "include", -1, TRUE)
\* $ORIGIN x
LineOrigin == P(<<"$ORIGIN", " ", "x", "\n">>, "origin", -1, TRUE)
\* x. MX y x.   (the preference is not a number)
LineBad    == P(<<"x.", " ", "MX", " ", "y", " ", "x.", "\n">>, "bad", -1, FALSE)

\* x. )   (the lexer flags the unmatched brace)
LineBrace  == P(<<"x.", " ", ")", "\n">>, "bad", -1, FALSE)

\* x. TXT a )   (the lexer flags the unmatched brace inside the rdata)
LineTxtBrace == P(<<"x.", " ", "TXT", " ", "a", " ", ")", "\n">>, "bad", -1, FALSE)

\* x. -7 A 1.2.3.4   (a negative TTL: Atoi accepts it, uint32 wraps it)
LineNegTtl == P(<<"x.", " ", "-7", " ", "A", " ", "1.2.3.4", "\n">>, "rr", -7, FALSE)

MCLines == {LineA, LineMX, LineNS, LineTXT, LineTTL, LineInc, LineOrigin, LineBad, LineBrace}
MCIncludeFiles == {"f"}

\* A file that includes itself: every file is one $INCLUDE f line or one
\* record, so the nesting grows until the limit stops it.
MCDepthLines == {LineInc, LineA}

\* x. A (1.2.3.4   (a brace still open when the file ends)
LineOpen   == P(<<"x.", " ", "A", " ", "(", "1.2.3.4", "\n">>, "rr", -1, FALSE)

\* Bad records beside a good one: rdata holding an unmatched brace, a TTL
\* out of the spec's range, and a brace left open at the end of the file.
MCBadRecordLines == {LineTxtBrace, LineNegTtl, LineOpen, LineA}
=============================================================================
