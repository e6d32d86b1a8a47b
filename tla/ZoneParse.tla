------------------------------ MODULE ZoneParse ------------------------------
(***************************************************************************)
(* ParseZone (src/zscan.go) with everything it sets in motion: the parser *)
(* goroutine running parseZone, one zlexer goroutine per file it reads    *)
(* (the zone and every $INCLUDEd file), the rdata readers of setRR        *)
(* (src/dns.go), and the caller that receives from the returned channel t.*)
(*                                                                         *)
(*   lexers     the zlexer goroutines, in the order they were started; a  *)
(*              lexer's pend holds what it is blocked sending on its c    *)
(*   frames     the stack of parseZone calls of the parser goroutine: a   *)
(*              nested $INCLUDE is a plain recursive call, so only the    *)
(*              top frame runs; each frame reads its own lexer's channel  *)
(*   ppc        the parser goroutine: "run", blocked in "send" on t,      *)
(*              "return" after an error was sent, or "done" once the      *)
(*              outermost parseZone has returned                          *)
(*   tslot      the Token being sent on t, and whether the frame returns  *)
(*              after the send (the error paths) or reads on (an RR)      *)
(*   tclosed    the deferred close(t) of the outermost call has run       *)
(*   delivered  the Tokens the caller has received, in order              *)
(*   cpc        the caller: receiving, or gone                            *)
(*   fds        files opened by $INCLUDE and not closed                   *)
(*   chosen     (ghost) the input pieces each lexer has read, for the     *)
(*              properties                                                *)
(***************************************************************************)
EXTENDS ZoneLexer, DomainName, FiniteSets

CONSTANTS
  DefaultTtl,    \* the package constant DefaultTtl (3600)
  MaxInclude,    \* the nesting limit of parseZone's "include + 1 > 7" (7)
  IncludeFiles,  \* the $INCLUDE names os.Open opens; any other name fails
  MaxIncludes,   \* bound: $INCLUDE lines in one run, over all files
  Consumer       \* "range": the caller ranges over t; "first": ReadRR

VARIABLES lexers, frames, ppc, tslot, tclosed, delivered, cpc, fds, chosen
vars == <<lexers, frames, ppc, tslot, tclosed, delivered, cpc, fds, chosen>>

\* The Token values sent on t: an RR, or a *ParseError (kind "err").
Item(kind, msg, h, names, text, f) ==
  [kind |-> kind, msg |-> msg, name |-> h.name, rrtype |-> h.rrtype,
   class |-> h.class, ttl |-> h.ttl, names |-> names, text |-> text,
   lex |-> f.lex, src |-> f.osrc]

NoReader == [ops |-> <<>>, end |-> "none", stage |-> "none", names |-> <<>>, text |-> "",
             held |-> ""]
ZeroHeader == [name |-> "", rrtype |-> "", class |-> "", ttl |-> 0]

\* A new parseZone call: st, h, defttl and origin are its locals.
NewFrame(lexId, depth) ==
  [st |-> "OWNER_DIR", h |-> ZeroHeader, defttl |-> DefaultTtl, origin |-> ".",
   lex |-> lexId, depth |-> depth, rd |-> NoReader, osrc |-> 0]

Init ==
  /\ lexers = <<LexInit>>
  /\ frames = <<NewFrame(1, 0)>>
  /\ ppc = "run"
  /\ tslot = [item |-> Item("none", "", ZeroHeader, <<>>, "", NewFrame(1, 0)), ret |-> FALSE]
  /\ tclosed = FALSE
  /\ delivered = <<>>
  /\ cpc = "recv"
  /\ fds = 0
  /\ chosen = <<<<>>>>

Top == frames[Len(frames)]
-----------------------------------------------------------------------------
(***************************************************************************)
(* The lexer goroutines.  A lexer scans only while its earlier sends have *)
(* completed; the input pieces it may start are limited by MaxIncludes.   *)
(***************************************************************************)
IncludesChosen ==
  Cardinality({<<i, k>> \in (DOMAIN chosen) \X (1..MaxLines) :
                 k <= Len(chosen[i]) /\ chosen[i][k].kind = "include"})

Allowed(n) == n.new => (n.piece.kind = "include" => IncludesChosen < MaxIncludes)

LexScan(i) ==
  /\ CanScan(lexers[i])
  /\ \E n \in NextInputs(lexers[i]) :
       /\ Allowed(n)
       /\ lexers' = [lexers EXCEPT ![i] = ScanAtom(n.x, n.atom, n.x.nread)]
       /\ chosen' = IF n.new THEN [chosen EXCEPT ![i] = Append(@, n.piece)] ELSE chosen
  /\ UNCHANGED <<frames, ppc, tslot, tclosed, delivered, cpc, fds>>

LexEnd(i) ==
  /\ CanScan(lexers[i]) /\ AtEOF(lexers[i])
  /\ lexers' = [lexers EXCEPT ![i] = ScanEOF(@, @.nread)]
  /\ UNCHANGED <<frames, ppc, tslot, tclosed, delivered, cpc, fds, chosen>>

\* The deferred close(c) after the lexer's last send.
LexClose(i) ==
  /\ lexers[i].phase = "closing" /\ lexers[i].pend = <<>>
  /\ lexers' = [lexers EXCEPT ![i].phase = "closed"]
  /\ UNCHANGED <<frames, ppc, tslot, tclosed, delivered, cpc, fds, chosen>>
-----------------------------------------------------------------------------
(***************************************************************************)
(* Receiving on the top frame's channel c.  Recv is l := <-c: the token a *)
(* lexer is sending, or the zero lex once c is closed; Ranged is the      *)
(* "for l := range c" of the main loop, which ends instead on a closed c. *)
(***************************************************************************)
Recv(f) ==
  LET x == lexers[f.lex] IN
  IF x.pend # <<>>
  THEN {[tok |-> Head(x.pend), lexers |-> [lexers EXCEPT ![f.lex].pend = Tail(@)]]}
  ELSE IF x.phase = "closed" THEN {[tok |-> ZeroLex, lexers |-> lexers]} ELSE {}

Ranged(f) == IF lexers[f.lex].pend # <<>> THEN Recv(f) ELSE {}

\* Replace the top frame by g and go on reading.
Continue(g, lx2) ==
  /\ frames' = [frames EXCEPT ![Len(frames)] = g]
  /\ lexers' = lx2
  /\ UNCHANGED <<ppc, tslot>>

\* t <- Token{...}: block on t with item; an error path returns after it.
SendT(g, lx2, item, ret) ==
  /\ frames' = [frames EXCEPT ![Len(frames)] = g]
  /\ lexers' = lx2
  /\ ppc' = "send"
  /\ tslot' = [item |-> item, ret |-> ret]

Fail(f, lx2, msg) == SendT(f, lx2, Item("err", msg, f.h, <<>>, "", f), TRUE)

ClosesT(f) == f.depth = 0

(***************************************************************************)
(* parseZone returns: the caller of a nested call sets st to               *)
(* _EXPECT_OWNER_DIR and reads on; the outermost call closes t and the    *)
(* parser goroutine ends.                                                  *)
(***************************************************************************)
Return ==
  LET rest == SubSeq(frames, 1, Len(frames) - 1) IN
  /\ frames' = IF rest = <<>> THEN <<>> ELSE [rest EXCEPT ![Len(rest)].st = "OWNER_DIR"]
  /\ tclosed' = (tclosed \/ ClosesT(Top))
  /\ ppc' = IF rest = <<>> THEN "done" ELSE "run"

\* The main loop is running in the top frame (not inside setRR).
InMainLoop(st) == ppc = "run" /\ Top.rd.end = "none" /\ Top.st \in st

(***************************************************************************)
(* stringToTtl: uint32(Atoi(token)).  TLC's integers are 32-bit signed, so *)
(* a TTL is kept as the int32 with the uint32's bits: a negative value v  *)
(* stands for v + 2^32, which is exactly what uint32 of a negative Go int *)
(* of that size gives.  The tokens of the models are short enough for     *)
(* Atoi never to exceed 32 bits.                                            *)
(***************************************************************************)
StringToTtl(l) == Atoi(l.text)

\* A name that is not fully qualified gets the current origin appended.
Qualified(name, origin) == IF IsFqdn(name) THEN name ELSE name \o origin
-----------------------------------------------------------------------------
(***************************************************************************)
(* The cases of the switch on st, each for a token l already received.    *)
(***************************************************************************)
\* Mutant: h.Ttl is not reset to defttl at the start of a line.
OwnerDirNoReset(f, l, lx2) ==
  LET g == [f EXCEPT !.h.class = "IN"] IN
  CASE l.kind = "NEWLINE"    -> Continue(g, lx2)
    [] l.kind = "OWNER"      ->
         IF ~IsDomainName(l.text) THEN Fail(g, lx2, "bad owner name")
         ELSE Continue([g EXCEPT !.h.name = Qualified(l.text, f.origin),
                                 !.st = "OWNER_BL", !.osrc = l.src], lx2)
    [] l.kind = "DIRTTL"     -> Continue([g EXCEPT !.st = "DIRTTL_BL"], lx2)
    [] l.kind = "DIRORIGIN"  -> Continue([g EXCEPT !.st = "DIRORIGIN_BL"], lx2)
    [] l.kind = "DIRINCLUDE" -> Continue([g EXCEPT !.st = "DIRINCLUDE_BL"], lx2)
    [] OTHER                 -> Fail(g, lx2, "Error at the start")

OwnerDir(f, l, lx2) ==
  LET g == [f EXCEPT !.h.ttl = f.defttl, !.h.class = "IN"] IN
  CASE l.kind = "NEWLINE"    -> Continue(g, lx2)
    [] l.kind = "OWNER"      ->
         IF ~IsDomainName(l.text) THEN Fail(g, lx2, "bad owner name")
         ELSE Continue([g EXCEPT !.h.name = Qualified(l.text, f.origin),
                                 !.st = "OWNER_BL", !.osrc = l.src], lx2)
    [] l.kind = "DIRTTL"     -> Continue([g EXCEPT !.st = "DIRTTL_BL"], lx2)
    [] l.kind = "DIRORIGIN"  -> Continue([g EXCEPT !.st = "DIRORIGIN_BL"], lx2)
    [] l.kind = "DIRINCLUDE" -> Continue([g EXCEPT !.st = "DIRINCLUDE_BL"], lx2)
    [] OTHER                 -> Fail(g, lx2, "Error at the start")

\* The states that expect a BLANK, and where each goes on it.
AfterBlank == [OWNER_BL |-> "ANY", ANY_NOCLASS_BL |-> "ANY_NOCLASS",
               ANY_NOTTL_BL |-> "ANY_NOTTL", RRTYPE_BL |-> "RRTYPE",
               DIRTTL_BL |-> "DIRTTL", DIRORIGIN_BL |-> "DIRORIGIN",
               DIRINCLUDE_BL |-> "DIRINCLUDE"]

ExpectBlank(f, l, lx2) ==
  IF l.kind # "BLANK" THEN Fail(f, lx2, "No blank")
  ELSE Continue([f EXCEPT !.st = AfterBlank[f.st]], lx2)

Any(f, l, lx2) ==
  CASE l.kind = "RRTYPE" -> Continue([f EXCEPT !.h.rrtype = l.text, !.st = "RDATA"], lx2)
    [] l.kind = "CLASS"  -> Continue([f EXCEPT !.h.class = l.text, !.st = "ANY_NOCLASS_BL"], lx2)
    [] l.kind = "STRING" ->
         IF ~IsAtoi(l.text) THEN Fail(f, lx2, "Not a TTL")
         ELSE Continue([f EXCEPT !.h.ttl = StringToTtl(l), !.st = "ANY_NOTTL_BL"], lx2)
    [] OTHER -> Fail(f, lx2, "Expecting RR type, TTL or class")

AnyNoClass(f, l, lx2) ==
  CASE l.kind = "STRING" ->
         IF ~IsAtoi(l.text) THEN Fail(f, lx2, "Not a TTL")
         ELSE Continue([f EXCEPT !.h.ttl = StringToTtl(l), !.st = "RRTYPE_BL"], lx2)
    [] l.kind = "RRTYPE" -> Continue([f EXCEPT !.h.rrtype = l.text, !.st = "RDATA"], lx2)
    [] OTHER -> Fail(f, lx2, "Expecting RR type or TTL")

\* _EXPECT_ANY_NOTTL has no default case: any other token is ignored.
AnyNoTtl(f, l, lx2) ==
  CASE l.kind = "CLASS"  -> Continue([f EXCEPT !.h.class = l.text, !.st = "RRTYPE_BL"], lx2)
    [] l.kind = "RRTYPE" -> Continue([f EXCEPT !.h.rrtype = l.text, !.st = "RDATA"], lx2)
    [] OTHER             -> Continue(f, lx2)

RRType(f, l, lx2) ==
  IF l.kind # "RRTYPE" THEN Fail(f, lx2, "Unknown RR type")
  ELSE Continue([f EXCEPT !.h.rrtype = l.text, !.st = "RDATA"], lx2)

DirTtl(f, l, lx2) ==
  CASE l.kind # "STRING" -> Fail(f, lx2, "Expecting $TTL value")
    [] ~IsAtoi(l.text)   -> Fail(f, lx2, "Not a TTL")
    [] OTHER             -> Continue([f EXCEPT !.defttl = StringToTtl(l), !.st = "OWNER_DIR"], lx2)

\* The $ORIGIN value updates origin; st is left at _EXPECT_DIRORIGIN.
DirOrigin(f, l, lx2) ==
  IF l.kind # "STRING" THEN Fail(f, lx2, "Expecting $ORIGIN value")
  ELSE Continue([f EXCEPT !.origin = Qualified(l.text, f.origin)], lx2)
-----------------------------------------------------------------------------
(***************************************************************************)
(* setRR: the rdata reader of each type, as the fields it reads one token *)
(* at a time and how it ends.  A field is checked as its set* function    *)
(* checks it: "num" strconv.Atoi, "name" IsDomainName (then qualified     *)
(* with the origin), "ip" net.ParseIP, "type" Str_rr, "date" dateToTime;  *)
(* "skip" is a bare <-c (meant for a BLANK, whatever it is) and "any" a   *)
(* field taken unchecked.  setSOA reads the mname, then the BLANK, and   *)
(* only then checks the mname: "held" keeps it, "check" checks it.       *)
(* The fixed-arity types end in slurpRemainder;                           *)
(* the others read on to NEWLINE or EOF themselves.                       *)
(***************************************************************************)
ReaderOps(t) ==
  CASE t \in {"A", "AAAA"}     -> <<"ip">>
    [] t \in {"NS", "CNAME"}   -> <<"name">>
    [] t = "MX"                -> <<"num", "skip", "name">>
    [] t = "SOA"               -> <<"held", "check", "name", "skip", "num", "skip", "num",
                                    "skip", "num", "skip", "num", "skip", "num">>
    [] t = "SSHFP"             -> <<"num", "skip", "num", "skip", "any">>
    [] t \in {"DNSKEY", "DS"}  -> <<"num", "skip", "num", "skip", "num">>
    [] t = "RRSIG"             -> <<"type", "skip", "num", "skip", "num", "skip", "num",
                                    "skip", "date", "skip", "date", "skip", "num", "skip", "name">>
    [] t = "NSEC"              -> <<"name">>
    [] t = "NSEC3"             -> <<"num", "skip", "num", "skip", "num", "skip", "any",
                                    "skip", "name">>
    [] OTHER                   -> <<>>

ReaderEnd(t) ==
  CASE t \in {"A", "AAAA", "NS", "CNAME", "MX", "SOA", "SSHFP"} -> "slurp"
    [] t \in {"DNSKEY", "RRSIG", "DS"}                          -> "tail"
    [] t \in {"NSEC", "NSEC3"}                                  -> "bitmap"
    [] t = "TXT"                                                -> "txt"
    [] OTHER                                                    -> "none"

\* dateToTime: seconds since the epoch or YYYYMMDDHHMMSS, both all digits.
DateToTime(s) == AllDigits(s)

\* net.ParseIP on the dotted-quad form: four decimal fields of at most 255.
RECURSIVE DotFields(_, _)
DotFields(s, acc) ==
  IF Len(s) = 0 THEN Append(acc, "")
  ELSE LET i == CHOOSE k \in 1..Len(s) + 1 :
                  /\ (k <= Len(s) => Char(s, k) = ".")
                  /\ \A j \in 1..k - 1 : Char(s, j) # "."
       IN IF i > Len(s) THEN Append(acc, s)
          ELSE DotFields(SubSeq(s, i + 1, Len(s)), Append(acc, SubSeq(s, 1, i - 1)))

ParseIP(s) ==
  LET fs == DotFields(s, <<>>) IN
  /\ Len(fs) = 4
  /\ \A k \in 1..4 : AllDigits(fs[k]) /\ Len(fs[k]) <= 3 /\ DigitsValue(fs[k]) <= 255

\* Mutant: the strconv.Atoi error of a numeric field is ignored.
FieldOkNoNum(op, l, origin) ==
  CASE op = "name" -> IsDomainName(l.text)
    [] op = "ip"   -> ParseIP(l.text)
    [] op = "type" -> l.text \in TypeNames
    [] op = "date" -> DateToTime(l.text)
    [] OTHER       -> TRUE

FieldOk(op, l, origin) ==
  CASE op = "num"  -> IsAtoi(l.text)
    [] op = "name" -> IsDomainName(l.text)
    [] op = "ip"   -> ParseIP(l.text)
    [] op = "type" -> l.text \in TypeNames
    [] op = "date" -> DateToTime(l.text)
    [] OTHER       -> TRUE

\* An RR is sent; the loop goes on at _EXPECT_OWNER_DIR.
EmitRR(f, lx2) ==
  SendT([f EXCEPT !.st = "OWNER_DIR", !.rd = NoReader], lx2,
        Item("rr", "", f.h, f.rd.names, f.rd.text, f), FALSE)

\* _EXPECT_RDATA: the token l is dropped and setRR dispatches on the type.
Rdata(f, l, lx2) ==
  LET t == f.h.rrtype IN
  IF ReaderEnd(t) = "none" THEN Fail(f, lx2, "Unknown RR type")
  ELSE Continue([f EXCEPT !.rd = [ops |-> ReaderOps(t), end |-> ReaderEnd(t),
                                  stage |-> IF ReaderOps(t) = <<>> THEN "end" ELSE "ops",
                                  names |-> <<>>, text |-> "", held |-> ""]], lx2)

\* One field of a set* function.

Field(f, l, lx2) ==
  LET op   == Head(f.rd.ops)
      name == IF op = "check" THEN f.rd.held ELSE l.text
      g    == [f EXCEPT !.rd.ops = Tail(@), !.rd.stage = IF Len(f.rd.ops) = 1 THEN "end" ELSE "ops",
                        !.rd.held = IF op = "held" THEN l.text ELSE @,
                        !.rd.names = IF op \in {"name", "check"}
                                     THEN Append(@, Qualified(name, f.origin)) ELSE @]
  IN CASE op = "check" -> IF IsDomainName(name) THEN Continue(g, lx2)
                          ELSE Fail(f, lx2, "bad rdata")
       [] op = "held"  -> Continue(g, lx2)
       [] OTHER        -> IF FieldOk(op, l, f.origin) THEN Continue(g, lx2)
                          ELSE Fail(f, lx2, "bad rdata")

\* slurpRemainder: an optional BLANK, then NEWLINE or EOF.
Slurp(f, l, lx2) ==
  CASE l.kind \in {"NEWLINE", "EOF"}          -> EmitRR(f, lx2)
    [] l.kind = "BLANK" /\ f.rd.stage = "end" -> Continue([f EXCEPT !.rd.stage = "blank"], lx2)
    [] OTHER                                  -> Fail(f, lx2, "garbage after rdata")

\* Mutant: the loop ends at NEWLINE or EOF without sending the RR.
TailTokenNoSend(f, l, lx2) ==
  LET e == f.rd.end IN
  CASE l.kind \in {"NEWLINE", "EOF"} -> Continue([f EXCEPT !.st = "OWNER_DIR", !.rd = NoReader], lx2)
    [] l.kind = "BLANK" /\ e = "txt" -> Continue([f EXCEPT !.rd.text = @ \o l.text], lx2)
    [] l.kind = "BLANK"              -> Continue(f, lx2)
    [] l.kind = "STRING" /\ e \in {"tail", "txt"} ->
         Continue([f EXCEPT !.rd.text = @ \o l.text], lx2)
    [] l.kind = "STRING" /\ e = "bitmap" /\ l.text \in TypeNames -> Continue(f, lx2)
    [] OTHER -> Fail(f, lx2, "bad rdata")

\* The loops of the variable-length readers, up to NEWLINE or EOF.
TailToken(f, l, lx2) ==
  LET e == f.rd.end IN
  CASE l.kind \in {"NEWLINE", "EOF"} -> EmitRR(f, lx2)
    [] l.kind = "BLANK" /\ e = "txt" -> Continue([f EXCEPT !.rd.text = @ \o l.text], lx2)
    [] l.kind = "BLANK"              -> Continue(f, lx2)
    [] l.kind = "STRING" /\ e \in {"tail", "txt"} ->
         Continue([f EXCEPT !.rd.text = @ \o l.text], lx2)
    [] l.kind = "STRING" /\ e = "bitmap" /\ l.text \in TypeNames -> Continue(f, lx2)
    [] OTHER -> Fail(f, lx2, "bad rdata")
-----------------------------------------------------------------------------
(***************************************************************************)
(* The parser goroutine's actions: one per case of the switch on st, the  *)
(* lexer's error, the $INCLUDE call, the steps of setRR, and the end of   *)
(* the range loop.                                                         *)
(***************************************************************************)
MainStates == {"OWNER_DIR", "ANY", "ANY_NOCLASS", "ANY_NOTTL", "RRTYPE", "DIRTTL",
               "DIRORIGIN", "DIRINCLUDE", "RDATA"} \cup DOMAIN AfterBlank

ParserFrame == <<tclosed, delivered, cpc, fds, chosen>>

\* The lexer spotted an error already: l.err is set.
ParseLexError ==
  /\ InMainLoop(MainStates)
  /\ \E r \in Ranged(Top) : r.tok.err /\ Fail(Top, r.lexers, r.tok.text)
  /\ UNCHANGED ParserFrame

ParseOwnerDir ==
  /\ InMainLoop({"OWNER_DIR"})
  /\ \E r \in Ranged(Top) : ~r.tok.err /\ OwnerDir(Top, r.tok, r.lexers)
  /\ UNCHANGED ParserFrame

ParseBlank ==
  /\ InMainLoop(DOMAIN AfterBlank)
  /\ \E r \in Ranged(Top) : ~r.tok.err /\ ExpectBlank(Top, r.tok, r.lexers)
  /\ UNCHANGED ParserFrame

ParseAny ==
  /\ InMainLoop({"ANY"})
  /\ \E r \in Ranged(Top) : ~r.tok.err /\ Any(Top, r.tok, r.lexers)
  /\ UNCHANGED ParserFrame

ParseAnyNoClass ==
  /\ InMainLoop({"ANY_NOCLASS"})
  /\ \E r \in Ranged(Top) : ~r.tok.err /\ AnyNoClass(Top, r.tok, r.lexers)
  /\ UNCHANGED ParserFrame

ParseAnyNoTtl ==
  /\ InMainLoop({"ANY_NOTTL"})
  /\ \E r \in Ranged(Top) : ~r.tok.err /\ AnyNoTtl(Top, r.tok, r.lexers)
  /\ UNCHANGED ParserFrame

ParseRRType ==
  /\ InMainLoop({"RRTYPE"})
  /\ \E r \in Ranged(Top) : ~r.tok.err /\ RRType(Top, r.tok, r.lexers)
  /\ UNCHANGED ParserFrame

ParseDirTtl ==
  /\ InMainLoop({"DIRTTL"})
  /\ \E r \in Ranged(Top) : ~r.tok.err /\ DirTtl(Top, r.tok, r.lexers)
  /\ UNCHANGED ParserFrame

ParseDirOrigin ==
  /\ InMainLoop({"DIRORIGIN"})
  /\ \E r \in Ranged(Top) : ~r.tok.err /\ DirOrigin(Top, r.tok, r.lexers)
  /\ UNCHANGED ParserFrame

ParseRdata ==
  /\ InMainLoop({"RDATA"})
  /\ \E r \in Ranged(Top) : ~r.tok.err /\ Rdata(Top, r.tok, r.lexers)
  /\ UNCHANGED ParserFrame

(***************************************************************************)
(* Default TTL the spec gives piece k of lexer i's file: the value of the *)
(* last $TTL piece before it, else the default inherited by the file.     *)
(***************************************************************************)
\* Mutant: the limit is tested one level late.
TooDeepLate(include) == include > MaxInclude

\* The nesting check "include + 1 > 7", made after the file is opened.
TooDeep(include) == include + 1 > MaxInclude

RECURSIVE LastTtl(_, _, _)
LastTtl(s, k, dflt) ==
  IF k = 0 THEN dflt
  ELSE IF s[k].kind = "ttl" THEN s[k].ttl ELSE LastTtl(s, k - 1, dflt)

(***************************************************************************)
(* _EXPECT_DIRINCLUDE: os.Open the file, check the depth, and call        *)
(* parseZone on it with include+1; that call starts a new lexer.  The     *)
(* opened file is never closed.                                            *)
(***************************************************************************)
ParseDirInclude ==
  /\ InMainLoop({"DIRINCLUDE"})
  /\ \E r \in Ranged(Top) :
       LET l == r.tok IN
       /\ ~l.err
       /\ CASE l.kind # "STRING" ->
                 Fail(Top, r.lexers, "Expecting $INCLUDE value") /\ UNCHANGED <<fds, chosen>>
            [] l.text \notin IncludeFiles ->
                 Fail(Top, r.lexers, "Failed to open") /\ UNCHANGED <<fds, chosen>>
            [] TooDeep(Top.depth) ->
                 Fail(Top, r.lexers, "Too deeply nested $INCLUDE")
                 /\ fds' = fds + 1 /\ UNCHANGED chosen
            [] OTHER ->
                 /\ fds' = fds + 1
                 /\ lexers' = Append(r.lexers, LexInit)
                 /\ frames' = Append(frames, NewFrame(Len(lexers) + 1, Top.depth + 1))
                 /\ chosen' = Append(chosen, <<>>)
                 /\ UNCHANGED <<ppc, tslot>>
  /\ UNCHANGED <<tclosed, delivered, cpc>>

\* A field of the reader, by a bare <-c.
ReadField ==
  /\ ppc = "run" /\ Top.rd.stage = "ops"
  /\ \E r \in Recv(Top) : Field(Top, r.tok, r.lexers)
  /\ UNCHANGED ParserFrame

ReadSlurp ==
  /\ ppc = "run" /\ Top.rd.end = "slurp" /\ Top.rd.stage \in {"end", "blank"}
  /\ \E r \in Recv(Top) : Slurp(Top, r.tok, r.lexers)
  /\ UNCHANGED ParserFrame

ReadTail ==
  /\ ppc = "run" /\ Top.rd.end \in {"tail", "txt", "bitmap"} /\ Top.rd.stage = "end"
  /\ \E r \in Recv(Top) : TailToken(Top, r.tok, r.lexers)
  /\ UNCHANGED ParserFrame

\* "for l := range c" ends: the lexer closed c; parseZone returns.
ParseEnd ==
  /\ InMainLoop(MainStates)
  /\ lexers[Top.lex].phase = "closed" /\ lexers[Top.lex].pend = <<>>
  /\ Return
  /\ UNCHANGED <<lexers, tslot, delivered, cpc, fds, chosen>>
-----------------------------------------------------------------------------
(***************************************************************************)
(* The caller receives the Token being sent on t; the parser then either  *)
(* reads on or returns.  ReadRR receives once and drops the channel.      *)
(***************************************************************************)
Deliver ==
  /\ ppc = "send" /\ cpc = "recv"
  /\ delivered' = Append(delivered, tslot.item)
  /\ cpc' = IF Consumer = "first" THEN "done" ELSE "recv"
  /\ ppc' = IF tslot.ret THEN "return" ELSE "run"
  /\ UNCHANGED <<lexers, frames, tslot, tclosed, fds, chosen>>

\* The "return" after an error was sent: the frame is popped.
ParseReturn ==
  /\ ppc = "return"
  /\ Return
  /\ UNCHANGED <<lexers, tslot, delivered, cpc, fds, chosen>>

\* The range over t ends, or ReadRR gets the zero Token, once t is closed.
ConsumerEnd ==
  /\ cpc = "recv" /\ tclosed
  /\ cpc' = "done"
  /\ UNCHANGED <<lexers, frames, ppc, tslot, tclosed, delivered, fds, chosen>>

LexerIds == 1..MaxIncludes + 1

Lexer(i) == i \in DOMAIN lexers /\ (LexScan(i) \/ LexEnd(i) \/ LexClose(i))

ParserStep ==
  \/ ParseLexError \/ ParseOwnerDir \/ ParseBlank \/ ParseAny \/ ParseAnyNoClass
  \/ ParseAnyNoTtl \/ ParseRRType \/ ParseDirTtl \/ ParseDirOrigin \/ ParseDirInclude
  \/ ParseRdata \/ ReadField \/ ReadSlurp \/ ReadTail \/ ParseEnd \/ ParseReturn

Next ==
  \/ \E i \in LexerIds : Lexer(i)
  \/ ParserStep
  \/ Deliver
  \/ ConsumerEnd

(***************************************************************************)
(* Every goroutine that can run eventually runs: the Go scheduler runs    *)
(* each runnable goroutine, and a blocked send or receive completes once   *)
(* its partner is there, so each process is weakly fair.                   *)
(***************************************************************************)
Fairness ==
  /\ \A i \in LexerIds : WF_vars(Lexer(i))
  /\ WF_vars(ParserStep)
  /\ WF_vars(Deliver)
  /\ WF_vars(ConsumerEnd)

Spec == Init /\ [][Next]_vars /\ Fairness
-----------------------------------------------------------------------------
ItemType == [kind : {"rr", "err", "none"}, msg : STRING, name : STRING, rrtype : STRING,
             class : STRING, ttl : Int, names : Seq(STRING), text : STRING,
             lex : Nat, src : Nat]

TypeOK ==
  /\ \A i \in DOMAIN lexers :
       /\ lexers[i].phase \in {"scan", "closing", "closed"}
       /\ lexers[i].brace \in -1..MaxLines
       /\ lexers[i].phase = "scan" => lexers[i].brace >= 0
       /\ lexers[i].str \in STRING
  /\ \A k \in DOMAIN frames :
       /\ frames[k].st \in MainStates
       /\ frames[k].depth \in Nat
       /\ frames[k].lex \in DOMAIN lexers
       /\ frames[k].rd.end \in {"none", "slurp", "tail", "bitmap", "txt"}
  /\ ppc \in {"run", "send", "return", "done"}
  /\ tslot.item \in ItemType /\ tslot.ret \in BOOLEAN
  /\ tclosed \in BOOLEAN
  /\ delivered \in Seq(ItemType)
  /\ cpc \in {"recv", "done"}
  /\ fds \in Nat
  /\ DOMAIN chosen = DOMAIN lexers

\* The input piece an RR was read from: the piece its owner token came from.
PieceOf(it) == chosen[it.lex][it.src]

AllPiecesWellFormed == \A i \in DOMAIN chosen : \A k \in DOMAIN chosen[i] : chosen[i][k].wf

(***************************************************************************)
(* Every RR the caller receives was read from a well-formed record line   *)
(* of its file.  The lexer, the state machine of parseZone and the setRR  *)
(* readers must together reject a line with bad rdata rather than send an *)
(* RR for it.                                                              *)
(***************************************************************************)
AcceptedFromRecords ==
  \A k \in DOMAIN delivered :
    delivered[k].kind = "rr" => PieceOf(delivered[k]).kind = "rr" /\ PieceOf(delivered[k]).wf

(***************************************************************************)
(* The converse of AcceptedFromRecords (spec 8.2): once t is closed with  *)
(* no error sent, every well-formed record line that a lexer read has     *)
(* become an RR, sent from its own file and line.  Each reader must end   *)
(* its record with a send on t, whether it stops at NEWLINE or at EOF,    *)
(* and an $INCLUDE must hand back to the including file's next line.      *)
(***************************************************************************)
RecordsDelivered ==
  (tclosed /\ \A k \in DOMAIN delivered : delivered[k].kind # "err") =>
    \A i \in DOMAIN chosen : \A k \in DOMAIN chosen[i] :
      chosen[i][k].kind = "rr" /\ chosen[i][k].wf =>
        \E j \in DOMAIN delivered : delivered[j].lex = i /\ delivered[j].src = k

(***************************************************************************)
(* The TTL of every RR sent is the one its line gives, else the value of  *)
(* the last $TTL line before it in the same file, else DefaultTtl: h.Ttl   *)
(* is reset to defttl at the start of every line of parseZone's loop, and *)
(* each parseZone call (each file) starts from DefaultTtl.                 *)
(***************************************************************************)
TtlPerFile ==
  \A k \in DOMAIN delivered :
    LET it == delivered[k] IN
    it.kind = "rr" =>
      it.ttl = IF PieceOf(it).ttl # -1 THEN PieceOf(it).ttl
               ELSE LastTtl(chosen[it.lex], it.src - 1, DefaultTtl)

(***************************************************************************)
(* A zone made only of well-formed lines (records and $TTL, $ORIGIN and   *)
(* $INCLUDE directives) yields no error.  parseZone leaves st at          *)
(* _EXPECT_DIRORIGIN after the $ORIGIN value, so the NEWLINE that ends    *)
(* the directive is rejected.                                              *)
(***************************************************************************)
WellFormedAccepted ==
  AllPiecesWellFormed => \A k \in DOMAIN delivered : delivered[k].kind # "err"

(***************************************************************************)
(* ParseZone implements the stream its comment promises (module Stream):  *)
(* the caller's received Tokens only grow, none arrives after close(t),   *)
(* and t is closed eventually.  A nested parseZone that closed t would    *)
(* make the including file's next send break the first promise; a lexer  *)
(* that never closed c would break the last.                               *)
(***************************************************************************)
AbstractStream == INSTANCE Stream WITH items <- delivered, closed <- tclosed, Items <- ItemType

RefusingInclude ==
  ppc = "send" /\ tslot.item.kind = "err" /\ tslot.item.msg = "Too deeply nested $INCLUDE"

(***************************************************************************)
(* The $INCLUDE nesting limit is exact (spec S6: eight nested $INCLUDEs   *)
(* give the error at the eighth): no parseZone call is nested deeper than *)
(* MaxInclude, and an $INCLUDE is refused only by a call nested exactly    *)
(* MaxInclude deep, so every shallower one is followed.  The check comes  *)
(* after os.Open and compares include + 1 with 7 (zscan.go:197): a limit *)
(* one too high breaks the first half, one too low the second.            *)
(***************************************************************************)
IncludeRefusedAtLimit ==
  /\ \A k \in DOMAIN frames : frames[k].depth <= MaxInclude
  /\ RefusingInclude => Top.depth = MaxInclude

(***************************************************************************)
(* Every goroutine ParseZone starts ends: the parser and each lexer.  A   *)
(* parseZone that returns on an error stops receiving from its lexer's c, *)
(* which stays blocked in its send.                                        *)
(***************************************************************************)
AllGoroutinesExit ==
  <>(ppc = "done" /\ \A i \in DOMAIN lexers : lexers[i].phase = "closed")
=============================================================================
