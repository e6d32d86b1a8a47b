---------------------------- MODULE MCZoneLexer ----------------------------
(***************************************************************************)
(* The lexer on every input of up to MCMaxAtoms characters over an       *)
(* alphabet with one character of each special class and a few words: an *)
(* owner name, an RR type, a class and a directive.                        *)
(***************************************************************************)
EXTENDS ZoneLexerSpec

MCTypeNames  == {"A", "TXT"}
MCClassNames == {"IN"}
MCAlphabet   == {" ", "\n", ";", "\\", "\"", "(", ")", "x.", "A", "IN"}
MCLines      == {[atoms |-> <<a>>] : a \in MCAlphabet}
MCMaxAtoms   == 6
=============================================================================
