------------------------------- MODULE MCQuery -------------------------------
(***************************************************************************)
(* The q client on every argument vector of up to MaxArgs words: an empty *)
(* word, a server, a lower-case type, a class, an out-of-range TYPEnnn and *)
(* a query name; so each branch of the Flags loop and of the defaults      *)
(* happens, and two names make two concurrent handlers.                    *)
(***************************************************************************)
EXTENDS Query

LOCAL SE == INSTANCE SequencesExt

MCWords == {"", "@s", "mx", "CH", "TYPE65536", "x.", "y."}
MCArgVectors == SE!SeqOf(MCWords, MaxArgs)
MCStrRR == [w \in {"A", "NS", "MX", "ANY"} |->
              CASE w = "A" -> 1 [] w = "NS" -> 2 [] w = "MX" -> 15 [] w = "ANY" -> 255]
MCStrClass == [w \in {"IN", "CH", "ANY"} |->
                 CASE w = "IN" -> 1 [] w = "CH" -> 3 [] w = "ANY" -> 255]
=============================================================================
