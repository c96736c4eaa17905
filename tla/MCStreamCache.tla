---------------------------- MODULE MCStreamCache ----------------------------
(* A small instance of StreamCache. *)
EXTENDS StreamCache

CONSTANTS u1, u2, s1, c1

MCUsers == {u1, u2}
MCSymbols == {s1}
MCCandles == {c1}

Shape(fields, fails) == [fields |-> fields, fails |-> fails]

\* The ask alone, and a message that breaks off after the bid.
MCShapes == {Shape({"ask"}, FALSE), Shape({"bid"}, TRUE)}

=============================================================================
