------------------------------ MODULE MCLexer ------------------------------
(* Statements of a few characters with every kind of lexeme.               *)
EXTENDS LexerProps

MCToUpper == [c \in {"e"} |-> "E"]
MCDigits == [c \in {"0", "3"} |-> IF c = "0" THEN 0 ELSE 3]
MCSpecials == {" ", "\n", "_", "'", ".", "+", "-"}
MCReserved == {<<"E", "E">>}
MCMinExp == -3
============================================================================
