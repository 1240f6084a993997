------------------------------ MODULE MCPrintf ------------------------------
(* Model-checking instance of Printf: words of 8 bits, ints of 4, every    *)
(* format of up to three characters and every %ll conversion.              *)
EXTENDS Printf

MCChars == {"%", "d", "u", "l", "x", "X", "o", "b", "p", "s", "a"}
MCFormats ==
    UNION {[1..n -> MCChars] : n \in 0..3} \cup
    {<<"%", "l", "l", c>> : c \in MCChars} \cup {<<"%", "l", "l", c, "%">> : c \in MCChars}
MCArgs == {0, 7, 8, 255}
=============================================================================
