------------------------------ MODULE MCShell ------------------------------
(* Model-checking instance of Shell: a screen of a few cells, one letter   *)
(* key, the space bar, Tab and a key without a character (Ctrl).  Of lines *)
(* of two characters, one with a blank in front has an argument that does  *)
(* not fit, and one with a blank behind a word has one that does.          *)
EXTENDS Shell

MCShifts == {"left_shift", "arrow"}
MCCodes == {"a_key", "space_bar", "tab_key", "ctrl"}
MCAscii == [c \in MCCodes |->
               CASE c = "a_key" -> "a" [] c = "space_bar" -> Blank
                 [] c = "tab_key" -> TAB [] OTHER -> NONE]
MCAsciiShift == [MCAscii EXCEPT !["a_key"] = "A"]
MCPrompt == <<">">>
MCPrintable == {"a", "A", ">", "o", Blank}
MCOutputs == {<<"o">>, <<"o", NL, "o">>}
=============================================================================
