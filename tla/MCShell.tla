------------------------------ MODULE MCShell ------------------------------
(* One letter; "a" is cd, "aa" a command with a path, "." a plain one that  *)
(* shares its chain with "aa"; every other word is a program.               *)
EXTENDS Shell

MCcmds == << <<"a">>, <<"a", "a">>, <<".">> >>
MCKind == [w \in Range(MCcmds) |->
             CASE w = <<"a">> -> "cd" [] w = <<"a", "a">> -> "path" [] w = <<".">> -> "plain"]
MCCode == [c \in Char |-> CASE c = "a" -> 97 [] c = "/" -> 47 [] c = "." -> 46
                             [] c = " " -> 32 [] c = "|" -> 124]
\* /a, /a/a, ... : the longest one leaves something behind each_cmd.
MCDirs == {<<"/">>} \cup {[i \in 1..(2 * n) |-> IF i % 2 = 1 THEN "/" ELSE "a"] : n \in 1..4}
=============================================================================
