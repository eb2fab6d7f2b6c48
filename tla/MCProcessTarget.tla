--------------------------- MODULE MCProcessTarget --------------------------
(* Instances of ProcessTarget and Rebind.  Ordinals above 2 need a uleb128 *)
(* and those above 3 one of two bytes, so that a few libraries are enough  *)
(* for every change of size.                                               *)
EXTENDS ProcessTarget

MCSpecial == {0, -1}
MCUlebLen == [n \in 1 .. 6 |-> IF n <= 3 THEN 1 ELSE 2]

\* The shim library is last, first, or becomes the third, the fourth, which
\* the chained imports cannot hold, or the fifth, which no table can hold.
MCLoads == {<<"system", "shim">>, <<"shim", "system", "user", "system">>,
            <<"system", "user">>, <<"system", "system", "system">>,
            <<"system", "system", "system", "system">>}

MCTables == {<< <<1, "malloc">>, <<2, "open">> >>,
             << <<1, "open">>, <<2, "open">>, <<-1, "malloc">> >>}
=============================================================================
