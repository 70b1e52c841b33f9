----------------------------- MODULE MCConsole -----------------------------
(***************************************************************************)
(* A screen of two lines of two characters for Console.                    *)
(***************************************************************************)
EXTENDS Console

(* On the screen; behind a line, behind the last line, far behind both *)
CursorsAll == {<<0, 1>>, <<0, 2>>, <<2, 0>>, <<5, 5>>}

=============================================================================
