------------------------- MODULE MCApplicationRunner -------------------------
(* ApplicationRunner with timeouts and sizes on both sides of the cut to a   *)
(* DWORD: the size 4 is cut to 0 and 5 to 1.                                 *)
EXTENDS ApplicationRunner

(* No time at all, INFINITE, and a size_t that is cut to a time of 1. *)
MCTimeouts == {0, DwordSize - 1, DwordSize + 1}

=============================================================================
