------------------------------- MODULE MCMain -------------------------------
(* Main for TLC: a directory longer than the screen, one just as long in   *)
(* it and a shorter one in that, where a directory and a file sort before  *)
(* "."; the array of test_print_with_negatievs; and requests that stop the *)
(* select server or do not.                                                *)
EXTENDS Main, TLC

Tree ==
    "long"  :> <<"long", "long", "exact", "file", "file", "file">> @@
    "exact" :> <<"short", "exact", "long", "file">> @@
    "short" :> <<"file", "short", "exact">>

Array == <<10, 100, 90, -101, -505, 780, 1, 2, 3>>

Requests == {-1, 1}
=============================================================================
