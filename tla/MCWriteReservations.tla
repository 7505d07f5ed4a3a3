------------------------ MODULE MCWriteReservations ------------------------
(* WriteReservations for TLC: a directory, two spellings of a file below it, *)
(* a directory whose name begins like the first one, the root, a bad path.   *)
EXTENDS WriteReservations

CONSTANTS Src, Src2, A

Spellings == {<<Src>>, <<Src, A>>, <<".", Src, A>>, <<Src2>>, <<".">>, <<Src, "..">>}
=============================================================================
