---------------------------- MODULE MCAsyncTask ----------------------------
(* Instances of AsyncTask for TLC. *)
EXTENDS AsyncTask

Pair == {1, 2}
Single == {1}
QuietOrAsking == {"running", "needs_input"}
=============================================================================
