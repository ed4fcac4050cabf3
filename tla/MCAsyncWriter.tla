---------------------------- MODULE MCAsyncWriter ----------------------------
(* AsyncWriter on a small instance; the cfg files give the bounds.          *)
EXTENDS AsyncWriter
=============================================================================
