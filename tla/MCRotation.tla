------------------------------ MODULE MCRotation ------------------------------
(* Rotation on small instances; the cfg files give the bounds.              *)
EXTENDS Rotation
=============================================================================
