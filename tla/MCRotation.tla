----------------------------- MODULE MCRotation -----------------------------
(* Small instances of Rotation for TLC; see README.                          *)
EXTENDS RotationProperties
=============================================================================
