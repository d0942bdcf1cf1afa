----------------------------- MODULE MCMetadata ------------------------------
(* Instances of Metadata for TLC.                                          *)
EXTENDS Metadata
=============================================================================
