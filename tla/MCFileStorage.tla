--------------------------- MODULE MCFileStorage ----------------------------
(* A small instance of FileStorage for TLC: every configuration of up to   *)
(* two namespaces, which may refer to each other and to a third.           *)
EXTENDS FileStorage
=============================================================================
