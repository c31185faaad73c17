----------------------------- MODULE MCAvatars ------------------------------
(* Small instances of Avatars for TLC: two uploads for one place.          *)
EXTENDS Avatars
=============================================================================
