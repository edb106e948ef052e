----------------------------- MODULE MCFileData -----------------------------
(* Two clusters of two sectors of two bytes.                               *)
EXTENDS FileData
=============================================================================
