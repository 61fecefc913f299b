----------------------------- MODULE MCMp4Record -----------------------------
(* A small instance of Mp4Record. *)
EXTENDS Mp4Record
=============================================================================
