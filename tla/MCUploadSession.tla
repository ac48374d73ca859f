---------------------------- MODULE MCUploadSession ----------------------------
(* Small instances of UploadSession for TLC. *)
EXTENDS UploadSession

CONSTANTS r1, r2

TwoRequests == {r1, r2}
=============================================================================
