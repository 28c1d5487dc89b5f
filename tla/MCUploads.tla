------------------------------ MODULE MCUploads ------------------------------
(* Uploads for TLC.                                                          *)
EXTENDS Uploads
=============================================================================
