---------------------------- MODULE MCDropAFile ----------------------------
(***************************************************************************)
(* DropAFile with two pictures of two pieces.                              *)
(***************************************************************************)
EXTENDS DropAFile

MCUploads == {"ann", "bob"}
=============================================================================
