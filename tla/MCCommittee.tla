---------------------------- MODULE MCCommittee ----------------------------
(* Three keygen runs over one directory, around the last usable base port. *)
EXTENDS Committee
=============================================================================
