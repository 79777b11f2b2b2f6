------------------------------- MODULE Status --------------------------------
(***************************************************************************)
(* The error codes of status.h that the file system returns, negated.      *)
(***************************************************************************)
EXTENDS Integers

EIO == 1
EINVARG == 2
EUNIMP == 7
=============================================================================
