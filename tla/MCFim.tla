-------------------------------- MODULE MCFim --------------------------------
(* A recursive directory with two files, one of them excluded by a pattern, and *)
(* a file in a subdirectory; and an entry for one of its files, which is thus   *)
(* scanned twice.                                                              *)
EXTENDS Fim, TLC

CONSTANTS etc, file, passwd, tmp, sub

MCDirect == (etc :> {passwd, tmp}) @@ (file :> {passwd})
MCBelow == (etc :> {sub}) @@ (file :> {})
=============================================================================
