------------------------------- MODULE MCAFS --------------------------------
(***************************************************************************)
(* Instances of AFS for TLC.                                               *)
(***************************************************************************)
EXTENDS AFS, TLC

Sharing      == {"open", "write", "close"}
SharingBreak == Sharing \cup {"disconnect"}
PoliteOps    == SharingBreak \cup {"getattr"}
Truncating   == Sharing \cup {"truncate"}
Renaming     == Sharing \cup {"rename"}

ClientSymmetry == Permutations(Client)
=============================================================================
