----------------------------- MODULE MCInstallerDisk -----------------------------
(***************************************************************************)
(* InstallerDisk for TLC: reads of a cluster of two sectors, of a whole    *)
(* page and of the file allocation tables, as the FAT12 driver of the      *)
(* installer makes them, from two depths of the stack.                     *)
(***************************************************************************)
EXTENDS InstallerDisk

MCRequests == {[count |-> 2, lba |-> 33], [count |-> 8, lba |-> 40], [count |-> 18, lba |-> 1]}
=============================================================================
