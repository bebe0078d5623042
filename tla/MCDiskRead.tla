------------------------------- MODULE MCDiskRead -------------------------------
(***************************************************************************)
(* DiskRead for TLC: reads of one sector, of the root directory, of whole  *)
(* pages only, and of the file allocation tables, as the FAT12 driver of   *)
(* the installer makes them on the image of the bootloader.                *)
(***************************************************************************)
EXTENDS DiskRead

MCRequests == {[count |-> 1, lba |-> 0], [count |-> 2, lba |-> 33], [count |-> 8, lba |-> 40],
               [count |-> 14, lba |-> 19], [count |-> 18, lba |-> 1]}
=============================================================================
