------------------------------ MODULE MCBootStage1 ------------------------------
(***************************************************************************)
(* BootStage1 for TLC: a floppy, a disk with 16 heads, one with a single   *)
(* head and short tracks, whose cylinders need the high bits, and one with *)
(* its root directory on head 2; files at the start and further on,        *)
(* smaller and larger than what is read.                                   *)
(***************************************************************************)
EXTENDS BootStage1

MCMachines ==
  [sectors : {18}, maxHead : {1}, setsAL : BOOLEAN]
    \cup [sectors : {63}, maxHead : {15}, setsAL : {FALSE}]
    \cup [sectors : {8}, maxHead : {0, 3}, setsAL : {FALSE}]

MCFiles == [cluster : {2, 40, 225, 2846}, size : {5, 34}]
=============================================================================
