----------------------------- MODULE MCKernelStart -----------------------------
(***************************************************************************)
(* KernelStart for TLC: a screen of three columns and three rows, with two *)
(* pixels to spare, as the real one has.  As there (21 + 29 < 53), the     *)
(* message of an NMI and that of another handler are together shorter than *)
(* a line.                                                                 *)
(***************************************************************************)
EXTENDS KernelStart

MCMessage == [v \in isr_list |-> 1]
=============================================================================
