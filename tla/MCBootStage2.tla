------------------------------ MODULE MCBootStage2 ------------------------------
(***************************************************************************)
(* BootStage2 for TLC: a USB stick it is booted from and a floppy, each    *)
(* with INSTALL.BIN first, inside, last or nowhere in the root directory,  *)
(* in the first 256 sectors or after them.                                 *)
(***************************************************************************)
EXTENDS BootStage2

MCDisks == [entry : {0, 3, 4, 5}, kind : {"file", "directory", "empty"},
            cluster : {100, 300}, size : {40}]
=============================================================================
