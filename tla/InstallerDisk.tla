------------------------------ MODULE InstallerDisk ------------------------------
(***************************************************************************)
(* DiskRead and ModeSwitch together: disk_read_int13 and                   *)
(* disk_get_param_int13 are real_mode, BIOS calls, protected_mode.  The    *)
(* BIOS runs in real mode and disk_read goes on in protected mode.         *)
(***************************************************************************)
EXTENDS DiskRead, ModeSwitch

allVars == <<vars, modeVars>>

(* The routine is entered by the call, at any depth of the stack.           *)
EnterRealMode == at = "protected" /\ pc # "idle" /\ tries = 0 /\ SaveStack /\ UNCHANGED vars

(* Whatever the BIOS answered, every path of disk.asm ends in               *)
(* protected_mode.                                                          *)
LeaveRealMode == at = "real" /\ tries = RETURNED /\ DisableInterrupts /\ UNCHANGED vars

Switch == (PagingInit \/ RealMode \/ ProtectedMode) /\ UNCHANGED vars

Bios == at = "real" /\ Int13 /\ UNCHANGED modeVars

CCodeGoesOn == at = "protected" /\ GoOn /\ UNCHANGED modeVars

CCodeCalls ==
  /\ at = "protected" /\ Calls
  /\ depth' \in DEPTHS /\ cpu' = [cpu EXCEPT !.ESP = depth']
  /\ UNCHANGED <<at, tables, last_esp>>

DiskInit == Init /\ ModeInit
DiskStep == Switch \/ EnterRealMode \/ Bios \/ LeaveRealMode \/ CCodeGoesOn
DiskNext == CCodeCalls \/ DiskStep

(* The processor executes the installer and the BIOS returns; nothing       *)
(* forces the installer to read.                                            *)
DiskSpec == DiskInit /\ [][DiskNext]_allVars /\ WF_allVars(DiskStep)

DiskTypeOK == TypeOK /\ ModeTypeOK
=============================================================================
