------------------------------- MODULE ModeSwitch -------------------------------
(***************************************************************************)
(* Paging of the installer (sys/paging) and the macros real_mode and       *)
(* protected_mode (include/sys/std.inc) it puts around every BIOS call,    *)
(* with the descriptors stage 2 has left in the GDT (gdt.asm).  A step is  *)
(* an instruction that changes the mode, the segments, the interrupt flag, *)
(* the stack or a table; the four data segments and SS, always loaded with *)
(* one value, are one register here.                                       *)
(*                                                                         *)
(* The installer never loads an IDT.  NMIs and exceptions in protected     *)
(* mode, which reset the machine, are not followed.                        *)
(***************************************************************************)
EXTENDS Integers

CONSTANTS
  PAGE_TABLE_SIZE,  \* entries of a table, and tables of the directory: 1024
  KERNEL_TABLE,     \* the page frame kernel_table is in
  TEXT16_HIGH,      \* the high 16 bits of the addresses of .text16
  DEPTHS            \* the values ESP may have when a BIOS call is wanted

ASSUME PagingAssumption ==
  PAGE_TABLE_SIZE \in Nat \ {0} /\ KERNEL_TABLE \in 0 .. PAGE_TABLE_SIZE - 1
ASSUME Text16Assumption == TEXT16_HIGH = 0   \* linker.ld puts it at 0xA000
ASSUME DepthAssumption == DEPTHS \subseteq Nat /\ DEPTHS # {}

VARIABLES
  at,               \* the next instruction, or "protected", "real" between
                    \* the macros
  cpu,              \* CR0 (PE, PG), CR3, the interrupt flag (INT), CS, the data segments, ESP, and
                    \* what the descriptors last loaded say of the width of
                    \* the code (bits) and of the stack (wide)
  kernel_table,     \* frame numbers of the entries, ABSENT before
  directory_table,  \* the same of the directory
  last_esp,         \* where real_mode keeps the stack pointer
  depth             \* history: ESP of the C code that called last

modeVars == <<at, cpu, kernel_table, directory_table, last_esp, depth>>

Entries == 0 .. PAGE_TABLE_SIZE - 1
ABSENT == -1
LOW_STACK == 65535   \* 0xFFFF

CODE_SEG == 8
DATA_SEG == 16
CODE16_SEG == 24
DATA16_SEG == 32
NULL_SEG == 0

(* What the flags of a descriptor say of the width of code and stack.       *)
GDT == [s \in {CODE_SEG, DATA_SEG, CODE16_SEG, DATA16_SEG} |->
          IF s \in {CODE_SEG, DATA_SEG} THEN 32 ELSE 16]

(* In real mode a segment register is a base address: the width that was    *)
(* loaded with the last descriptor stays.                                   *)
LoadCS(s)   == [cpu EXCEPT !.CS = s, !.bits = IF cpu.PE THEN GDT[s] ELSE cpu.bits]
LoadData(s) == [cpu EXCEPT !.data = s, !.wide = IF cpu.PE THEN GDT[s] ELSE cpu.wide]

(* Stage 2 has entered protected mode with interrupts off (start.asm) and   *)
(* _start calls paging_init before anything that needs the BIOS.            *)
ModeInit ==
  /\ at = "fill"
  /\ depth \in DEPTHS
  /\ cpu = [PE |-> TRUE, PG |-> FALSE, INT |-> FALSE, CR3 |-> FALSE, CS |-> CODE_SEG,
            bits |-> 32, data |-> DATA_SEG, wide |-> 32, ESP |-> depth]
  /\ kernel_table = [i \in Entries |-> ABSENT]
  /\ directory_table = [i \in Entries |-> ABSENT]
  /\ last_esp = 0

(***************************************************************************)
(* paging_init                                                             *)
(***************************************************************************)
tables == <<kernel_table, directory_table>>
NextAbsent(t, i) == t[i] = ABSENT /\ \A j \in 0 .. i - 1 : t[j] # ABSENT
Full(t) == \A i \in Entries : t[i] # ABSENT

FillKernelTable ==
  /\ at = "fill"
  /\ \E i \in Entries :
       NextAbsent(kernel_table, i) /\ kernel_table' = [kernel_table EXCEPT ![i] = i]
  /\ UNCHANGED <<at, cpu, directory_table, last_esp, depth>>

(* Every entry of the directory is the one table.                           *)
FillDirectory ==
  /\ at = "fill" /\ Full(kernel_table)
  /\ \E i \in Entries :
       /\ NextAbsent(directory_table, i)
       /\ directory_table' = [directory_table EXCEPT ![i] = KERNEL_TABLE]
  /\ UNCHANGED <<at, cpu, kernel_table, last_esp, depth>>

LoadPageDirectory ==
  /\ at = "fill" /\ Full(directory_table)
  /\ at' = "enable" /\ cpu' = [cpu EXCEPT !.CR3 = TRUE]
  /\ UNCHANGED <<tables, last_esp, depth>>

EnablePaging ==
  /\ at = "enable"
  /\ at' = "protected" /\ cpu' = [cpu EXCEPT !.PG = TRUE]
  /\ UNCHANGED <<tables, last_esp, depth>>

PagingInit == FillKernelTable \/ FillDirectory \/ LoadPageDirectory \/ EnablePaging

(***************************************************************************)
(* real_mode                                                               *)
(***************************************************************************)
Instruction(here, there, registers) ==
  /\ at = here /\ at' = there /\ cpu' = registers
  /\ UNCHANGED <<tables, depth>>

SaveLowStack ==
  /\ Instruction("protected", "data16", [cpu EXCEPT !.ESP = LOW_STACK])
  /\ last_esp' = LOW_STACK

SaveStack ==
  /\ Instruction("protected", "data16", [cpu EXCEPT !.ESP = LOW_STACK])
  /\ last_esp' = cpu.ESP

LoadData16 == Instruction("data16", "unpage", LoadData(DATA16_SEG)) /\ UNCHANGED last_esp
DisablePaging == Instruction("unpage", "code16", [cpu EXCEPT !.PG = FALSE]) /\ UNCHANGED last_esp
JumpToOwnCode == Instruction("code16", "unprotect", cpu) /\ UNCHANGED last_esp
JumpToCode16 == Instruction("code16", "unprotect", LoadCS(CODE16_SEG)) /\ UNCHANGED last_esp
LeaveProtectedMode == Instruction("unprotect", "jump0", [cpu EXCEPT !.PE = FALSE]) /\ UNCHANGED last_esp

(* jmp 0:label is assembled for 32 bits and runs in 16: what it takes for   *)
(* the segment is the high half of the address of the label.                *)
JumpTo0 == Instruction("jump0", "data0", LoadCS(TEXT16_HIGH)) /\ UNCHANGED last_esp
ZeroSegments == Instruction("data0", "sti", LoadData(NULL_SEG)) /\ UNCHANGED last_esp
EnableInterrupts == Instruction("sti", "real", [cpu EXCEPT !.INT = TRUE]) /\ UNCHANGED last_esp

RealMode == LoadData16 \/ DisablePaging \/ JumpToCode16 \/ LeaveProtectedMode
              \/ JumpTo0 \/ ZeroSegments \/ EnableInterrupts

(***************************************************************************)
(* protected_mode                                                          *)
(***************************************************************************)
LeaveInterruptsOn == Instruction("real", "protect", cpu) /\ UNCHANGED last_esp
DisableInterrupts == Instruction("real", "protect", [cpu EXCEPT !.INT = FALSE]) /\ UNCHANGED last_esp
EnterProtectedMode ==
  Instruction("protect", "code", [cpu EXCEPT !.PE = TRUE, !.PG = TRUE]) /\ UNCHANGED last_esp
JumpToCode == Instruction("code", "data", LoadCS(CODE_SEG)) /\ UNCHANGED last_esp
LoadDataSegments == Instruction("data", "stack", LoadData(DATA_SEG)) /\ UNCHANGED last_esp
RestoreStack == Instruction("stack", "protected", [cpu EXCEPT !.ESP = last_esp]) /\ UNCHANGED last_esp

ProtectedMode == EnterProtectedMode \/ JumpToCode \/ LoadDataSegments \/ RestoreStack

(***************************************************************************)
(* Properties.                                                             *)
(***************************************************************************)
ModeTypeOK ==
  /\ at \in {"fill", "enable", "protected", "data16", "unpage", "code16", "unprotect", "jump0",
             "data0", "sti", "real", "protect", "code", "data", "stack"}
  /\ cpu \in [PE : BOOLEAN, PG : BOOLEAN, INT : BOOLEAN, CR3 : BOOLEAN,
              CS : {CODE_SEG, CODE16_SEG, NULL_SEG}, bits : {16, 32},
              data : {DATA_SEG, DATA16_SEG, NULL_SEG}, wide : {16, 32}, ESP : Nat]
  /\ kernel_table \in [Entries -> Entries \cup {ABSENT}]
  /\ directory_table \in [Entries -> Entries \cup {ABSENT}]
  /\ last_esp \in Nat /\ depth \in DEPTHS

(* An IRQ finds the processor as the handlers of the BIOS need it: in real  *)
(* mode, with 16-bit code and stack, every segment 0, and the stack of its  *)
(* own that real_mode has set up.                                           *)
IrqsComeInRealMode ==
  cpu.INT => /\ ~cpu.PE /\ cpu.bits = 16 /\ cpu.wide = 16
            /\ cpu.CS = NULL_SEG /\ cpu.data = NULL_SEG /\ cpu.ESP = LOW_STACK

(* The frame a page of the address space is found in: its number is split   *)
(* into the indices of the two levels.                                      *)
Walk(i, j) == IF directory_table[i] = KERNEL_TABLE THEN kernel_table[j] ELSE ABSENT

(* The processor is never in a state it does not define or the code cannot  *)
(* go on in: paging only in protected mode and with a loaded directory that *)
(* finds every page of the first table, 4 MiB, where real mode finds it;    *)
(* real mode only with 16-bit code and stack.                               *)
ModesAreLegal ==
  /\ cpu.PG => cpu.PE /\ cpu.CR3 /\ \A p \in Entries : Walk(0, p) = p
  /\ ~cpu.PE => cpu.bits = 16 /\ cpu.wide = 16

(* C code always goes on with the stack pointer it called with, in 32-bit   *)
(* segments, with paging on and interrupts off.                             *)
StackComesBack ==
  at = "protected" =>
    /\ cpu.ESP = depth
    /\ cpu.PE /\ cpu.PG /\ ~cpu.INT
    /\ cpu.CS = CODE_SEG /\ cpu.bits = 32
    /\ cpu.data = DATA_SEG /\ cpu.wide = 32
=============================================================================
