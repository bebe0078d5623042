----------------------------- MODULE KernelServices -----------------------------
(***************************************************************************)
(* Functions of the kernel that look something up: a field of the          *)
(* configuration space of a PCI function (src/kernel/src/kernel/pci.c),    *)
(* the function behind a system call (syscalls.asm, syscalls.c) and the    *)
(* character of a key (libc/sys/layout.c).                                 *)
(*                                                                         *)
(* As in ChunkList, a definition named for what it gets wrong is a faulty  *)
(* variant of the one after it, there to test the properties.              *)
(***************************************************************************)
EXTENDS Integers, SequencesExt

CONSTANT HALF_EAX  \* 2^16, what AX holds

ASSUME RegisterAssumption == HALF_EAX \in Nat \ {0, 1, 2}

(***************************************************************************)
(* pci.c.  A doubleword is the sequence of its bytes, the least first.     *)
(***************************************************************************)
offsets ==
  [PCI_VENDOR_ID |-> 0, PCI_DEVICE_ID |-> 2, PCI_COMMAND |-> 4, PCI_STATUS |-> 6,
   PCI_REVISION_ID |-> 8, PCI_PROG_IF |-> 9, PCI_SUBCLASS |-> 10, PCI_CLASS |-> 11,
   PCI_CACHE_LINE_SIZE |-> 12, PCI_LATENCY_TIMER |-> 13, PCI_HEADER_TYPE |-> 14,
   PCI_BIST |-> 15, PCI_BAR0 |-> 16, PCI_BAR1 |-> 20, PCI_BAR2 |-> 24, PCI_BAR3 |-> 28,
   PCI_BAR4 |-> 32, PCI_BAR5 |-> 36, PCI_INTERRUPT_LINE |-> 60, PCI_SECONDARY_BUS |-> 9]

Words == {"PCI_VENDOR_ID", "PCI_DEVICE_ID", "PCI_COMMAND", "PCI_STATUS"}
Doublewords == {"PCI_BAR0", "PCI_BAR1", "PCI_BAR2", "PCI_BAR3", "PCI_BAR4", "PCI_BAR5"}
SizeOf(name) == CASE name \in Words -> 2 [] name \in Doublewords -> 4 [] OTHER -> 1

(* By offset; the rest of the table, which ends with its last field, is 0.  *)
pci_size_map ==
  [o \in 0 .. offsets.PCI_INTERRUPT_LINE |->
     IF \E name \in DOMAIN offsets : offsets[name] = o
     THEN SizeOf(CHOOSE name \in DOMAIN offsets : offsets[name] = o) ELSE 0]

(* The address put on the port, as the fields of its bits.                  *)
pci_device_t(dev, field) ==
  [enable |-> 1, bus |-> dev.bus, slot |-> dev.slot, function |-> dev.function,
   field |-> field \div 4]

(* The four bytes the machine answers with, of the function the address     *)
(* names.                                                                   *)
inl(space, address) ==
  [i \in 1 .. 4 |-> space[<<address.bus, address.slot, address.function>>][4 * address.field + i]]

HALTED == <<>>
pci_read(space, dev, field) ==
  LET data == inl(space, pci_device_t(dev, field))
      from(i, n) == SubSeq(data, i + 1, i + n)
  IN CASE pci_size_map[field] = 1 -> from(field % 4, 1)
       [] pci_size_map[field] = 2 -> from((field % 4) - (field % 2), 2)
       [] pci_size_map[field] = 4 -> data
       [] OTHER -> HALTED

(***************************************************************************)
(* syscalls.asm and syscalls.c                                             *)
(***************************************************************************)
syscall_list == <<"_example1", "_example2">>

(* The number is in AX.  The registers at the call of the function: behind  *)
(* the table is whatever follows it in memory.                              *)
dispatchByEax(regs) ==
  [eip |-> IF regs.eax < Len(syscall_list) THEN syscall_list[regs.eax + 1] ELSE "wild",
   ebx |-> regs.ebx,
   edx |-> 0]
dispatch(regs) ==
  LET eax == regs.eax % HALF_EAX
  IN [eip |-> IF eax < Len(syscall_list) THEN syscall_list[eax + 1] ELSE "wild",
      ebx |-> regs.ebx,
      edx |-> 0]

(* What a function prints: its name and its argument.                       *)
syscall(call) == IF call.eip = "_example2" THEN <<call.eip, call.ebx>> ELSE <<call.eip>>

(***************************************************************************)
(* layout.c                                                                *)
(***************************************************************************)
SHI == 1   \* in a layout: shift goes down
NSHI == 2  \* and up again
keychr(layout, keycode) == layout[keycode]

(* The state of the shift keys, and the character.                          *)
kb_update(keys, status, keycode) ==
  LET key == keychr(keys[1], keycode)
      now == CASE key = SHI -> 1 [] key = NSHI -> 0 [] OTHER -> status
  IN [status |-> now, char |-> keychr(keys[now + 1], keycode)]

(* The characters of one key after the other, from no key on.               *)
kb_updates(keys, keycodes) ==
  LET after[n \in 0 .. Len(keycodes)] ==
        IF n = 0 THEN [status |-> 0, char |-> 0]
        ELSE kb_update(keys, after[n - 1].status, keycodes[n])
  IN [n \in DOMAIN keycodes |-> after[n].char]

(***************************************************************************)
(* Properties, of one call each.                                           *)
(***************************************************************************)

(* A field is read whole, from the function that was asked, at the offset   *)
(* it has in the configuration space; and no field that is declared halts   *)
(* the kernel.                                                              *)
FieldIsRight(space, dev, name, result) ==
  result = SubSeq(space[<<dev.bus, dev.slot, dev.function>>],
                  offsets[name] + 1, offsets[name] + SizeOf(name))

(* A number of the table reaches its function, whatever the upper half of   *)
(* EAX holds, and its argument reaches it through the loads of EBX.         *)
SyscallIsRight(regs, result) ==
  regs.eax % HALF_EAX < Len(syscall_list) =>
    result = IF regs.eax % HALF_EAX = 0 THEN <<"_example1">> ELSE <<"_example2", regs.ebx>>

(* After any keys, shift is down if and only if it went down after it last  *)
(* went up, and each character is of the layout that held when it came.     *)
KeysAreRight(keys, keycodes, result) ==
  \A n \in DOMAIN keycodes :
    LET shifts == {i \in 1 .. n : keys[1][keycodes[i]] \in {SHI, NSHI}}
        latest == CHOOSE i \in shifts : \A j \in shifts : j <= i
        down   == shifts # {} /\ keys[1][keycodes[latest]] = SHI
    IN result[n] = keys[IF down THEN 2 ELSE 1][keycodes[n]]
=============================================================================
