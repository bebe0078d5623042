--------------------------- MODULE KernelStart_proofs ---------------------------
(***************************************************************************)
(* Proofs about the start of the kernel, for any set of exceptions, any    *)
(* number of them and of NMIs, any machine, and messages of any length; of  *)
(* those of the handlers that return, GlyphsStayWhole takes from           *)
(* MessagesAreShort that they fit on a line.                               *)
(*                                                                         *)
(* A step of KernelStart that changes something KernelInterrupts knows of  *)
(* is one of its steps, so that the interrupts are argued about alone: the *)
(* descriptor in hand has the fields stored so far, the PICs are where the *)
(* writes so far have brought them, the double fault has its gate when     *)
(* idt_init is past it, no handler is entered before lidt.  On top of that *)
(* the console: each handler still has to print what it has not drawn, and *)
(* the cursor is where the handlers that have returned may have left it.   *)
(* The scan is argued about by itself: of its state a handler changes the  *)
(* answer to the function at hand, and nothing else.                       *)
(***************************************************************************)
EXTENDS KernelStart, SequenceTheorems, TLAPS

LEMMA StepKinds ==
  ASSUME [KernelNext]_kernelVars
  PROVE  \/ UNCHANGED vars
         \/ Start
         \/ \E v \in EXCEPTIONS : Exception(v)
         \/ Nmi
         \/ Handler
<1>1. CASE UNCHANGED kernelVars
  BY <1>1 DEF kernelVars
<1>2. CASE _start
  BY <1>2 DEF _start, Clear, SetFont, SetUpInterrupts, InitHeap, ReadVendor, ScanNone, ScanFound, ScanEnds,
              StartList, ListDevice, ListEnds
<1>3. CASE Putchar
  BY <1>3 DEF Putchar, Place, PutNewline, PutGlyph
<1>4. CASE Event
  BY <1>4 DEF Event
<1>5. CASE HandlerEnds
  BY <1>5 DEF HandlerEnds
<1>6. QED
  BY <1>1, <1>2, <1>3, <1>4, <1>5 DEF KernelNext

(* Exceptions and handlers leave the set-up of the interrupts alone.        *)
LEMMA EventsKeepControl ==
  ASSUME (\E v \in EXCEPTIONS : Exception(v)) \/ Nmi \/ Handler
  PROVE  UNCHANGED control
  BY DEF Exception, Nmi, Handler, FatalHalts, IretFaults, IretGoesOn

(***************************************************************************)
(* The descriptors.                                                        *)
(***************************************************************************)
AllFields == {"addr_low", "addr_high", "segment", "attributs", "reserved"}

(* The places of _start, and the vector that is in hand there.              *)
VectorIsInPlace ==
  /\ pc \in {"pic", "lidt", "fill", "syscall", "idle"}
  /\ pc \in {"pic", "lidt"} => vector = 0
  /\ pc = "fill" => vector \in 0 .. 32
  /\ pc \in {"syscall", "idle"} => vector = SYSCALL

FieldsAreStored ==
  /\ gates \in [0 .. 255 -> SUBSET AllFields]
  /\ stores \in 0 .. 4
  /\ stores # 0 => vector \in isr_list \cup {SYSCALL}
  /\ \A i \in 1 .. stores : Fields[i] \in gates[vector]

(* Once idt_init is past the double fault it has a gate.                    *)
DoubleFaultHasGate ==
  pc \in {"syscall", "idle"} \/ vector > DOUBLE_FAULT => Valid(DOUBLE_FAULT)

GateIInv == VectorIsInPlace /\ FieldsAreStored /\ NoTornGate /\ DoubleFaultHasGate

LEMMA VectorRange == ASSUME VectorIsInPlace PROVE vector \in 0 .. 255
  BY DEF VectorIsInPlace, SYSCALL

LEMMA FieldsLength == Len(Fields) = 5
  BY DEF Fields

(* One store: the fields of a gate are complete when its attributes are.    *)
LEMMA StoreKeepsGates ==
  ASSUME GateIInv, SetDescriptor
  PROVE  /\ gates' \in [0 .. 255 -> SUBSET AllFields]
         /\ stores' = IF stores = 4 THEN 0 ELSE stores + 1
         /\ \A i \in 1 .. stores' : Fields[i] \in gates'[vector]
         /\ NoTornGate'
         /\ \A v \in 0 .. 255 : Valid(v) => Valid(v)'
         /\ stores = 4 => "attributs" \in gates'[vector]
<1>1. vector \in 0 .. 255 /\ stores \in 0 .. 4 /\ gates \in [0 .. 255 -> SUBSET AllFields]
  BY VectorRange DEF GateIInv, FieldsAreStored
<1>2. gates' = [gates EXCEPT ![vector] = @ \cup {Fields[stores + 1]}]
  BY DEF SetDescriptor
<1>3. stores' = IF stores = 4 THEN 0 ELSE stores + 1
  BY <1>1, FieldsLength DEF SetDescriptor
<1>4. \A i \in 1 .. 5 : Fields[i] \in AllFields
  BY DEF Fields, AllFields
<1>5. gates' \in [0 .. 255 -> SUBSET AllFields]
  <2>1. stores + 1 \in 1 .. 5
    BY <1>1
  <2>2. gates[vector] \cup {Fields[stores + 1]} \in SUBSET AllFields
    BY <1>1, <1>4, <2>1
  <2>3. QED
    BY <1>1, <1>2, <2>2
<1>6. gates'[vector] = gates[vector] \cup {Fields[stores + 1]}
  BY <1>1, <1>2
<1>7. \A v \in 0 .. 255 : v # vector => gates'[v] = gates[v]
  BY <1>1, <1>2
<1>8. \A i \in 1 .. stores + 1 : Fields[i] \in gates'[vector]
  <2>1. \A i \in 1 .. stores : Fields[i] \in gates[vector]
    BY DEF GateIInv, FieldsAreStored
  <2>2. TAKE i \in 1 .. stores + 1
  <2>3. i \in 1 .. stores \/ i = stores + 1
    BY <1>1
  <2>4. QED
    BY <2>1, <2>3, <1>6
<1>9. NoTornGate'
  <2>1. SUFFICES ASSUME NEW v \in 0 .. 255, Valid(v)' PROVE Complete(v)'
    BY DEF NoTornGate
  <2>2. CASE v # vector
    BY <2>1, <2>2, <1>7 DEF GateIInv, NoTornGate, Valid, Complete
  <2>3. CASE v = vector /\ Valid(vector)
    BY <2>3, <1>6, <1>1 DEF GateIInv, NoTornGate, Valid, Complete
  <2>4. CASE v = vector /\ ~Valid(vector)
    <3>1. Fields[stores + 1] = "attributs"
      BY <2>1, <2>4, <1>6 DEF Valid
    <3>2. stores = 3
      BY <3>1, <1>1 DEF Fields
    <3>3. Fields[1] \in gates'[vector] /\ Fields[2] \in gates'[vector]
            /\ Fields[3] \in gates'[vector] /\ Fields[4] \in gates'[vector]
      BY <3>2, <1>8
    <3>4. QED
      BY <3>3, <2>4 DEF Fields, Complete
  <2>5. QED
    BY <2>2, <2>3, <2>4
<1>10. \A v \in 0 .. 255 : Valid(v) => Valid(v)'
  BY <1>6, <1>7 DEF Valid
<1>11. stores = 4 => "attributs" \in gates'[vector]
  <2>1. stores = 4 => Fields[4] \in gates'[vector]
    BY <1>8
  <2>2. Fields[4] = "attributs"
    BY DEF Fields
  <2>3. QED
    BY <2>1, <2>2
<1>12. \A i \in 1 .. stores' : Fields[i] \in gates'[vector]
  BY <1>1, <1>3, <1>8
<1>13. QED
  BY <1>3, <1>5, <1>9, <1>10, <1>11, <1>12

LEMMA InitGates == Init => GateIInv
<1> SUFFICES ASSUME Init PROVE GateIInv
  OBVIOUS
<1>1. VectorIsInPlace
  BY DEF Init, VectorIsInPlace
<1>2. FieldsAreStored
  BY DEF Init, FieldsAreStored
<1>3. NoTornGate /\ DoubleFaultHasGate
  BY DEF Init, NoTornGate, DoubleFaultHasGate, Valid, DOUBLE_FAULT
<1>4. QED
  BY <1>1, <1>2, <1>3 DEF GateIInv

LEMMA ControlKeepsGates == GateIInv /\ UNCHANGED control => GateIInv'
  BY SMTT(60)
  DEF control, GateIInv, VectorIsInPlace, FieldsAreStored, NoTornGate, DoubleFaultHasGate,
      Valid, Complete

LEMMA StartKeepsGates == GateIInv /\ Start => GateIInv'
<1> SUFFICES ASSUME GateIInv, Start PROVE GateIInv'
  OBVIOUS
<1> USE DEF GateIInv
<1>1. CASE PicWrite
  BY <1>1
  DEF PicWrite, InStart, VectorIsInPlace, FieldsAreStored, NoTornGate, DoubleFaultHasGate,
      Valid, Complete, DOUBLE_FAULT
<1>2. CASE LoadIdt
  <2>1. pc = "lidt" /\ pc' = "fill" /\ UNCHANGED <<gates, vector, stores>>
    BY <1>2 DEF LoadIdt, InStart
  <2>2. vector = 0
    BY <2>1 DEF VectorIsInPlace
  <2>3. VectorIsInPlace'
    BY <2>1, <2>2 DEF VectorIsInPlace
  <2>4. FieldsAreStored'
    BY <2>1 DEF FieldsAreStored
  <2>5. NoTornGate'
    BY <2>1 DEF NoTornGate, Valid, Complete
  <2>6. DoubleFaultHasGate'
    BY <2>1, <2>2 DEF DoubleFaultHasGate, DOUBLE_FAULT
  <2>7. QED
    BY <2>3, <2>4, <2>5, <2>6
<1>3. CASE FillVector
  <2>1. pc = "fill" /\ pc' = "fill" /\ vector \in isr_list /\ SetDescriptor
    BY <1>3 DEF FillVector, InStart
  <2>2. vector' = IF stores' = 0 THEN vector + 1 ELSE vector
    BY <1>3 DEF FillVector
  <2>3. vector \in 0 .. 31 /\ stores \in 0 .. 4
    BY <2>1 DEF isr_list, FieldsAreStored
  <2>4. VectorIsInPlace'
    BY <2>1, <2>2, <2>3 DEF VectorIsInPlace
  <2>5. FieldsAreStored'
    BY <2>1, <2>2, <2>3, StoreKeepsGates, SMTT(60) DEF FieldsAreStored
  <2>6. DoubleFaultHasGate'
    <3>1. SUFFICES ASSUME vector' > DOUBLE_FAULT PROVE Valid(DOUBLE_FAULT)'
      BY <2>1 DEF DoubleFaultHasGate
    <3>2. CASE vector > DOUBLE_FAULT
      BY <3>2, <2>1, StoreKeepsGates DEF DoubleFaultHasGate, DOUBLE_FAULT
    <3>3. CASE vector = DOUBLE_FAULT /\ stores = 4
      BY <3>3, <2>1, StoreKeepsGates DEF DOUBLE_FAULT, Valid
    <3>4. QED
      BY <3>1, <3>2, <3>3, <2>1, <2>2, <2>3, StoreKeepsGates DEF DOUBLE_FAULT
  <2>7. QED
    BY <2>1, <2>4, <2>5, <2>6, StoreKeepsGates
<1>4. CASE SkipVector
  <2>1. pc = "fill" /\ pc' = "fill" /\ vector \in NullHandlers /\ vector' = vector + 1
          /\ UNCHANGED <<gates, stores>>
    BY <1>4 DEF SkipVector, InStart
  <2>2. stores = 0
    BY <2>1 DEF FieldsAreStored, isr_list, NullHandlers, SYSCALL
  <2>3. vector \in 0 .. 31 /\ vector # DOUBLE_FAULT
    BY <2>1 DEF NullHandlers, DOUBLE_FAULT
  <2>4. VectorIsInPlace'
    BY <2>1, <2>3 DEF VectorIsInPlace
  <2>5. FieldsAreStored'
    BY <2>1, <2>2 DEF FieldsAreStored
  <2>6. NoTornGate'
    BY <2>1 DEF NoTornGate, Valid, Complete
  <2>7. DoubleFaultHasGate'
    BY <2>1, <2>3 DEF DoubleFaultHasGate, Valid, DOUBLE_FAULT
  <2>8. QED
    BY <2>4, <2>5, <2>6, <2>7
<1>5. CASE FillEnds
  <2>1. pc = "fill" /\ pc' = "syscall" /\ vector > 31 /\ vector' = SYSCALL
          /\ UNCHANGED <<gates, stores>>
    BY <1>5 DEF FillEnds, InStart
  <2>2. stores = 0
    BY <2>1 DEF FieldsAreStored, VectorIsInPlace, isr_list, SYSCALL
  <2>3. VectorIsInPlace' /\ FieldsAreStored'
    BY <2>1, <2>2 DEF VectorIsInPlace, FieldsAreStored
  <2>4. NoTornGate'
    BY <2>1 DEF NoTornGate, Valid, Complete
  <2>5. DoubleFaultHasGate'
    <3>1. vector > DOUBLE_FAULT
      BY <2>1 DEF VectorIsInPlace, DOUBLE_FAULT
    <3>2. QED
      BY <3>1, <2>1 DEF DoubleFaultHasGate, Valid
  <2>6. QED
    BY <2>3, <2>4, <2>5
<1>6. CASE SetSyscall
  <2>1. pc = "syscall" /\ pc' \in {"syscall", "idle"} /\ vector' = vector /\ SetDescriptor
    BY <1>6 DEF SetSyscall, InStart
  <2>2. vector = SYSCALL
    BY <2>1 DEF VectorIsInPlace
  <2>3. VectorIsInPlace'
    BY <2>1, <2>2 DEF VectorIsInPlace
  <2>4. FieldsAreStored'
    BY <2>1, <2>2, StoreKeepsGates, SMTT(60) DEF FieldsAreStored
  <2>5. DoubleFaultHasGate'
    BY <2>1, StoreKeepsGates DEF DoubleFaultHasGate, DOUBLE_FAULT
  <2>6. QED
    BY <2>1, <2>3, <2>4, <2>5, StoreKeepsGates
<1>7. QED
  BY <1>1, <1>2, <1>3, <1>4, <1>5, <1>6 DEF Start

LEMMA GatesInvariant == KernelSpec => []GateIInv
<1>1. KernelInit => GateIInv
  BY InitGates DEF KernelInit
<1>2. GateIInv /\ [KernelNext]_kernelVars => GateIInv'
  BY StepKinds, EventsKeepControl, StartKeepsGates, ControlKeepsGates DEF vars
<1>3. QED
  BY <1>1, <1>2, PTL DEF KernelSpec

(* No exception, whenever it comes, is delivered through a descriptor of    *)
(* which idt_set_descriptor has stored a part.                              *)
THEOREM NoGateIsTorn == KernelSpec => []NoTornGate
<1>1. GateIInv => NoTornGate
  BY DEF GateIInv
<1>2. QED
  BY <1>1, GatesInvariant, PTL

(***************************************************************************)
(* The PICs.  The first gets the odd writes and the second the even ones:  *)
(* what a PIC expects, and the bytes it has kept, follow from their number.*)
(***************************************************************************)
PicRecord == [expects : {"ICW2", "ICW3", "ICW4", "OCW1"}, offset : 0 .. 255, mask : 0 .. 255]

(* One PIC after k of the writes it gets.                                   *)
PicAfter(pic, k, offset) ==
  /\ k = 1 => pic.expects = "ICW2"
  /\ k = 2 => pic.expects = "ICW3"
  /\ k = 3 => pic.expects = "ICW4"
  /\ k \in 4 .. 5 => pic.expects = "OCW1"
  /\ k \in 2 .. 5 => pic.offset = offset
  /\ k = 5 => pic.mask = 255

OddWrites == IF writes = 0 THEN 0 ELSE IF writes <= 2 THEN 1 ELSE IF writes <= 4 THEN 2
             ELSE IF writes <= 6 THEN 3 ELSE IF writes <= 8 THEN 4 ELSE 5
EvenWrites == IF writes <= 1 THEN 0 ELSE IF writes <= 3 THEN 1 ELSE IF writes <= 5 THEN 2
              ELSE IF writes <= 7 THEN 3 ELSE IF writes <= 9 THEN 4 ELSE 5

PicsIInv ==
  /\ pc \in {"pic", "lidt", "fill", "syscall", "idle"}
  /\ writes \in 0 .. 10
  /\ pc # "pic" => writes = 10
  /\ pics \in [1 .. 2 -> PicRecord]
  /\ PicAfter(pics[1], OddWrites, PIC1_OFFSET)
  /\ PicAfter(pics[2], EvenWrites, PIC2_OFFSET)

(* The k-th byte a PIC gets in a run of pic_remap_irq0.                     *)
ByteFor(w, k, offset) ==
  /\ w.port = (IF k = 1 THEN "command" ELSE "data")
  /\ w.value \in 0 .. 255
  /\ k = 2 => w.value = offset
  /\ k = 5 => w.value = 255

LEMMA WrittenFollows ==
  ASSUME NEW pic \in PicRecord, NEW w, NEW k \in 1 .. 5, NEW offset \in 0 .. 255,
         ByteFor(w, k, offset), PicAfter(pic, k - 1, offset)
  PROVE  Written(pic, w) \in PicRecord /\ PicAfter(Written(pic, w), k, offset)
<1>1. CASE k = 1
  <2>1. Written(pic, w) = [expects |-> "ICW2", offset |-> pic.offset, mask |-> 0]
    BY <1>1 DEF ByteFor, Written
  <2>2. QED
    BY <1>1, <2>1 DEF PicRecord, PicAfter
<1>2. CASE k = 2
  <2>1. Written(pic, w) = [expects |-> "ICW3", offset |-> w.value, mask |-> pic.mask]
    BY <1>2 DEF ByteFor, Written, PicAfter
  <2>2. QED
    BY <1>2, <2>1 DEF PicRecord, PicAfter, ByteFor
<1>3. CASE k = 3
  <2>1. Written(pic, w) = [pic EXCEPT !.expects = "ICW4"]
    BY <1>3 DEF ByteFor, Written, PicAfter
  <2>2. QED
    BY <1>3, <2>1 DEF PicRecord, PicAfter, ByteFor
<1>4. CASE k = 4
  <2>1. Written(pic, w) = [pic EXCEPT !.expects = "OCW1"]
    BY <1>4 DEF ByteFor, Written, PicAfter
  <2>2. QED
    BY <1>4, <2>1 DEF PicRecord, PicAfter, ByteFor
<1>5. CASE k = 5
  <2>1. Written(pic, w) = [pic EXCEPT !.mask = w.value]
    BY <1>5 DEF ByteFor, Written, PicAfter
  <2>2. QED
    BY <1>5, <2>1 DEF PicRecord, PicAfter, ByteFor
<1>6. QED
  BY <1>1, <1>2, <1>3, <1>4, <1>5

LEMMA WritesAlternate ==
  /\ Len(PicWrites) = 10
  /\ \A k \in 1 .. 5 :
       /\ PicWrites[2 * k - 1].pic = 1 /\ ByteFor(PicWrites[2 * k - 1], k, PIC1_OFFSET)
       /\ PicWrites[2 * k].pic = 2 /\ ByteFor(PicWrites[2 * k], k, PIC2_OFFSET)
<1>1. Len(PicWrites) = 10
  BY DEF PicWrites
<1>2. \A k \in 1 .. 5 : k \in {1, 2, 3, 4, 5}
  OBVIOUS
<1>3. PicWrites[1] = ICW1(1) /\ PicWrites[2] = ICW1(2)
  BY DEF PicWrites
<1>4. PicWrites[3] = Data(1, PIC1_OFFSET) /\ PicWrites[4] = Data(2, PIC2_OFFSET)
  BY DEF PicWrites
<1>5. PicWrites[5] = Data(1, 4) /\ PicWrites[6] = Data(2, 2)
  BY DEF PicWrites
<1>6. PicWrites[7] = Data(1, 1) /\ PicWrites[8] = Data(2, 1)
  BY DEF PicWrites
<1>7. PicWrites[9] = Data(1, 255) /\ PicWrites[10] = Data(2, 255)
  BY DEF PicWrites
<1>8. QED
  BY SMTT(60), <1>1, <1>2, <1>3, <1>4, <1>5, <1>6, <1>7
  DEF ByteFor, ICW1, Data, PIC1_OFFSET, PIC2_OFFSET

LEMMA PicWriteKeepsPics == PicsIInv /\ PicWrite => PicsIInv'
<1> SUFFICES ASSUME PicsIInv, PicWrite PROVE PicsIInv'
  OBVIOUS
<1> DEFINE w == PicWrites[writes + 1]
<1>1. writes \in 0 .. 9 /\ writes' = writes + 1 /\ pics \in [1 .. 2 -> PicRecord]
  BY WritesAlternate DEF PicsIInv, PicWrite
<1>2. pics' = [pics EXCEPT ![w.pic] = Written(pics[w.pic], w)]
  BY DEF PicWrite
<1>3. pc = "pic" /\ pc' = IF writes' = 10 THEN "lidt" ELSE pc
  BY <1>1, WritesAlternate DEF PicWrite, InStart
<1>4. PIC1_OFFSET \in 0 .. 255 /\ PIC2_OFFSET \in 0 .. 255
  BY DEF PIC1_OFFSET, PIC2_OFFSET
<1>5. ASSUME NEW k \in 1 .. 5, writes = 2 * k - 2
      PROVE  /\ pics' \in [1 .. 2 -> PicRecord]
             /\ PicAfter(pics'[1], OddWrites', PIC1_OFFSET)
             /\ PicAfter(pics'[2], EvenWrites', PIC2_OFFSET)
  <2>1. w.pic = 1 /\ ByteFor(w, k, PIC1_OFFSET)
    BY <1>5, WritesAlternate
  <2>2. OddWrites = k - 1 /\ OddWrites' = k /\ EvenWrites' = EvenWrites
    BY <1>1, <1>5 DEF OddWrites, EvenWrites
  <2>3. Written(pics[1], w) \in PicRecord /\ PicAfter(Written(pics[1], w), k, PIC1_OFFSET)
    <3>1. pics[1] \in PicRecord
      BY <1>1
    <3>2. PicAfter(pics[1], k - 1, PIC1_OFFSET)
      BY <2>2 DEF PicsIInv
    <3> HIDE DEF w
    <3>3. QED
      BY <1>4, <2>1, <3>1, <3>2, WrittenFollows
  <2>4. pics'[1] = Written(pics[1], w) /\ pics'[2] = pics[2]
    BY <1>1, <1>2, <2>1
  <2>5. pics' \in [1 .. 2 -> PicRecord]
    BY <1>1, <1>2, <2>1, <2>3
  <2>6. QED
    BY <2>2, <2>3, <2>4, <2>5 DEF PicsIInv
<1>6. ASSUME NEW k \in 1 .. 5, writes = 2 * k - 1
      PROVE  /\ pics' \in [1 .. 2 -> PicRecord]
             /\ PicAfter(pics'[1], OddWrites', PIC1_OFFSET)
             /\ PicAfter(pics'[2], EvenWrites', PIC2_OFFSET)
  <2>1. w.pic = 2 /\ ByteFor(w, k, PIC2_OFFSET)
    BY <1>6, WritesAlternate
  <2>2. EvenWrites = k - 1 /\ EvenWrites' = k /\ OddWrites' = OddWrites
    BY <1>1, <1>6 DEF OddWrites, EvenWrites
  <2>3. Written(pics[2], w) \in PicRecord /\ PicAfter(Written(pics[2], w), k, PIC2_OFFSET)
    <3>1. pics[2] \in PicRecord
      BY <1>1
    <3>2. PicAfter(pics[2], k - 1, PIC2_OFFSET)
      BY <2>2 DEF PicsIInv
    <3> HIDE DEF w
    <3>3. QED
      BY <1>4, <2>1, <3>1, <3>2, WrittenFollows
  <2>4. pics'[2] = Written(pics[2], w) /\ pics'[1] = pics[1]
    BY <1>1, <1>2, <2>1
  <2>5. pics' \in [1 .. 2 -> PicRecord]
    BY <1>1, <1>2, <2>1, <2>3
  <2>6. QED
    BY <2>2, <2>3, <2>4, <2>5 DEF PicsIInv
<1>7. \E k \in 1 .. 5 : writes = 2 * k - 2 \/ writes = 2 * k - 1
  <2>1. writes \in {0, 1, 2, 3, 4, 5, 6, 7, 8, 9}
    BY <1>1
  <2>2. 1 \in 1 .. 5 /\ 2 \in 1 .. 5 /\ 3 \in 1 .. 5 /\ 4 \in 1 .. 5 /\ 5 \in 1 .. 5
    OBVIOUS
  <2>3. QED
    BY <2>1, <2>2
<1>8. QED
  BY <1>1, <1>3, <1>5, <1>6, <1>7 DEF PicsIInv

LEMMA OthersKeepPics ==
  ASSUME PicsIInv,
         \/ LoadIdt \/ FillVector \/ SkipVector \/ FillEnds \/ SetSyscall
         \/ UNCHANGED control
  PROVE  PicsIInv'
<1>1. UNCHANGED <<writes, pics>>
  BY DEF LoadIdt, FillVector, SkipVector, FillEnds, SetSyscall, control
<1>2. /\ pc' \in {"pic", "lidt", "fill", "syscall", "idle"}
      /\ pc' # "pic" => pc # "pic"
  BY DEF LoadIdt, FillVector, SkipVector, FillEnds, SetSyscall, control, InStart, PicsIInv
<1>3. QED
  BY <1>1, <1>2 DEF PicsIInv, OddWrites, EvenWrites

LEMMA PicsInvariant == KernelSpec => []PicsIInv
<1>1. KernelInit => PicsIInv
  <2> SUFFICES ASSUME Init PROVE PicsIInv
    BY DEF KernelInit
  <2>1. pics[1] = [expects |-> "OCW1", offset |-> 8, mask |-> 0]
          /\ pics[2] = [expects |-> "OCW1", offset |-> 112, mask |-> 0]
    BY DEF Init
  <2>2. pics \in [1 .. 2 -> PicRecord]
    BY DEF Init, PicRecord
  <2>3. OddWrites = 0 /\ EvenWrites = 0
    BY DEF Init, OddWrites, EvenWrites
  <2>4. QED
    BY <2>2, <2>3 DEF Init, PicsIInv, PicAfter
<1>2. PicsIInv /\ [KernelNext]_kernelVars => PicsIInv'
  <2> SUFFICES ASSUME PicsIInv, [KernelNext]_kernelVars PROVE PicsIInv'
    OBVIOUS
  <2>1. PicWrite \/ LoadIdt \/ FillVector \/ SkipVector \/ FillEnds \/ SetSyscall \/ UNCHANGED control
    BY StepKinds, EventsKeepControl DEF vars, Start
  <2>2. QED
    BY <2>1, PicWriteKeepsPics, OthersKeepPics
<1>3. QED
  BY <1>1, <1>2, PTL DEF KernelSpec

(* From sti on no IRQ can come: pic_remap_irq0 has both PICs past their     *)
(* initialisation, on vectors no exception has, with all lines masked.      *)
THEOREM NoIrqComes == KernelSpec => []IrqsAreOff
<1>1. PicsIInv => IrqsAreOff
  <2> SUFFICES ASSUME PicsIInv, IdtLoaded PROVE
        \A p \in 1 .. 2 : /\ pics[p].expects = "OCW1" /\ pics[p].mask = 255
                          /\ pics[p].offset \in 32 .. 248 /\ pics[p].offset % 8 = 0
    BY DEF IrqsAreOff
  <2>1. OddWrites = 5 /\ EvenWrites = 5
    BY DEF PicsIInv, IdtLoaded, OddWrites, EvenWrites
  <2>2. pics[1].expects = "OCW1" /\ pics[1].mask = 255 /\ pics[1].offset = 32
    BY <2>1 DEF PicsIInv, PicAfter, PIC1_OFFSET
  <2>3. pics[2].expects = "OCW1" /\ pics[2].mask = 255 /\ pics[2].offset = 40
    BY <2>1 DEF PicsIInv, PicAfter, PIC2_OFFSET
  <2>4. \A p \in 1 .. 2 : p = 1 \/ p = 2
    OBVIOUS
  <2>5. QED
    BY <2>2, <2>3, <2>4
<1>2. QED
  BY <1>1, PicsInvariant, PTL

(***************************************************************************)
(* The handlers.  None is entered before lidt, nor for a vector idt_init   *)
(* has no handler for.                                                     *)
(***************************************************************************)
FrameRecord == [vector : isr_list, halted : BOOLEAN]

HandlersIInv ==
  /\ \A v \in 0 .. 31 : Valid(v) => v \in isr_list
  /\ frames \in Seq(FrameRecord)
  /\ frames # <<>> => IdtLoaded

(* The last thing the processor tries is the double fault.                  *)
LEMMA AttemptsEnd ==
  ASSUME NEW v \in 0 .. 31
  PROVE  \E n \in 1 .. 3 : /\ DOMAIN Attempts(v) = 1 .. n
                           /\ Attempts(v)[n] = DOUBLE_FAULT
                           /\ \A i \in 1 .. n : Attempts(v)[i] \in 0 .. 31
<1>1. CASE v = DOUBLE_FAULT
  <2>1. Attempts(v) = <<v>>
    BY <1>1 DEF Attempts, DOUBLE_FAULT, Faults
  <2>2. 1 \in 1 .. 3 /\ DOMAIN Attempts(v) = 1 .. 1 /\ Attempts(v)[1] = DOUBLE_FAULT
    BY <2>1, <1>1
  <2>3. QED
    BY <2>2, <1>1
<1>2. CASE v # DOUBLE_FAULT /\ v \in Faults
  <2>1. Attempts(v) = <<v, DOUBLE_FAULT>>
    BY <1>2 DEF Attempts
  <2>2. 2 \in 1 .. 3 /\ DOMAIN Attempts(v) = 1 .. 2 /\ Attempts(v)[2] = DOUBLE_FAULT
          /\ \A i \in 1 .. 2 : Attempts(v)[i] \in 0 .. 31
    BY <2>1 DEF DOUBLE_FAULT
  <2>3. QED
    BY <2>2
<1>3. CASE v # DOUBLE_FAULT /\ v \notin Faults
  <2>1. Attempts(v) = <<v, GENERAL_PROTECTION, DOUBLE_FAULT>>
    BY <1>3 DEF Attempts
  <2>2. 3 \in 1 .. 3 /\ DOMAIN Attempts(v) = 1 .. 3 /\ Attempts(v)[3] = DOUBLE_FAULT
          /\ \A i \in 1 .. 3 : Attempts(v)[i] \in 0 .. 31
    BY <2>1 DEF DOUBLE_FAULT, GENERAL_PROTECTION
  <2>3. QED
    BY <2>2
<1>4. QED
  BY <1>1, <1>2, <1>3

(* What a delivered exception does: enters a handler that has a gate, or    *)
(* loses the processor, which resets the machine only without a gate for    *)
(* the double fault.                                                        *)
LEMMA DeliverKinds ==
  ASSUME NEW v \in 0 .. 31, Deliver(v)
  PROVE  \/ cpu' = "reset" /\ UNCHANGED frames /\ ~Valid(DOUBLE_FAULT)
         \/ cpu' = "wild" /\ UNCHANGED frames
         \/ /\ cpu' = "runs"
            /\ \E w \in 0 .. 31 : Valid(w) /\ frames' = Append(frames, [vector |-> w, halted |-> FALSE])
<1> DEFINE found == {i \in DOMAIN Attempts(v) : Valid(Attempts(v)[i])}
<1>1. PICK n \in 1 .. 3 : /\ DOMAIN Attempts(v) = 1 .. n
                          /\ Attempts(v)[n] = DOUBLE_FAULT
                          /\ \A i \in 1 .. n : Attempts(v)[i] \in 0 .. 31
  BY AttemptsEnd
<1>2. CASE found = {}
  <2>1. cpu' = "reset" /\ UNCHANGED frames
    BY <1>2 DEF Deliver
  <2>2. n \in DOMAIN Attempts(v)
    BY <1>1
  <2>3. QED
    BY <1>1, <1>2, <2>1, <2>2
<1>3. CASE found # {}
  <2>1. PICK i \in found : IF Complete(Attempts(v)[i]) THEN Enter(Attempts(v)[i])
                           ELSE cpu' = "wild" /\ UNCHANGED <<IF_flag, frames>>
    BY <1>3 DEF Deliver
  <2>2. Attempts(v)[i] \in 0 .. 31 /\ Valid(Attempts(v)[i])
    BY <1>1, <2>1
  <2>3. QED
    BY <2>1, <2>2 DEF Enter
<1>4. QED
  BY <1>2, <1>3

LEMMA EventKinds ==
  ASSUME (\E v \in EXCEPTIONS : Exception(v)) \/ Nmi \/ IretFaults
  PROVE  /\ IdtLoaded \/ frames # <<>>
         /\ cpu \in {"runs", "halted"}
         /\ \/ cpu' = "reset" /\ UNCHANGED frames /\ ~Valid(DOUBLE_FAULT)
            \/ cpu' = "wild" /\ UNCHANGED frames
            \/ /\ cpu' = "runs"
               /\ \E w \in 0 .. 31 : Valid(w) /\ frames' = Append(frames, [vector |-> w, halted |-> FALSE])
<1>1. \E v \in 0 .. 31 : Deliver(v)
  <2>1. NMI \in 0 .. 31 /\ GENERAL_PROTECTION \in 0 .. 31
    BY DEF NMI, GENERAL_PROTECTION
  <2>2. QED
    BY <2>1, ExceptionsAssumption DEF Exception, Nmi, IretFaults
<1>2. (IdtLoaded \/ frames # <<>>) /\ cpu \in {"runs", "halted"}
  BY DEF Exception, Nmi, IretFaults, AtIret
<1>3. QED
  BY <1>1, <1>2, DeliverKinds

LEMMA StartKeepsHandlers == GateIInv /\ HandlersIInv /\ Start => HandlersIInv'
<1> SUFFICES ASSUME GateIInv, HandlersIInv, Start PROVE HandlersIInv'
  OBVIOUS
<1>1. UNCHANGED frames /\ frames = <<>>
  BY DEF Start, PicWrite, LoadIdt, FillVector, SkipVector, FillEnds, SetSyscall, InStart, machine
<1>2. \A v \in 0 .. 31 : Valid(v)' => v \in isr_list
  <2>1. CASE FillVector
    <3>1. gates' = [gates EXCEPT ![vector] = @ \cup {Fields[stores + 1]}] /\ vector \in isr_list
      BY <2>1 DEF FillVector, SetDescriptor
    <3>2. \A v \in 0 .. 31 : v # vector => gates'[v] = gates[v]
      BY <3>1 DEF GateIInv, FieldsAreStored
    <3>3. QED
      BY <3>1, <3>2 DEF HandlersIInv, Valid
  <2>2. CASE SetSyscall
    <3>1. gates' = [gates EXCEPT ![vector] = @ \cup {Fields[stores + 1]}] /\ vector = SYSCALL
      BY <2>2 DEF SetSyscall, SetDescriptor, InStart, GateIInv, VectorIsInPlace
    <3>2. \A v \in 0 .. 31 : gates'[v] = gates[v]
      BY <3>1 DEF GateIInv, FieldsAreStored, SYSCALL
    <3>3. QED
      BY <3>2 DEF HandlersIInv, Valid
  <2>3. CASE PicWrite \/ LoadIdt \/ SkipVector \/ FillEnds
    BY <2>3 DEF PicWrite, LoadIdt, SkipVector, FillEnds, HandlersIInv, Valid
  <2>4. QED
    BY <2>1, <2>2, <2>3 DEF Start
<1>3. QED
  BY <1>1, <1>2 DEF HandlersIInv

LEMMA EventsKeepHandlers ==
  ASSUME HandlersIInv, (\E v \in EXCEPTIONS : Exception(v)) \/ Nmi \/ Handler
  PROVE  HandlersIInv'
<1>1. UNCHANGED <<pc, gates>>
  BY EventsKeepControl DEF control
<1>2. \A v \in 0 .. 31 : Valid(v)' => v \in isr_list
  BY <1>1 DEF HandlersIInv, Valid
<1>3. (frames # <<>> \/ IdtLoaded) => IdtLoaded'
  BY <1>1 DEF HandlersIInv, IdtLoaded
<1>4. CASE (\E v \in EXCEPTIONS : Exception(v)) \/ Nmi \/ IretFaults
  <2>1. frames' = frames \/ \E w \in isr_list : frames' = Append(frames, [vector |-> w, halted |-> FALSE])
    BY <1>4, EventKinds DEF HandlersIInv
  <2>2. \A w \in isr_list : [vector |-> w, halted |-> FALSE] \in FrameRecord
    BY DEF FrameRecord
  <2>3. frames' \in Seq(FrameRecord)
    BY <2>1, <2>2, AppendProperties, ZenonT(60) DEF HandlersIInv
  <2>4. QED
    BY <1>2, <1>3, <1>4, <2>3, EventKinds DEF HandlersIInv
<1>5. CASE FatalHalts
  <2>1. frames' = [frames EXCEPT ![Len(frames)] = [frames[Len(frames)] EXCEPT !.halted = TRUE]]
          /\ frames # <<>>
    BY <1>5 DEF FatalHalts
  <2>2. Len(frames) \in 1 .. Len(frames)
    BY <2>1 DEF HandlersIInv
  <2>3. [frames[Len(frames)] EXCEPT !.halted = TRUE] \in FrameRecord
    <3>1. frames[Len(frames)] \in FrameRecord
      BY <2>2 DEF HandlersIInv
    <3>2. QED
      BY <3>1 DEF FrameRecord
  <2>4. frames' \in Seq(FrameRecord)
    BY <2>1, <2>2, <2>3 DEF HandlersIInv
  <2>5. QED
    BY <1>2, <1>3, <2>1, <2>4 DEF HandlersIInv
<1>6. CASE IretGoesOn
  <2>1. frames # <<>> /\ (frames' = frames \/ frames' = SubSeq(frames, 1, Len(frames) - 1))
    BY <1>6 DEF IretGoesOn, AtIret
  <2>2. frames' \in Seq(FrameRecord)
    <3>1. Len(frames) \in Nat \ {0}
      BY <2>1 DEF HandlersIInv
    <3>2. \A i \in 1 .. Len(frames) - 1 : frames[i] \in FrameRecord
      BY <3>1 DEF HandlersIInv
    <3>3. SubSeq(frames, 1, Len(frames) - 1) \in Seq(FrameRecord)
      BY <3>1, <3>2, SubSeqProperties DEF HandlersIInv
    <3>4. QED
      BY <2>1, <3>3 DEF HandlersIInv
  <2>3. QED
    BY <1>2, <1>3, <2>1, <2>2 DEF HandlersIInv
<1>7. QED
  BY <1>4, <1>5, <1>6 DEF Handler

LEMMA HandlersInvariant == KernelSpec => []HandlersIInv
<1>1. KernelInit => HandlersIInv
  BY DEF KernelInit, Init, HandlersIInv, Valid
<1>2. GateIInv /\ HandlersIInv /\ [KernelNext]_kernelVars => HandlersIInv'
  <2>1. HandlersIInv /\ UNCHANGED vars => HandlersIInv'
    BY DEF vars, control, HandlersIInv, Valid, IdtLoaded
  <2>2. QED
    BY <2>1, StepKinds, StartKeepsHandlers, EventsKeepHandlers
<1>3. QED
  BY <1>1, <1>2, GatesInvariant, PTL DEF KernelSpec

(* Once idt_init has passed the double fault, no exception resets the       *)
(* machine, however many come and wherever they come.                       *)
THEOREM ResetsAreEarly == KernelSpec => ResetOnlyWhileFilling
<1>1. GateIInv /\ HandlersIInv /\ [KernelNext]_kernelVars
        => [cpu' = "reset" => pc = "fill" /\ vector <= DOUBLE_FAULT]_vars
  <2> SUFFICES ASSUME GateIInv, HandlersIInv, [KernelNext]_kernelVars, ~UNCHANGED vars, cpu' = "reset"
               PROVE  pc = "fill" /\ vector <= DOUBLE_FAULT
    OBVIOUS
  <2>1. CASE Start
    BY <2>1 DEF Start, PicWrite, LoadIdt, FillVector, SkipVector, FillEnds, SetSyscall, InStart, machine
  <2>2. CASE FatalHalts \/ IretGoesOn
    BY <2>2 DEF FatalHalts, IretGoesOn
  <2>3. CASE (\E v \in EXCEPTIONS : Exception(v)) \/ Nmi \/ IretFaults
    <3>1. ~Valid(DOUBLE_FAULT) /\ (IdtLoaded \/ frames # <<>>)
      BY <2>3, EventKinds
    <3>2. IdtLoaded
      BY <3>1 DEF HandlersIInv
    <3>3. pc = "fill" /\ vector \in 0 .. 32 /\ ~(vector > DOUBLE_FAULT)
      BY <3>1, <3>2 DEF IdtLoaded, GateIInv, VectorIsInPlace, DoubleFaultHasGate
    <3>4. QED
      BY <3>3 DEF DOUBLE_FAULT
  <2>4. QED
    BY <2>1, <2>2, <2>3, StepKinds DEF Handler
<1>2. QED
  BY <1>1, GatesInvariant, HandlersInvariant, PTL DEF KernelSpec, ResetOnlyWhileFilling

(***************************************************************************)
(* The console.  Each handler has an entry of prints, behind that of       *)
(* _start: its text is the message, or as much of it as is not yet drawn.  *)
(***************************************************************************)
JobRecord == [text : Seq({GLYPH, NEWLINE}), placed : BOOLEAN, drawn : Nat]

JobOf(job, frame) ==
  LET length == MESSAGE[frame.vector] IN
    /\ job.drawn \in 0 .. length
    /\ \/ job.drawn = 0 /\ job.text = <<NEWLINE>> \o Glyphs(length)
       \/ job.text = Glyphs(length - job.drawn)
    /\ frame.halted => job.text = <<>>

ConsoleIInv ==
  /\ phase \in {"clear", "font"} => pc = "pic"
  /\ phase \notin {"clear", "font"} => font
  /\ prints \in Seq(JobRecord)
  /\ Len(prints) = Len(frames) + 1
  /\ \A i \in 1 .. Len(frames) : JobOf(prints[i + 1], frames[i])

LEMMA GlyphsAreText ==
  ASSUME NEW n \in Nat
  PROVE  /\ Glyphs(n) \in Seq({GLYPH, NEWLINE})
         /\ Len(Glyphs(n)) = n
         /\ n # 0 => Head(Glyphs(n)) = GLYPH /\ Tail(Glyphs(n)) = Glyphs(n - 1)
         /\ <<NEWLINE>> \o Glyphs(n) \in Seq({GLYPH, NEWLINE})
         /\ Head(<<NEWLINE>> \o Glyphs(n)) = NEWLINE
         /\ Tail(<<NEWLINE>> \o Glyphs(n)) = Glyphs(n)
         /\ <<NEWLINE>> \o Glyphs(n) # <<>>
<1> DEFINE Chars == {GLYPH, NEWLINE}
<1>1. Glyphs(n) \in Seq(Chars) /\ Len(Glyphs(n)) = n
  BY DEF Glyphs
<1>2. ASSUME n # 0 PROVE Head(Glyphs(n)) = GLYPH /\ Tail(Glyphs(n)) = Glyphs(n - 1)
  BY <1>2 DEF Glyphs
<1>3. <<NEWLINE>> \in Seq(Chars) /\ Len(<<NEWLINE>>) = 1
  OBVIOUS
<1>4. <<NEWLINE>> \o Glyphs(n) \in Seq(Chars) /\ Len(<<NEWLINE>> \o Glyphs(n)) = n + 1
  BY <1>1, <1>3, ConcatProperties
<1>5. Head(<<NEWLINE>> \o Glyphs(n)) = NEWLINE /\ Tail(<<NEWLINE>> \o Glyphs(n)) = Glyphs(n)
  BY <1>1, <1>3, <1>4
<1>6. QED
  BY <1>1, <1>2, <1>4, <1>5

(* One character of a handler's text.                                       *)
LEMMA CharacterKeepsJob ==
  ASSUME NEW frame \in FrameRecord, NEW job \in JobRecord, JobOf(job, frame), job.text # <<>>
  PROVE  /\ ~frame.halted
         /\ JobOf([job EXCEPT !.placed = TRUE], frame)
         /\ Head(job.text) = NEWLINE =>
              JobOf([text |-> Tail(job.text), placed |-> FALSE, drawn |-> job.drawn + 0], frame)
         /\ Head(job.text) = GLYPH =>
              JobOf([text |-> Tail(job.text), placed |-> FALSE, drawn |-> job.drawn + 1], frame)
<1> DEFINE length == MESSAGE[frame.vector]
<1>1. length \in Nat /\ job.drawn \in 0 .. length /\ job.drawn \in Nat
  BY MessageAssumption DEF FrameRecord, JobRecord, JobOf
<1>2. ~frame.halted
  BY DEF JobOf
<1>3. JobOf([job EXCEPT !.placed = TRUE], frame)
  BY DEF JobOf, JobRecord
<1>4. NEWLINE # GLYPH
  BY DEF NEWLINE, GLYPH
<1>5. CASE job.drawn = 0 /\ job.text = <<NEWLINE>> \o Glyphs(length)
  <2>1. Head(job.text) = NEWLINE /\ Tail(job.text) = Glyphs(length)
    BY <1>1, <1>5, GlyphsAreText
  <2>2. JobOf([text |-> Tail(job.text), placed |-> FALSE, drawn |-> job.drawn + 0], frame)
    BY <1>1, <1>2, <1>5, <2>1 DEF JobOf
  <2>3. QED
    BY <1>2, <1>3, <1>4, <2>1, <2>2
<1>6. CASE job.text = Glyphs(length - job.drawn)
  <2>1. length - job.drawn \in Nat \ {0}
    BY <1>1, <1>6 DEF Glyphs
  <2>2. Head(job.text) = GLYPH /\ Tail(job.text) = Glyphs(length - job.drawn - 1)
    BY <1>6, <2>1, GlyphsAreText
  <2>3. job.drawn + 1 \in 0 .. length /\ length - (job.drawn + 1) = length - job.drawn - 1
    BY <1>1, <2>1
  <2>4. JobOf([text |-> Tail(job.text), placed |-> FALSE, drawn |-> job.drawn + 1], frame)
    BY <1>2, <2>2, <2>3 DEF JobOf
  <2>5. QED
    BY <1>2, <1>3, <1>4, <2>2, <2>4
<1>7. QED
  BY <1>5, <1>6 DEF JobOf

(* A change of the entry of the activation that runs.                       *)
LEMMA RunningChanges ==
  ASSUME ConsoleIInv, HandlersIInv, UNCHANGED <<phase, pc, frames>>,
         NEW job \in JobRecord, prints' = WithRunning(job), font' = font,
         frames # <<>> => JobOf(job, frames[Len(frames)])
  PROVE  ConsoleIInv'
<1>1. Len(frames) \in Nat /\ Len(prints) = Len(frames) + 1 /\ prints \in Seq(JobRecord)
  BY DEF ConsoleIInv, HandlersIInv
<1>2. prints' = [prints EXCEPT ![Len(prints)] = job]
  BY DEF WithRunning, ReplaceAt
<1>3. prints' \in Seq(JobRecord) /\ Len(prints') = Len(prints)
        /\ \A i \in 1 .. Len(prints) : prints'[i] = IF i = Len(prints) THEN job ELSE prints[i]
  BY <1>1, <1>2, ExceptSeq
<1>4. ASSUME NEW i \in 1 .. Len(frames) PROVE JobOf(prints'[i + 1], frames[i])
  <2>1. CASE i = Len(frames)
    BY <1>1, <1>3, <2>1
  <2>2. CASE i # Len(frames)
    BY <1>1, <1>3, <2>2, SMTT(60) DEF ConsoleIInv
  <2>3. QED
    BY <2>1, <2>2
<1>5. (\A i \in 1 .. Len(frames) : JobOf(prints[i + 1], frames[i]))'
  BY <1>4 DEF JobOf
<1>6. QED
  BY <1>1, <1>3, <1>5 DEF ConsoleIInv

LEMMA RunningIsJob ==
  ASSUME ConsoleIInv, HandlersIInv
  PROVE  /\ Running \in JobRecord
         /\ frames # <<>> => /\ frames[Len(frames)] \in FrameRecord
                             /\ JobOf(Running, frames[Len(frames)])
                             /\ font
<1>1. Len(frames) \in Nat /\ Len(prints) = Len(frames) + 1 /\ prints \in Seq(JobRecord)
  BY DEF ConsoleIInv, HandlersIInv
<1>2. Running = prints[Len(frames) + 1]
  BY <1>1 DEF Running, Last
<1>3. Running \in JobRecord
  BY <1>1, <1>2
<1>4. ASSUME frames # <<>>
      PROVE  frames[Len(frames)] \in FrameRecord /\ JobOf(Running, frames[Len(frames)]) /\ font
  <2>0. frames \in Seq(FrameRecord)
    BY DEF HandlersIInv
  <2>1. Len(frames) \in 1 .. Len(frames) /\ frames[Len(frames)] \in FrameRecord
    BY <1>4, <2>0
  <2>2. font
    BY <1>4 DEF HandlersIInv, IdtLoaded, ConsoleIInv
  <2>3. QED
    BY <1>2, <2>1, <2>2 DEF ConsoleIInv
<1>5. QED
  BY <1>3, <1>4

LEMMA PutcharKeepsConsole == ConsoleIInv /\ HandlersIInv /\ Putchar => ConsoleIInv'
<1> SUFFICES ASSUME ConsoleIInv, HandlersIInv, Putchar PROVE ConsoleIInv'
  OBVIOUS
<1>1. UNCHANGED <<phase, pc, frames, font>> /\ Running.text # <<>>
  BY DEF Putchar, Place, PutNewline, PutGlyph, CPrints, vars, control
<1>2. Running \in JobRecord /\ Running.text \in Seq({GLYPH, NEWLINE}) /\ Running.drawn \in Nat
  BY RunningIsJob DEF JobRecord
<1>3. Tail(Running.text) \in Seq({GLYPH, NEWLINE})
  BY <1>1, <1>2, HeadTailProperties
<1>4. CASE Place
  <2>1. CASE font
    <3> DEFINE job == [Running EXCEPT !.placed = TRUE]
    <3>1. prints' = WithRunning(job)
      BY <1>4, <2>1 DEF Place
    <3>2. job \in JobRecord
      BY <1>2 DEF JobRecord
    <3>3. frames # <<>> => JobOf(job, frames[Len(frames)])
      BY <1>1, <1>2, RunningIsJob, CharacterKeepsJob
    <3>4. QED
      BY <1>1, <3>1, <3>2, <3>3, RunningChanges
  <2>2. CASE ~font
    <3> DEFINE job == [Running EXCEPT !.text = Tail(Running.text)]
    <3>1. prints' = WithRunning(job)
      BY <1>4, <2>2 DEF Place
    <3>2. job \in JobRecord
      BY <1>2, <1>3 DEF JobRecord
    <3>3. frames = <<>>
      BY <2>2, RunningIsJob
    <3>4. QED
      BY <1>1, <3>1, <3>2, <3>3, RunningChanges
  <2>3. QED
    BY <2>1, <2>2
<1>5. CASE PutNewline
  <2> DEFINE job == [text |-> Tail(Running.text), placed |-> FALSE, drawn |-> Running.drawn + 0]
  <2>1. prints' = WithRunning(job) /\ Head(Running.text) = NEWLINE
    BY <1>5 DEF PutNewline, Printed
  <2>2. job \in JobRecord
    BY <1>2, <1>3 DEF JobRecord
  <2>3. frames # <<>> => JobOf(job, frames[Len(frames)])
    BY <1>1, <1>2, <2>1, RunningIsJob, CharacterKeepsJob
  <2>4. QED
    BY <1>1, <2>1, <2>2, <2>3, RunningChanges
<1>6. CASE PutGlyph
  <2> DEFINE job == [text |-> Tail(Running.text), placed |-> FALSE, drawn |-> Running.drawn + 1]
  <2>1. prints' = WithRunning(job) /\ Head(Running.text) = GLYPH
    BY <1>6 DEF PutGlyph, Printed
  <2>2. job \in JobRecord
    BY <1>2, <1>3 DEF JobRecord
  <2>3. frames # <<>> => JobOf(job, frames[Len(frames)])
    BY <1>1, <1>2, <2>1, RunningIsJob, CharacterKeepsJob
  <2>4. QED
    BY <1>1, <2>1, <2>2, <2>3, RunningChanges
<1>7. QED
  BY <1>4, <1>5, <1>6 DEF Putchar

(* A handler is entered, and its message is asked for.                      *)
LEMMA EnteredKeepsConsole ==
  ASSUME ConsoleIInv, HandlersIInv, UNCHANGED pc, FollowFrames,
         NEW w \in isr_list, frames' = Append(frames, [vector |-> w, halted |-> FALSE])
  PROVE  ConsoleIInv'
<1> DEFINE frame == [vector |-> w, halted |-> FALSE]
<1>1. frames \in Seq(FrameRecord) /\ Len(frames) \in Nat
        /\ Len(prints) = Len(frames) + 1 /\ prints \in Seq(JobRecord)
  BY DEF ConsoleIInv, HandlersIInv
<1>2. frame \in FrameRecord /\ MESSAGE[w] \in Nat
  BY MessageAssumption DEF FrameRecord
<1>3. Len(frames') = Len(frames) + 1 /\ frames'[Len(frames) + 1] = frame
        /\ \A i \in 1 .. Len(frames) : frames'[i] = frames[i]
  BY <1>1, <1>2, AppendProperties
<1>4. Last(frames').vector = w
  BY <1>1, <1>3 DEF Last
<1>5. prints' = Append(prints, Message(w)) /\ UNCHANGED <<phase, font>>
  <2>1. Len(frames') > Len(frames)
    BY <1>1, <1>3
  <2>2. prints' = Append(prints, Message(Last(frames').vector)) /\ UNCHANGED <<phase, font>>
    BY <2>1 DEF FollowFrames, FollowPrints
  <2>3. QED
    BY <1>4, <2>2
<1>6. Message(w) = [text |-> <<NEWLINE>> \o Glyphs(MESSAGE[w]), placed |-> FALSE, drawn |-> 0]
  BY DEF Message, Job
<1>7. Message(w) \in JobRecord /\ JobOf(Message(w), frame)
  <2> DEFINE text == <<NEWLINE>> \o Glyphs(MESSAGE[w])
  <2>1. text \in Seq({GLYPH, NEWLINE})
    BY <1>2, GlyphsAreText
  <2>2. Message(w) = [text |-> text, placed |-> FALSE, drawn |-> 0]
    BY <1>6
  <2>3. Message(w) \in JobRecord
    <3> HIDE DEF text
    <3>1. QED
      BY <2>1, <2>2 DEF JobRecord
  <2>4. JobOf(Message(w), frame)
    <3>1. Message(w).text = <<NEWLINE>> \o Glyphs(MESSAGE[frame.vector])
            /\ Message(w).drawn = 0 /\ ~frame.halted
      BY <2>2
    <3>2. 0 \in 0 .. MESSAGE[frame.vector]
      BY <1>2
    <3>3. QED
      BY <3>1, <3>2 DEF JobOf
  <2>5. QED
    BY <2>3, <2>4
<1>8. prints' \in Seq(JobRecord) /\ Len(prints') = Len(prints) + 1
        /\ prints'[Len(prints) + 1] = Message(w)
        /\ \A i \in 1 .. Len(prints) : prints'[i] = prints[i]
  BY <1>1, <1>5, <1>7, AppendProperties
<1>9. ASSUME NEW i \in 1 .. Len(frames') PROVE JobOf(prints'[i + 1], frames'[i])
  <2>1. CASE i = Len(frames) + 1
    BY <1>1, <1>3, <1>7, <1>8, <2>1
  <2>2. CASE i \in 1 .. Len(frames)
    <3>1. prints'[i + 1] = prints[i + 1] /\ frames'[i] = frames[i]
      BY <1>1, <1>3, <1>8, <2>2
    <3>2. QED
      BY <2>2, <3>1 DEF ConsoleIInv
  <2>3. QED
    BY <1>1, <1>3, <2>1, <2>2
<1>10. (\A i \in 1 .. Len(frames) : JobOf(prints[i + 1], frames[i]))'
  BY <1>9 DEF JobOf
<1>11. QED
  BY <1>1, <1>3, <1>5, <1>8, <1>10 DEF ConsoleIInv

LEMMA ButLast ==
  ASSUME NEW S, NEW seq \in Seq(S), seq # <<>>
  PROVE  /\ SubSeq(seq, 1, Len(seq) - 1) \in Seq(S)
         /\ Len(SubSeq(seq, 1, Len(seq) - 1)) = Len(seq) - 1
         /\ \A i \in 1 .. Len(seq) - 1 : SubSeq(seq, 1, Len(seq) - 1)[i] = seq[i]
<1> DEFINE n == Len(seq) - 1
<1>1. n \in Nat /\ n \in Int
  OBVIOUS
<1>2. \A i \in 1 .. n : seq[i] \in S
  OBVIOUS
<1> HIDE DEF n
<1>3. /\ SubSeq(seq, 1, n) \in Seq(S)
      /\ Len(SubSeq(seq, 1, n)) = IF 1 <= n THEN n - 1 + 1 ELSE 0
      /\ \A i \in 1 .. n - 1 + 1 : SubSeq(seq, 1, n)[i] = seq[1 + i - 1]
  BY <1>1, <1>2, SubSeqProperties
<1>4. Len(SubSeq(seq, 1, n)) = n
  BY <1>1, <1>3
<1>5. ASSUME NEW i \in 1 .. n PROVE SubSeq(seq, 1, n)[i] = seq[i]
  <2>1. i \in 1 .. n - 1 + 1 /\ 1 + i - 1 = i
    BY <1>1
  <2>2. QED
    BY <1>3, <2>1
<1>6. QED
  BY <1>3, <1>4, <1>5 DEF n

(* A handler returns.                                                       *)
LEMMA LeftKeepsConsole ==
  ASSUME ConsoleIInv, HandlersIInv, UNCHANGED pc, FollowFrames,
         frames # <<>>, frames' = SubSeq(frames, 1, Len(frames) - 1)
  PROVE  ConsoleIInv'
<1>1. frames \in Seq(FrameRecord) /\ Len(frames) \in Nat \ {0}
        /\ Len(prints) = Len(frames) + 1 /\ prints \in Seq(JobRecord)
  BY DEF ConsoleIInv, HandlersIInv
<1>2. Len(frames') = Len(frames) - 1 /\ \A i \in 1 .. Len(frames) - 1 : frames'[i] = frames[i]
  BY <1>1, ButLast
<1>3. prints' = SubSeq(prints, 1, Len(prints) - 1) /\ UNCHANGED <<phase, font>>
  BY <1>1, <1>2 DEF FollowFrames, FollowPrints, Front
<1>4. prints' \in Seq(JobRecord) /\ Len(prints') = Len(prints) - 1
        /\ \A i \in 1 .. Len(prints) - 1 : prints'[i] = prints[i]
  <2>1. prints # <<>>
    BY <1>1
  <2>2. QED
    BY <1>1, <1>3, <2>1, ButLast
<1>5. ASSUME NEW i \in 1 .. Len(frames') PROVE JobOf(prints'[i + 1], frames'[i])
  <2>1. prints'[i + 1] = prints[i + 1] /\ frames'[i] = frames[i] /\ i \in 1 .. Len(frames)
    BY <1>1, <1>2, <1>4
  <2>2. QED
    BY <2>1 DEF ConsoleIInv
<1>6. (\A i \in 1 .. Len(frames) : JobOf(prints[i + 1], frames[i]))'
  BY <1>5 DEF JobOf
<1>7. QED
  BY <1>1, <1>2, <1>3, <1>4, <1>6 DEF ConsoleIInv

LEMMA EventsKeepConsole ==
  ASSUME ConsoleIInv, HandlersIInv, Event \/ HandlerEnds
  PROVE  ConsoleIInv'
<1>1. UNCHANGED pc /\ FollowFrames
  BY EventsKeepControl DEF Event, HandlerEnds, control
<1>2. frames \in Seq(FrameRecord) /\ Len(frames) \in Nat
        /\ Len(prints) = Len(frames) + 1 /\ prints \in Seq(JobRecord)
  BY DEF ConsoleIInv, HandlersIInv
<1>3. CASE UNCHANGED frames
  BY <1>1, <1>2, <1>3 DEF FollowFrames, FollowPrints, ConsoleIInv, JobOf
<1>4. CASE (\E v \in EXCEPTIONS : Exception(v)) \/ Nmi \/ IretFaults
  <2>1. UNCHANGED frames \/ \E w \in isr_list : frames' = Append(frames, [vector |-> w, halted |-> FALSE])
    BY <1>4, EventKinds DEF HandlersIInv
  <2>2. QED
    BY <1>1, <1>3, <2>1, EnteredKeepsConsole
<1>5. CASE HandlerEnds /\ FatalHalts
  <2>1. frames' = [frames EXCEPT ![Len(frames)] = [frames[Len(frames)] EXCEPT !.halted = TRUE]]
          /\ frames # <<>>
    BY <1>5 DEF FatalHalts
  <2>2. Len(frames) \in 1 .. Len(frames) /\ frames[Len(frames)] \in FrameRecord
    BY <1>2, <2>1
  <2>3. Len(frames') = Len(frames)
          /\ \A i \in 1 .. Len(frames) : frames'[i] = IF i = Len(frames)
               THEN [frames[Len(frames)] EXCEPT !.halted = TRUE] ELSE frames[i]
    BY <1>2, <2>1, <2>2
  <2>4. UNCHANGED <<prints, phase, font>>
    BY <1>1, <1>2, <2>3 DEF FollowFrames, FollowPrints
  <2>5. Running.text = <<>> /\ Running = prints[Len(frames) + 1]
    BY <1>2, <1>5 DEF HandlerEnds, Running, Last
  <2>6. ASSUME NEW i \in 1 .. Len(frames) PROVE JobOf(prints[i + 1], frames'[i])
    <3>1. JobOf(prints[i + 1], frames[i])
      BY DEF ConsoleIInv
    <3>2. CASE i # Len(frames)
      BY <2>3, <3>1, <3>2
    <3>3. CASE i = Len(frames)
      <4>1. frames'[i].vector = frames[i].vector
        BY <2>2, <2>3, <3>3 DEF FrameRecord
      <4>2. prints[i + 1].text = <<>>
        BY <2>5, <3>3
      <4>3. QED
        BY <3>1, <4>1, <4>2 DEF JobOf
    <3>4. QED
      BY <3>2, <3>3
  <2>7. (\A i \in 1 .. Len(frames) : JobOf(prints[i + 1], frames[i]))'
    BY <2>3, <2>4, <2>6 DEF JobOf
  <2>8. QED
    BY <1>1, <2>3, <2>4, <2>7 DEF ConsoleIInv
<1>6. CASE IretGoesOn
  <2>1. frames # <<>> /\ (UNCHANGED frames \/ frames' = SubSeq(frames, 1, Len(frames) - 1))
    BY <1>6 DEF IretGoesOn, AtIret
  <2>2. QED
    BY <1>1, <1>3, <2>1, LeftKeepsConsole
<1>7. QED
  BY <1>4, <1>5, <1>6 DEF Event, HandlerEnds, Handler

LEMMA TextsOfStart ==
  ASSUME NEW text \in {Greeting} \cup {DeviceLine(kind) : kind \in Kinds}
  PROVE  Job(text) \in JobRecord
<1> DEFINE Texts == Seq({GLYPH, NEWLINE})
<1>1. Glyphs(1) \in Texts /\ Glyphs(2) \in Texts
  BY GlyphsAreText
<1>2. <<NEWLINE>> \in Texts /\ <<>> \in Texts
  OBVIOUS
<1>3. Glyphs(1) \o <<NEWLINE>> \in Texts /\ Glyphs(2) \o <<NEWLINE>> \in Texts
  BY <1>1, <1>2, ConcatProperties
<1>4. Greeting \in Texts
  BY <1>3 DEF Greeting
<1>5. ASSUME NEW kind \in Kinds PROVE DeviceLine(kind) \in Texts
  <2>1. Rest(kind) \in Texts
    BY <1>2, <1>3 DEF Rest, Kinds
  <2>2. QED
    BY <1>1, <2>1, ConcatProperties DEF DeviceLine, VendorAndDevice
<1>6. text \in Texts
  BY <1>4, <1>5
<1>7. QED
  BY <1>6 DEF Job, JobRecord

LEMMA StartKeepsConsole == ConsoleIInv /\ HandlersIInv /\ _start => ConsoleIInv'
<1> SUFFICES ASSUME ConsoleIInv, HandlersIInv, _start PROVE ConsoleIInv'
  OBVIOUS
<1>1. CASE SetUpInterrupts
  <2>1. Start /\ phase = "interrupts" /\ phase' \in {"interrupts", "heap"} /\ UNCHANGED console
    BY <1>1 DEF SetUpInterrupts, InPhase
  <2>2. UNCHANGED frames
    BY <2>1 DEF Start, PicWrite, LoadIdt, FillVector, SkipVector, FillEnds, SetSyscall, machine
  <2>3. QED
    BY <2>1, <2>2 DEF ConsoleIInv, console, JobOf
<1>2. CASE Clear \/ SetFont \/ InitHeap \/ ReadVendor \/ ScanNone \/ ScanFound \/ StartList \/ ListEnds
  <2>1. UNCHANGED <<pc, frames, prints>>
    BY <1>2 DEF Clear, SetFont, InitHeap, ReadVendor, ScanNone, ScanFound, StartList, ListEnds,
                vars, control, console
  <2>2. /\ phase' \in {"clear", "font"} => phase \in {"clear", "font"}
        /\ phase' \notin {"clear", "font"} => font'
    BY <1>2 DEF Clear, SetFont, InitHeap, ReadVendor, ScanNone, ScanFound, StartList, ListEnds, InPhase,
                ConsoleIInv, console
  <2>3. QED
    BY <2>1, <2>2 DEF ConsoleIInv, JobOf
<1>3. CASE ScanEnds \/ ListDevice
  <2>1. PICK text \in {Greeting} \cup {DeviceLine(kind) : kind \in Kinds} : prints' = WithRunning(Job(text))
    BY <1>3 DEF ScanEnds, ListDevice
  <2>2. UNCHANGED <<pc, frames, font>> /\ frames = <<>>
    BY <1>3 DEF ScanEnds, ListDevice, InPhase, vars, control
  <2>3. phase \in {"scan", "list"} /\ phase' \in {"say", "list"}
    BY <1>3 DEF ScanEnds, ListDevice, InPhase
  <2>4. Len(prints) = 1 /\ prints \in Seq(JobRecord)
    BY <2>2 DEF ConsoleIInv
  <2>5. prints' \in Seq(JobRecord) /\ Len(prints') = 1
    <3>1. Len(prints) \in 1 .. Len(prints) /\ Job(text) \in JobRecord
      BY <2>4, TextsOfStart
    <3>2. prints' = [prints EXCEPT ![Len(prints)] = Job(text)]
      BY <2>1 DEF WithRunning, ReplaceAt
    <3>3. prints' \in Seq(JobRecord) /\ Len(prints') = Len(prints)
      BY <2>4, <3>1, <3>2, ExceptSeq, ZenonT(60)
    <3>4. QED
      BY <2>4, <3>3
  <2>6. QED
    BY <2>2, <2>3, <2>5 DEF ConsoleIInv
<1>4. QED
  BY <1>1, <1>2, <1>3 DEF _start

LEMMA ConsoleInvariant == KernelSpec => []ConsoleIInv
<1>1. KernelInit => ConsoleIInv
  <2> SUFFICES ASSUME KernelInit PROVE ConsoleIInv
    OBVIOUS
  <2>1. Job(<<>>) \in JobRecord
    BY DEF Job, JobRecord
  <2>2. prints \in Seq(JobRecord) /\ Len(prints) = 1 /\ frames = <<>> /\ pc = "pic" /\ phase = "clear"
    BY <2>1 DEF KernelInit, Init
  <2>3. QED
    BY <2>2 DEF ConsoleIInv
<1>2. ConsoleIInv /\ HandlersIInv /\ [KernelNext]_kernelVars => ConsoleIInv'
  <2>1. ConsoleIInv /\ UNCHANGED kernelVars => ConsoleIInv'
    <3>1. ASSUME UNCHANGED kernelVars
          PROVE  UNCHANGED <<pc, frames, phase, prints, font>>
      BY <3>1 DEF kernelVars, vars, control, console
    <3>2. QED
      BY <3>1 DEF ConsoleIInv, JobOf
  <2>2. QED
    BY <2>1, StartKeepsConsole, PutcharKeepsConsole, EventsKeepConsole DEF KernelNext
<1>3. QED
  BY <1>1, <1>2, HandlersInvariant, PTL DEF KernelSpec

(* Whatever a fatal exception has interrupted, and whatever interrupts its  *)
(* handler, the whole message is drawn before the processor is halted: the  *)
(* font is set before idt_init lets the first exception in.                 *)
THEOREM MessagesAreSeen == KernelSpec => []FatalIsSeen
<1>1. ConsoleIInv /\ HandlersIInv => FatalIsSeen
  <2> SUFFICES ASSUME ConsoleIInv, HandlersIInv, NEW i \in DOMAIN frames, frames[i].halted
               PROVE  prints[i + 1].drawn = MESSAGE[frames[i].vector]
    BY DEF FatalIsSeen
  <2>1. i \in 1 .. Len(frames) /\ frames[i] \in FrameRecord
    <3>1. frames \in Seq(FrameRecord)
      BY DEF HandlersIInv
    <3>2. QED
      BY <3>1
  <2>2. JobOf(prints[i + 1], frames[i])
    BY <2>1 DEF ConsoleIInv
  <2>3. MESSAGE[frames[i].vector] \in Nat
    BY <2>1, MessageAssumption DEF FrameRecord
  <2>4. prints[i + 1].text = <<>>
    BY <2>2 DEF JobOf
  <2>5. prints[i + 1].text # <<NEWLINE>> \o Glyphs(MESSAGE[frames[i].vector])
    BY <2>3, <2>4, GlyphsAreText
  <2>6. <<>> = Glyphs(MESSAGE[frames[i].vector] - prints[i + 1].drawn)
          /\ prints[i + 1].drawn \in 0 .. MESSAGE[frames[i].vector]
    BY <2>2, <2>4, <2>5 DEF JobOf
  <2>7. MESSAGE[frames[i].vector] - prints[i + 1].drawn = 0
    BY <2>3, <2>6, GlyphsAreText
  <2>8. QED
    BY <2>3, <2>6, <2>7
<1>2. QED
  BY <1>1, ConsoleInvariant, HandlersInvariant, PTL

(***************************************************************************)
(* The scan.  Counted over all buses, the functions are those of the       *)
(* configuration space, each once.                                         *)
(***************************************************************************)
Devices == [bus : 0 .. PCI_BUS_COUNT - 1, slot : 0 .. PCI_DEV_PER_BUS - 1,
            function : 0 .. PCI_FUNC_PER_DEV - 1]

LEMMA Division ==
  ASSUME NEW a \in Nat, NEW n \in Nat \ {0}
  PROVE  /\ a \div n \in Nat /\ a % n \in 0 .. n - 1
         /\ a = n * (a \div n) + (a % n)
  OBVIOUS

LEMMA ProductIsMonotone ==
  ASSUME NEW a \in Nat, NEW b \in Nat, NEW n \in Nat, a <= b PROVE n * a <= n * b
<1>1. PICK d \in Nat : b = a + d
  <2>1. b - a \in Nat /\ b = a + (b - a)
    OBVIOUS
  <2>2. QED
    BY <2>1
<1>2. n * b = n * a + n * d
  BY <1>1
<1>3. n * d \in Nat /\ n * a \in Nat /\ n * b \in Nat
  OBVIOUS
<1>4. QED
  BY <1>2, <1>3

(* A quotient and a remainder are the only ones.                            *)
LEMMA DivisionIsUnique ==
  ASSUME NEW n \in Nat \ {0}, NEW q \in Nat, NEW r \in 0 .. n - 1
  PROVE  (q * n + r) \div n = q /\ (q * n + r) % n = r
<1> DEFINE a == q * n + r
           p == a \div n
           s == a % n
<1>1. a \in Nat
  OBVIOUS
<1>2. p \in Nat /\ s \in 0 .. n - 1 /\ a = n * p + s
  BY <1>1, Division
<1>3. a = n * q + r
  OBVIOUS
<1>4. n * p \in Nat /\ n * q \in Nat
  BY <1>2
<1> HIDE DEF a, p, s
<1>5. p = q
  <2>1. CASE p < q
    <3>1. p + 1 \in Nat /\ p + 1 <= q
      BY <1>2, <2>1
    <3>2. n * (p + 1) <= n * q
      BY <3>1, ProductIsMonotone
    <3>3. n * (p + 1) = n * p + n
      BY <1>2
    <3>4. QED
      BY <1>2, <1>3, <1>4, <3>2, <3>3
  <2>2. CASE q < p
    <3>1. q + 1 \in Nat /\ q + 1 <= p
      BY <1>2, <2>2
    <3>2. n * (q + 1) <= n * p
      BY <1>2, <3>1, ProductIsMonotone
    <3>3. n * (q + 1) = n * q + n
      OBVIOUS
    <3>4. QED
      BY <1>2, <1>3, <1>4, <3>2, <3>3
  <2>3. QED
    BY <1>2, <2>1, <2>2
<1>6. s = r
  BY <1>2, <1>3, <1>4, <1>5
<1>7. QED
  BY <1>5, <1>6 DEF a, p, s

(* The two ways of naming a function are inverse to each other.             *)
LEMMA IndexOfDevice ==
  ASSUME NEW i \in Functions
  PROVE  Device(i) \in Devices /\ Index(Device(i)) = i
<1> DEFINE B == PCI_BUS_COUNT
           D == PCI_DEV_PER_BUS
           F == PCI_FUNC_PER_DEV
           q == i \div F
           r == i % F
           b == i \div (D * F)
           s == q % D
           t == q \div D
<1>1. B \in Nat \ {0} /\ D \in Nat \ {0} /\ F \in Nat \ {0}
  BY PciAssumption
<1>2. i \in Nat /\ i < B * D * F
  BY <1>1 DEF Functions
<1>3. Device(i) = [bus |-> b, slot |-> s, function |-> r]
  BY DEF Device
<1>4. Devices = [bus : 0 .. B - 1, slot : 0 .. D - 1, function : 0 .. F - 1]
  BY DEF Devices
<1>5. \A x, y, z : Index([bus |-> x, slot |-> y, function |-> z]) = (x * D + y) * F + z
  BY DEF Index
<1> HIDE DEF B, D, F
<1>6. q \in Nat /\ r \in 0 .. F - 1 /\ i = F * q + r
  BY <1>1, <1>2, Division
<1> HIDE DEF q, r
<1>7. t \in Nat /\ s \in 0 .. D - 1 /\ q = D * t + s
  BY <1>1, <1>6, Division
<1> HIDE DEF s, t
<1>8. F * s + r \in 0 .. D * F - 1
  <2>1. F * s <= F * (D - 1)
    BY <1>1, <1>7, ProductIsMonotone
  <2>2. F * (D - 1) = D * F - F /\ D * F \in Nat /\ F * s \in Nat
    BY <1>1, <1>7
  <2>3. QED
    BY <1>1, <1>6, <2>1, <2>2
<1>9. i = t * (D * F) + (F * s + r)
  <2>1. F * (D * t + s) = t * (D * F) + F * s
    BY <1>1, <1>7
  <2>2. i = (t * (D * F) + F * s) + r
    BY <1>6, <1>7, <2>1
  <2>3. t * (D * F) \in Nat /\ F * s \in Nat
    BY <1>1, <1>7
  <2>4. QED
    BY <1>6, <2>2, <2>3
<1>10. b = t
  <2>1. D * F \in Nat \ {0}
    BY <1>1
  <2> DEFINE n == D * F
             x == F * s + r
  <2>2. n \in Nat \ {0} /\ x \in 0 .. n - 1 /\ b = (t * n + x) \div n
    BY <1>8, <1>9, <2>1
  <2> HIDE DEF n, x, b
  <2>3. QED
    BY <1>7, <2>2, DivisionIsUnique
<1> HIDE DEF b
<1>11. t < B
  <2>1. SUFFICES ASSUME B <= t PROVE FALSE
    BY <1>1, <1>7
  <2>2. (D * F) * B <= (D * F) * t
    <3>1. D * F \in Nat
      BY <1>1
    <3>2. QED
      BY <1>1, <1>7, <2>1, <3>1, ProductIsMonotone
  <2>3. (D * F) * B = B * D * F /\ (D * F) * t = t * (D * F)
    BY <1>1, <1>7
  <2>4. B * D * F \in Nat /\ t * (D * F) \in Nat /\ F * s \in Nat
    BY <1>1, <1>7
  <2>5. QED
    BY <1>2, <1>6, <1>9, <2>2, <2>3, <2>4, <1>8
<1>12. Device(i) \in Devices
  BY <1>1, <1>3, <1>4, <1>6, <1>7, <1>10, <1>11
<1>13. (b * D + s) * F + r = i
  <2>1. (t * D + s) * F = F * (D * t + s)
    BY <1>1, <1>7
  <2>2. QED
    BY <1>6, <1>7, <1>10, <2>1
<1>14. QED
  BY <1>3, <1>5, <1>12, <1>13

LEMMA DeviceOfIndex ==
  ASSUME NEW d \in Devices
  PROVE  Index(d) \in Functions /\ Device(Index(d)) = d
<1> DEFINE B == PCI_BUS_COUNT
           D == PCI_DEV_PER_BUS
           F == PCI_FUNC_PER_DEV
           b == d.bus
           s == d.slot
           r == d.function
           i == (b * D + s) * F + r
<1>1. B \in Nat \ {0} /\ D \in Nat \ {0} /\ F \in Nat \ {0}
  BY PciAssumption
<1>2. b \in 0 .. B - 1 /\ s \in 0 .. D - 1 /\ r \in 0 .. F - 1 /\ d = [bus |-> b, slot |-> s, function |-> r]
  BY DEF Devices
<1>3. Index(d) = i
  BY DEF Index
<1>4. \A j \in Nat : Device(j) = [bus |-> j \div (D * F), slot |-> (j \div F) % D, function |-> j % F]
  BY DEF Device
<1>5. Functions = 0 .. B * D * F - 1
  BY DEF Functions
<1> HIDE DEF B, D, F, b, s, r
<1>6. b \in Nat /\ s \in Nat /\ r \in Nat /\ b * D + s \in Nat
  BY <1>1, <1>2
<1> DEFINE q == b * D + s
<1>7. q \in Nat /\ q \div D = b /\ q % D = s
  BY <1>1, <1>2, <1>6, DivisionIsUnique
<1>8. i = q * F + r
  OBVIOUS
<1> HIDE DEF i
<1>9. q + 1 <= B * D
  <2>1. D * (b + 1) <= D * B
    BY <1>1, <1>2, <1>6, ProductIsMonotone
  <2>2. D * (b + 1) = b * D + D /\ D * B = B * D /\ b * D \in Nat /\ B * D \in Nat
    BY <1>1, <1>6
  <2>3. QED
    BY <1>1, <1>2, <2>1, <2>2
<1> HIDE DEF q
<1>10. i \in 0 .. B * D * F - 1
  <2>1. F * (q + 1) <= F * (B * D)
    <3>1. B * D \in Nat
      BY <1>1
    <3>2. QED
      BY <1>1, <1>7, <1>9, <3>1, ProductIsMonotone
  <2>2. F * (q + 1) = q * F + F /\ F * (B * D) = B * D * F /\ q * F \in Nat /\ B * D * F \in Nat
    BY <1>1, <1>7
  <2>3. QED
    BY <1>1, <1>2, <1>8, <2>1, <2>2
<1>11. i \div F = q /\ i % F = r
  BY <1>1, <1>2, <1>7, <1>8, DivisionIsUnique
<1>12. i \div (D * F) = b
  <2> DEFINE n == D * F
             x == s * F + r
  <2>1. n \in Nat \ {0}
    BY <1>1
  <2>2. x \in 0 .. n - 1
    <3>1. F * s <= F * (D - 1)
      BY <1>1, <1>2, ProductIsMonotone
    <3>2. F * (D - 1) = D * F - F /\ D * F \in Nat /\ F * s = s * F /\ s * F \in Nat
      BY <1>1, <1>6
    <3>3. QED
      BY <1>1, <1>2, <3>1, <3>2
  <2>3. i = b * n + x
    <3>1. (b * D + s) * F = b * (D * F) + s * F
      BY <1>1, <1>6
    <3>2. b * (D * F) \in Nat /\ s * F \in Nat
      BY <1>1, <1>6
    <3>3. QED
      BY <1>2, <1>8, <3>1, <3>2 DEF q
  <2>4. i \div n = b
    <3> HIDE DEF n, x
    <3>1. QED
      BY <1>6, <2>1, <2>2, <2>3, DivisionIsUnique
  <2>5. QED
    BY <2>4
<1>13. i \in Nat
  BY <1>1, <1>7, <1>6, <1>8
<1>14. QED
  BY <1>2, <1>3, <1>4, <1>5, <1>7, <1>10, <1>11, <1>12, <1>13

(* The functions before at were asked for, and the one at it if its answer  *)
(* is being compared.  What is said of the others holds of those no handler *)
(* came back to.                                                            *)
Scanned == {Device(i) : i \in 0 .. at - 1}
IsRead == vendor # "unread"

ScanIInv ==
  /\ at \in Nat /\ \A i \in 0 .. at - 1 : i \in Functions
  /\ IsRead => at \in Functions /\ vendor \in {"none", "id"}
  /\ DOMAIN answers = IF IsRead THEN Scanned \cup {Device(at)} ELSE Scanned
  /\ IsRead /\ Device(at) \notin disturbed => (vendor = "id" <=> Device(at) \in Present)
  /\ pciDevices \in Seq(Devices) /\ ToSet(pciDevices) \subseteq Scanned
  /\ \A d \in Scanned \ disturbed : d \in ToSet(pciDevices) <=> d \in Present
  /\ \A i \in DOMAIN pciDevices : Index(pciDevices[i]) < at
  /\ \A i, j \in DOMAIN pciDevices : i < j => Index(pciDevices[i]) < Index(pciDevices[j])
  /\ phase \in {"say", "list", "loop"} => at \notin Functions

LEMMA FunctionIsNew ==
  ASSUME ScanIInv, at \in Functions
  PROVE  /\ Device(at) \in Devices /\ Index(Device(at)) = at
         /\ Device(at) \notin Scanned
<1>1. Device(at) \in Devices /\ Index(Device(at)) = at
  BY IndexOfDevice
<1>2. ASSUME Device(at) \in Scanned PROVE FALSE
  <2>1. PICK i \in 0 .. at - 1 : Device(at) = Device(i)
    BY <1>2 DEF Scanned
  <2>2. i \in Functions
    BY DEF ScanIInv
  <2>3. Index(Device(i)) = i
    BY <2>2, IndexOfDevice
  <2>4. i = at
    BY <1>1, <2>1, <2>3
  <2>5. QED
    BY <2>4 DEF ScanIInv
<1>3. QED
  BY <1>1, <1>2

(* The scan goes on to the next function.                                   *)
LEMMA ScannedGrows ==
  ASSUME ScanIInv, at \in Functions, NextFunction
  PROVE  /\ at' = at + 1 /\ at \in Nat /\ at' \in Nat /\ \A i \in 0 .. at' - 1 : i \in Functions
         /\ Scanned' = Scanned \cup {Device(at)}
<1>1. at' = at + 1 /\ at \in Nat /\ \A i \in 0 .. at - 1 : i \in Functions
  BY DEF NextFunction, ScanIInv
<1>2. at' \in Nat /\ \A i \in 0 .. at' - 1 : i = at \/ i \in 0 .. at - 1
  BY <1>1
<1>3. at \in 0 .. at' - 1 /\ \A i \in 0 .. at - 1 : i \in 0 .. at' - 1
  BY <1>1
<1>4. Scanned' = Scanned \cup {Device(at)}
  BY <1>2, <1>3 DEF Scanned, Device
<1>5. QED
  BY <1>1, <1>2, <1>4

(* The machine's answer to one function is kept, and no other one changes.  *)
LEMMA AnswerIsKept ==
  ASSUME ScanIInv, at \in Functions, vendor = "unread", NEW there \in BOOLEAN, Asked(there)
  PROVE  /\ DOMAIN answers' = Scanned \cup {Device(at)}
         /\ Present' = IF there THEN Present \cup {Device(at)} ELSE Present
<1>1. DOMAIN answers = Scanned /\ Device(at) \notin Scanned
  BY FunctionIsNew DEF ScanIInv, IsRead
<1>2. DOMAIN answers' = DOMAIN answers \cup {Device(at)}
        /\ answers'[Device(at)] = there
        /\ \A d \in DOMAIN answers : answers'[d] = answers[d]
  BY <1>1 DEF Asked
<1>3. QED
  BY <1>1, <1>2 DEF Present

LEMMA ReadKeepsScan == ScanIInv /\ ReadVendor => ScanIInv'
<1> SUFFICES ASSUME ScanIInv, ReadVendor PROVE ScanIInv'
  OBVIOUS
<1>1. /\ at \in Functions /\ vendor = "unread" /\ phase' = "scan"
      /\ UNCHANGED <<at, disturbed, pciDevices>>
  BY DEF ReadVendor, InPhase
<1>2. PICK there \in BOOLEAN :
        /\ Asked(there)
        /\ vendor' \in IF Device(at) \in disturbed THEN {"none", "id"}
                       ELSE {IF there THEN "id" ELSE "none"}
  BY DEF ReadVendor
<1>3. /\ DOMAIN answers' = Scanned \cup {Device(at)}
      /\ Present' = IF there THEN Present \cup {Device(at)} ELSE Present
  BY <1>1, <1>2, AnswerIsKept
<1>4. Scanned' = Scanned /\ Device(at)' = Device(at)
  BY <1>1 DEF Scanned, Device
<1>5. Device(at) \notin Scanned /\ Device(at) \notin Present
  BY <1>1, FunctionIsNew DEF Present, ScanIInv, IsRead
<1>6. vendor' \in {"none", "id"} /\ IsRead'
  BY <1>2 DEF IsRead
<1>7. Device(at) \notin disturbed => (vendor' = "id" <=> Device(at) \in Present')
  BY <1>2, <1>3, <1>5
<1>8. \A d \in Scanned \ disturbed : d \in ToSet(pciDevices) <=> d \in Present'
  BY <1>3, <1>5 DEF ScanIInv
<1>9. QED
  BY <1>1, <1>3, <1>4, <1>6, <1>7, <1>8 DEF ScanIInv

LEMMA NoneKeepsScan == ScanIInv /\ ScanNone => ScanIInv'
<1> SUFFICES ASSUME ScanIInv, ScanNone PROVE ScanIInv'
  OBVIOUS
<1>1. /\ vendor = "none" /\ vendor' = "unread" /\ NextFunction /\ phase' = "scan"
      /\ UNCHANGED <<disturbed, answers, pciDevices>>
  BY DEF ScanNone, InPhase
<1>2. at \in Functions /\ IsRead /\ ~IsRead'
  BY <1>1 DEF ScanIInv, IsRead
<1>3. /\ at' = at + 1 /\ at \in Nat /\ at' \in Nat /\ \A i \in 0 .. at' - 1 : i \in Functions
      /\ Scanned' = Scanned \cup {Device(at)}
  BY <1>1, <1>2, ScannedGrows
<1>4. DOMAIN answers' = Scanned' /\ Present' = Present
  BY <1>1, <1>2, <1>3 DEF ScanIInv, Present
<1>5. \A d \in Scanned' \ disturbed' : d \in ToSet(pciDevices) <=> d \in Present
  <2>1. Device(at) \notin disturbed => Device(at) \notin Present
    BY <1>1, <1>2 DEF ScanIInv
  <2>2. Device(at) \notin ToSet(pciDevices)
    BY <1>2, FunctionIsNew DEF ScanIInv
  <2>3. QED
    BY <1>1, <1>3, <2>1, <2>2 DEF ScanIInv
<1>6. \A i \in DOMAIN pciDevices : Index(pciDevices[i]) < at'
  <2>1. TAKE i \in DOMAIN pciDevices
  <2>2. pciDevices[i] \in Devices /\ Index(pciDevices[i]) < at
    BY DEF ScanIInv
  <2>3. Index(pciDevices[i]) \in Nat
    BY <2>2, DeviceOfIndex DEF Functions
  <2>4. QED
    BY <1>3, <2>2, <2>3
<1>7. QED
  BY <1>1, <1>2, <1>3, <1>4, <1>5, <1>6 DEF ScanIInv

LEMMA FoundKeepsScan == ScanIInv /\ ScanFound => ScanIInv'
<1> SUFFICES ASSUME ScanIInv, ScanFound PROVE ScanIInv'
  OBVIOUS
<1>1. /\ vendor = "id" /\ vendor' = "unread" /\ NextFunction /\ phase' = "scan"
      /\ pciDevices' = Append(pciDevices, Device(at))
      /\ UNCHANGED <<disturbed, answers>>
  BY DEF ScanFound, InPhase
<1>2. at \in Functions /\ IsRead /\ ~IsRead'
  BY <1>1 DEF ScanIInv, IsRead
<1>3. /\ at' = at + 1 /\ at \in Nat /\ at' \in Nat /\ \A i \in 0 .. at' - 1 : i \in Functions
      /\ Scanned' = Scanned \cup {Device(at)} /\ pciDevices \in Seq(Devices)
  BY <1>1, <1>2, ScannedGrows DEF ScanIInv
<1>4. Device(at) \in Devices /\ Index(Device(at)) = at
  BY <1>2, FunctionIsNew
<1>5. /\ pciDevices' \in Seq(Devices)
      /\ Len(pciDevices') = Len(pciDevices) + 1
      /\ \A i \in 1 .. Len(pciDevices) : pciDevices'[i] = pciDevices[i]
      /\ pciDevices'[Len(pciDevices) + 1] = Device(at)
  BY <1>1, <1>3, <1>4, AppendProperties
<1>6. DOMAIN pciDevices = 1 .. Len(pciDevices) /\ DOMAIN pciDevices' = 1 .. Len(pciDevices) + 1
        /\ Len(pciDevices) \in Nat
  BY <1>3, <1>5
<1>7. ToSet(pciDevices') = ToSet(pciDevices) \cup {Device(at)}
  <2>1. \A i \in DOMAIN pciDevices' : i \in DOMAIN pciDevices \/ i = Len(pciDevices) + 1
    BY <1>6
  <2>2. Len(pciDevices) + 1 \in DOMAIN pciDevices' /\ \A i \in DOMAIN pciDevices : i \in DOMAIN pciDevices'
    BY <1>6
  <2>3. QED
    BY <1>5, <1>6, <2>1, <2>2 DEF ToSet
<1>8. ASSUME NEW i \in DOMAIN pciDevices'
      PROVE  /\ i = Len(pciDevices) + 1 /\ Index(pciDevices'[i]) = at
             \/ /\ i \in DOMAIN pciDevices /\ Index(pciDevices'[i]) = Index(pciDevices[i])
                /\ Index(pciDevices[i]) \in Nat /\ Index(pciDevices[i]) < at
  <2>1. CASE i = Len(pciDevices) + 1
    BY <1>4, <1>5, <2>1
  <2>2. CASE i \in DOMAIN pciDevices
    <3>1. pciDevices[i] \in Devices /\ Index(pciDevices[i]) < at /\ pciDevices'[i] = pciDevices[i]
      BY <1>3, <1>5, <1>6, <2>2 DEF ScanIInv
    <3>2. Index(pciDevices[i]) \in Nat
      BY <3>1, DeviceOfIndex DEF Functions
    <3>3. QED
      BY <2>2, <3>1, <3>2
  <2>3. QED
    BY <1>6, <2>1, <2>2
<1>9. \A i \in DOMAIN pciDevices' : Index(pciDevices'[i]) < at'
  BY <1>3, <1>8
<1>10. ASSUME NEW i \in DOMAIN pciDevices', NEW j \in DOMAIN pciDevices', i < j
       PROVE  Index(pciDevices'[i]) < Index(pciDevices'[j])
  <2>1. i \in DOMAIN pciDevices /\ Index(pciDevices'[i]) = Index(pciDevices[i])
          /\ Index(pciDevices[i]) < at
    BY <1>6, <1>8, <1>10
  <2>2. CASE j = Len(pciDevices) + 1 /\ Index(pciDevices'[j]) = at
    BY <2>1, <2>2
  <2>3. CASE j \in DOMAIN pciDevices /\ Index(pciDevices'[j]) = Index(pciDevices[j])
    BY <1>10, <2>1, <2>3 DEF ScanIInv
  <2>4. QED
    BY <1>8, <2>2, <2>3
<1>11. DOMAIN answers' = Scanned' /\ Present' = Present /\ ToSet(pciDevices') \subseteq Scanned'
  BY <1>1, <1>2, <1>3, <1>7 DEF ScanIInv, Present
<1>12. \A d \in Scanned' \ disturbed' : d \in ToSet(pciDevices') <=> d \in Present
  <2>1. Device(at) \notin disturbed => Device(at) \in Present
    BY <1>1, <1>2 DEF ScanIInv
  <2>2. Device(at) \notin Scanned
    BY <1>2, FunctionIsNew
  <2>3. QED
    BY <1>1, <1>3, <1>7, <2>1, <2>2 DEF ScanIInv
<1>13. QED
  BY <1>1, <1>2, <1>3, <1>5, <1>9, <1>10, <1>11, <1>12 DEF ScanIInv

LEMMA StartKeepsScan == ScanIInv /\ _start => ScanIInv'
<1> SUFFICES ASSUME ScanIInv, _start PROVE ScanIInv'
  OBVIOUS
<1>1. CASE Clear \/ SetFont \/ SetUpInterrupts \/ InitHeap \/ StartList \/ ListDevice \/ ListEnds \/ ScanEnds
  <2>1. UNCHANGED <<at, vendor, disturbed, answers, pciDevices>>
    BY <1>1 DEF Clear, SetFont, SetUpInterrupts, InitHeap, StartList, ListDevice, ListEnds, ScanEnds, pci
  <2>2. phase' \in {"say", "list", "loop"} => at \notin Functions
    BY <1>1 DEF Clear, SetFont, SetUpInterrupts, InitHeap, StartList, ListDevice, ListEnds, ScanEnds,
                InPhase, ScanIInv
  <2>3. QED
    BY <2>1, <2>2 DEF ScanIInv, Present, Scanned, Device, IsRead
<1>2. QED
  BY <1>1, ReadKeepsScan, NoneKeepsScan, FoundKeepsScan DEF _start

(* A handler that comes back changes the answer to the function at hand, of *)
(* which no more is said, and nothing else.                                 *)
LEMMA EventsKeepScan ==
  ASSUME ScanIInv, FollowFrames
  PROVE  ScanIInv'
<1>1. UNCHANGED <<phase, at, answers, pciDevices>>
  BY DEF FollowFrames
<1>2. Scanned' = Scanned /\ Device(at)' = Device(at) /\ Present' = Present
  BY <1>1 DEF Scanned, Device, Present
<1>3. disturbed \subseteq disturbed'
  BY DEF FollowFrames, Disturb
<1>4. CASE UNCHANGED <<vendor, disturbed>>
  BY <1>1, <1>2, <1>4 DEF ScanIInv, IsRead
<1>5. CASE Disturb
  <2>1. Device(at) \in disturbed' /\ (IsRead' <=> IsRead) /\ (IsRead => vendor' \in {"none", "id"})
    BY <1>5 DEF Disturb, IsRead
  <2> QED
    BY <1>1, <1>2, <1>3, <2>1 DEF ScanIInv
<1> QED
  BY <1>4, <1>5 DEF FollowFrames

LEMMA ScanInvariant == KernelSpec => []ScanIInv
<1>1. KernelInit => ScanIInv
  <2> SUFFICES ASSUME KernelInit PROVE ScanIInv
    OBVIOUS
  <2>1. at = 0 /\ vendor = "unread" /\ answers = <<>> /\ pciDevices = <<>> /\ phase = "clear"
    BY DEF KernelInit
  <2>2. 0 .. at - 1 = {} /\ DOMAIN answers = {} /\ DOMAIN pciDevices = {}
    BY <2>1
  <2>3. ToSet(pciDevices) = {} /\ Scanned = {}
    BY <2>2 DEF ToSet, Scanned
  <2>4. QED
    BY <2>1, <2>2, <2>3 DEF ScanIInv, IsRead
<1>2. ScanIInv /\ [KernelNext]_kernelVars => ScanIInv'
  <2> SUFFICES ASSUME ScanIInv, [KernelNext]_kernelVars, UNCHANGED <<phase, pci>> PROVE ScanIInv'
    BY StartKeepsScan, EventsKeepScan
    DEF KernelNext, kernelVars, Putchar, Place, PutNewline, PutGlyph, Event, HandlerEnds
  <2>1. QED
    BY DEF pci, ScanIInv, Present, Scanned, Device, IsRead
<1>3. QED
  BY <1>1, <1>2, PTL DEF KernelSpec

(* After the scan every function of every bus was asked for, and the table  *)
(* has those that are there, in order and none twice; except of the functions *)
(* the scan was at when a handler came back to it, of which nothing is said. *)
(* What pci_scan counts names each function exactly once, and an answer that *)
(* was lost spoils no other one.                                            *)
THEOREM EveryFunctionIsFound == KernelSpec => []ScanFindsAll
<1>1. ScanIInv => ScanFindsAll
  <2> SUFFICES ASSUME ScanIInv, phase \in {"say", "list", "loop"}
               PROVE  DOMAIN answers = Devices /\ DOMAIN answers = Scanned
    BY DEF ScanFindsAll, ScanIInv, Devices
  <2>1. at \notin Functions /\ at \in Nat /\ DOMAIN answers = Scanned
    BY DEF ScanIInv, IsRead
  <2>2. \A i \in 0 .. at - 1 : i \in Functions
    BY DEF ScanIInv
  <2>3. \A i \in Functions : i \in 0 .. at - 1
    <3> DEFINE n == PCI_BUS_COUNT * PCI_DEV_PER_BUS * PCI_FUNC_PER_DEV
    <3>1. Functions = 0 .. n - 1 /\ n \in Nat
      BY PciAssumption DEF Functions
    <3> HIDE DEF n
    <3>2. QED
      BY <2>1, <3>1
  <2>4. ASSUME NEW d \in Devices PROVE d \in Scanned
    BY <2>3, DeviceOfIndex DEF Scanned
  <2>5. ASSUME NEW d \in Scanned PROVE d \in Devices
    BY <2>2, IndexOfDevice DEF Scanned
  <2>6. QED
    BY <2>1, <2>4, <2>5
<1>2. QED
  BY <1>1, ScanInvariant, PTL

(***************************************************************************)
(* The cursor.  What goes on after an interruption is _start, a handler    *)
(* that an exception of _start entered, or a fatal one: whatever an NMI    *)
(* interrupts, it has no other NMI in it.                                  *)
(***************************************************************************)
Runs == cpu = "runs"

(* A handler that returns into another is that of an NMI, and in nothing    *)
(* else that returns.                                                       *)
NestingIInv ==
  /\ cpu = "halted" => frames # <<>> /\ Top.vector \in FatalHandlers
  /\ Runs /\ frames = <<>> => ~nmiBlocked
  /\ Runs /\ Len(frames) >= 2 /\ Top.vector \in InfoHandlers => nmiBlocked /\ Top.vector = NMI
  /\ \A i \in 2 .. Len(frames) - 1 :
       frames[i].vector \in InfoHandlers => frames[i + 1].vector \in FatalHandlers

FitsAcross == (_curX + 1) * FONT_WIDTH <= _VGA_WIDTH
FitsDown == (_curY + 1) * FONT_HEIGHT <= _VGA_HEIGHT

(* The newline of the message is drawn.                                     *)
HasBegun(job, frame) == job.text = Glyphs(MESSAGE[frame.vector] - job.drawn)

(* What an NMI may have put before what a handler prints on its line.       *)
Before == IF nmiBlocked THEN 0 ELSE MESSAGE[NMI]

CursorIInv ==
  /\ _curX \in Nat /\ _curY \in Nat
  /\ Runs /\ Running.placed => FitsAcross /\ FitsDown
  /\ Runs /\ frames # <<>> /\ Top.vector \in InfoHandlers =>
       /\ Running.drawn > 0 => FitsDown
       /\ HasBegun(Running, Top) => _curX <= Before + Running.drawn

(* What an event enters: the handler of its vector, or a fatal one.         *)
LEMMA DeliveredIsOwnOrFatal ==
  ASSUME HandlersIInv, NEW v \in 0 .. 31, Deliver(v)
  PROVE  \/ cpu' \in {"reset", "wild"}
         \/ /\ cpu' = "runs"
            /\ \E w \in isr_list : /\ w = v \/ w \in FatalHandlers
                                   /\ frames' = Append(frames, [vector |-> w, halted |-> FALSE])
<1> DEFINE found == {i \in DOMAIN Attempts(v) : Valid(Attempts(v)[i])}
<1>1. \A i \in DOMAIN Attempts(v) : Attempts(v)[i] \in {v, GENERAL_PROTECTION, DOUBLE_FAULT}
  <2>1. CASE v = DOUBLE_FAULT
    BY <2>1 DEF Attempts
  <2>2. CASE v # DOUBLE_FAULT /\ v \in Faults
    BY <2>2 DEF Attempts
  <2>3. CASE v # DOUBLE_FAULT /\ v \notin Faults
    BY <2>3 DEF Attempts
  <2>4. QED
    BY <2>1, <2>2, <2>3
<1>2. GENERAL_PROTECTION \in 0 .. 31 \cap FatalHandlers /\ DOUBLE_FAULT \in 0 .. 31 \cap FatalHandlers
  BY DEF GENERAL_PROTECTION, DOUBLE_FAULT, FatalHandlers, isr_list, InfoHandlers, NullHandlers
<1>3. CASE found = {}
  BY <1>3 DEF Deliver
<1>4. CASE found # {}
  <2>1. PICK i \in found : IF Complete(Attempts(v)[i]) THEN Enter(Attempts(v)[i])
                           ELSE cpu' = "wild" /\ UNCHANGED <<IF_flag, frames>>
    BY <1>4 DEF Deliver
  <2>2. Attempts(v)[i] \in isr_list /\ (Attempts(v)[i] = v \/ Attempts(v)[i] \in FatalHandlers)
    BY <1>1, <1>2, <2>1 DEF HandlersIInv
  <2>3. QED
    BY <2>1, <2>2 DEF Enter
<1>5. QED
  BY <1>3, <1>4

(* The steps that change the frames or the processor, as what they do to    *)
(* the handlers that are entered.                                           *)
Enters(w) == Runs' /\ frames' = Append(frames, [vector |-> w, halted |-> FALSE])
Leaves == Runs' /\ frames' = SubSeq(frames, 1, Len(frames) - 1)

LEMMA EventOutcomes ==
  ASSUME HandlersIInv, NestingIInv, Event \/ HandlerEnds
  PROVE  \/ cpu' \in {"reset", "wild"}
         \/ cpu' = "halted" /\ FatalHalts
         \/ \E w \in FatalHandlers : Enters(w)
         \/ \E w \in isr_list : Enters(w) /\ frames = <<>> /\ ~nmiBlocked'
         \/ Enters(NMI) /\ ~nmiBlocked /\ nmiBlocked' /\ cpu \in {"runs", "halted"}
         \/ /\ Leaves /\ ~nmiBlocked' /\ Runs /\ frames # <<>> /\ Running.text = <<>>
            /\ Top.vector \in InfoHandlers \ WithErrorCode
<1>1. ASSUME NEW v \in EXCEPTIONS, Exception(v)
      PROVE  \/ cpu' \in {"reset", "wild"}
             \/ \E w \in isr_list : Enters(w) /\ frames = <<>> /\ ~nmiBlocked'
  <2>1. Deliver(v) /\ frames = <<>> /\ Runs /\ nmiBlocked' = nmiBlocked
    BY <1>1 DEF Exception, Runs
  <2>2. ~nmiBlocked
    BY <2>1 DEF NestingIInv
  <2>3. QED
    BY <2>1, <2>2, ExceptionsAssumption, DeliveredIsOwnOrFatal DEF Enters, Runs
<1>2. CASE Nmi
  <2>1. Deliver(NMI) /\ ~nmiBlocked /\ nmiBlocked' = TRUE /\ cpu \in {"runs", "halted"}
    BY <1>2 DEF Nmi
  <2>2. NMI \in 0 .. 31
    BY DEF NMI
  <2>3. QED
    BY <2>1, <2>2, DeliveredIsOwnOrFatal DEF Enters, Runs
<1>3. CASE IretFaults
  <2>1. Deliver(GENERAL_PROTECTION)
    BY <1>3 DEF IretFaults
  <2>2. GENERAL_PROTECTION \in 0 .. 31 /\ GENERAL_PROTECTION \in FatalHandlers
    BY DEF GENERAL_PROTECTION, FatalHandlers, isr_list, InfoHandlers, NullHandlers
  <2>3. QED
    BY <2>1, <2>2, DeliveredIsOwnOrFatal DEF Enters, Runs
<1>4. CASE FatalHalts
  BY <1>4 DEF FatalHalts
<1>5. CASE HandlerEnds /\ IretGoesOn
  <2>1. CASE cpu' = "wild"
    BY <2>1
  <2>2. CASE ~Top.halted /\ Top.vector \notin WithErrorCode
               /\ cpu' = "runs" /\ frames' = SubSeq(frames, 1, Len(frames) - 1)
    BY <1>5, <2>2 DEF HandlerEnds, IretGoesOn, AtIret, Leaves, Runs
  <2>3. QED
    BY <1>5, <2>1, <2>2 DEF IretGoesOn
<1>6. QED
  BY <1>1, <1>2, <1>3, <1>4, <1>5 DEF Event, HandlerEnds, Handler

LEMMA OthersKeepHandlers == _start \/ Putchar => UNCHANGED <<cpu, frames, nmiBlocked>>
<1>1. Start => UNCHANGED machine
  BY DEF Start, PicWrite, LoadIdt, FillVector, SkipVector, FillEnds, SetSyscall
<1>2. _start => UNCHANGED machine
  BY <1>1 DEF _start, Clear, SetFont, SetUpInterrupts, InitHeap, ReadVendor, ScanNone, ScanFound, ScanEnds,
              StartList, ListDevice, ListEnds, vars, machine
<1>3. Putchar => UNCHANGED machine
  BY DEF Putchar, Place, PutNewline, PutGlyph, vars, machine
<1>4. QED
  BY <1>2, <1>3 DEF machine

LEMMA VectorsOfHandlers ==
  /\ InfoHandlers \cap FatalHandlers = {}
  /\ NMI \in isr_list /\ NMI \in InfoHandlers /\ NMI \in InfoHandlers \ WithErrorCode
  /\ InfoHandlers \subseteq isr_list /\ FatalHandlers \subseteq isr_list
  BY DEF FatalHandlers, InfoHandlers, NMI, isr_list, NullHandlers, WithErrorCode

(* A handler is entered: it is the last one.                                *)
LEMMA FrameIsAdded ==
  ASSUME HandlersIInv, NEW w \in isr_list, Enters(w)
  PROVE  /\ Len(frames) \in Nat /\ Len(frames') = Len(frames) + 1
         /\ frames' # <<>> /\ Top'.vector = w /\ ~Top'.halted
         /\ \A i \in 1 .. Len(frames) : frames'[i] = frames[i]
         /\ frames # <<>> => Top = frames[Len(frames)] /\ Len(frames) \in 1 .. Len(frames)
<1>1. frames \in Seq(FrameRecord) /\ [vector |-> w, halted |-> FALSE] \in FrameRecord
  BY DEF HandlersIInv, FrameRecord
<1>2. Len(frames') = Len(frames) + 1 /\ frames'[Len(frames) + 1] = [vector |-> w, halted |-> FALSE]
        /\ \A i \in 1 .. Len(frames) : frames'[i] = frames[i]
  BY <1>1, AppendProperties DEF Enters
<1>3. Len(frames) \in Nat
  BY <1>1
<1>4. QED
  BY <1>1, <1>2, <1>3 DEF Top

(* The last handler is left.                                                *)
LEMMA FrameIsTaken ==
  ASSUME HandlersIInv, Leaves, frames # <<>>
  PROVE  /\ Len(frames) \in Nat \ {0} /\ Len(frames') = Len(frames) - 1
         /\ \A i \in 1 .. Len(frames) - 1 : frames'[i] = frames[i]
         /\ frames' # <<>> => Len(frames) - 1 \in 1 .. Len(frames) /\ Top' = frames[Len(frames) - 1]
<1>1. frames \in Seq(FrameRecord)
  BY DEF HandlersIInv
<1>2. frames' \in Seq(FrameRecord) /\ Len(frames') = Len(frames) - 1
        /\ \A i \in 1 .. Len(frames) - 1 : frames'[i] = frames[i]
  BY <1>1, ButLast DEF Leaves
<1>3. QED
  BY <1>1, <1>2 DEF Top

LEMMA EventsKeepNesting ==
  ASSUME HandlersIInv, NestingIInv, Event \/ HandlerEnds
  PROVE  NestingIInv'
<1>1. CASE cpu' \in {"reset", "wild"}
  <2>1. UNCHANGED frames
    <3>1. cpu' # "runs"
      BY <1>1
    <3>2. CASE (\E v \in EXCEPTIONS : Exception(v)) \/ Nmi \/ IretFaults
      BY <3>1, <3>2, EventKinds
    <3>3. CASE FatalHalts \/ IretGoesOn
      BY <1>1, <3>1, <3>3 DEF FatalHalts, IretGoesOn
    <3>4. QED
      BY <3>2, <3>3 DEF Event, HandlerEnds, Handler
  <2>2. QED
    BY <1>1, <2>1 DEF NestingIInv, Runs
<1>2. CASE cpu' = "halted" /\ FatalHalts
  <2>1. frames' = [frames EXCEPT ![Len(frames)] = [frames[Len(frames)] EXCEPT !.halted = TRUE]]
          /\ frames # <<>> /\ Top.vector \in FatalHandlers
    BY <1>2 DEF FatalHalts
  <2>2. frames \in Seq(FrameRecord)
    BY DEF HandlersIInv
  <2>3. Len(frames) \in 1 .. Len(frames) /\ frames[Len(frames)] \in FrameRecord
    BY <2>1, <2>2
  <2>4. Len(frames') = Len(frames) /\ \A i \in 1 .. Len(frames) : frames'[i].vector = frames[i].vector
    BY <2>1, <2>2, <2>3 DEF FrameRecord
  <2>5. frames' # <<>> /\ Top'.vector = Top.vector
    BY <2>2, <2>3, <2>4 DEF Top
  <2>6. \A i \in 2 .. Len(frames) - 1 : i \in 1 .. Len(frames) /\ i + 1 \in 1 .. Len(frames)
    BY <2>2
  <2>7. QED
    BY <1>2, <2>1, <2>4, <2>5, <2>6 DEF NestingIInv, Runs
<1>3. ASSUME NEW w \in isr_list, Enters(w),
             \/ w \in FatalHandlers
             \/ frames = <<>>
             \/ w = NMI /\ ~nmiBlocked /\ nmiBlocked' /\ cpu \in {"runs", "halted"}
      PROVE  NestingIInv'
  <2>1. /\ Len(frames) \in Nat /\ Len(frames') = Len(frames) + 1
        /\ frames' # <<>> /\ Top'.vector = w
        /\ \A i \in 1 .. Len(frames) : frames'[i] = frames[i]
        /\ frames # <<>> => Top = frames[Len(frames)] /\ Len(frames) \in 1 .. Len(frames)
    BY <1>3, FrameIsAdded
  <2>2. cpu' = "runs"
    BY <1>3 DEF Enters, Runs
  <2>3. Len(frames') >= 2 /\ w \in InfoHandlers => nmiBlocked' /\ w = NMI
    <3>1. CASE frames = <<>>
      BY <2>1, <3>1
    <3>2. CASE frames # <<>>
      BY <1>3, <3>2, VectorsOfHandlers
    <3>3. QED
      BY <3>1, <3>2
  <2>4. ASSUME NEW i \in 2 .. Len(frames') - 1, frames'[i].vector \in InfoHandlers
        PROVE  frames'[i + 1].vector \in FatalHandlers
    <3>1. CASE i \in 2 .. Len(frames) - 1
      <4>1. i \in 1 .. Len(frames) /\ i + 1 \in 1 .. Len(frames)
        BY <2>1, <3>1
      <4>2. QED
        BY <2>1, <2>4, <3>1, <4>1 DEF NestingIInv
    <3>2. CASE i = Len(frames) /\ Len(frames) >= 2
      <4>1. frames'[i] = Top /\ frames # <<>>
        BY <2>1, <3>2
      <4>2. Top.vector \in InfoHandlers
        BY <2>4, <4>1
      <4>3. w \in FatalHandlers
        BY <1>3, <3>2, <4>1, <4>2, VectorsOfHandlers DEF NestingIInv, Runs
      <4>4. frames'[i + 1].vector = w
        BY <2>1, <3>2 DEF Top
      <4>5. QED
        BY <4>3, <4>4
    <3>3. QED
      BY <2>1, <2>4, <3>1, <3>2
  <2>5. QED
    BY <2>1, <2>2, <2>3, <2>4 DEF NestingIInv
<1>4. CASE Leaves /\ ~nmiBlocked' /\ Runs /\ frames # <<>> /\ Top.vector \in InfoHandlers \ WithErrorCode
  <2>1. /\ Len(frames) \in Nat \ {0} /\ Len(frames') = Len(frames) - 1
        /\ \A i \in 1 .. Len(frames) - 1 : frames'[i] = frames[i]
        /\ frames' # <<>> => Len(frames) - 1 \in 1 .. Len(frames) /\ Top' = frames[Len(frames) - 1]
    BY <1>4, FrameIsTaken
  <2>2. cpu' = "runs"
    BY <1>4 DEF Leaves, Runs
  <2>3. Len(frames') >= 2 => Top'.vector \notin InfoHandlers
    <3>1. SUFFICES ASSUME Len(frames') >= 2, Top'.vector \in InfoHandlers PROVE FALSE
      OBVIOUS
    <3>2. frames' # <<>> /\ Len(frames) - 1 \in 2 .. Len(frames) - 1
      BY <2>1, <3>1
    <3>3. frames[Len(frames) - 1 + 1].vector \in FatalHandlers
      BY <2>1, <3>1, <3>2 DEF NestingIInv
    <3>4. Len(frames) - 1 + 1 = Len(frames)
      BY <2>1
    <3>5. QED
      BY <1>4, <3>3, <3>4, VectorsOfHandlers DEF Top
  <2>4. ASSUME NEW i \in 2 .. Len(frames') - 1, frames'[i].vector \in InfoHandlers
        PROVE  frames'[i + 1].vector \in FatalHandlers
    <3>1. i \in 2 .. Len(frames) - 1 /\ i \in 1 .. Len(frames) - 1 /\ i + 1 \in 1 .. Len(frames) - 1
      BY <2>1
    <3>2. QED
      BY <2>1, <2>4, <3>1 DEF NestingIInv
  <2>5. QED
    BY <1>4, <2>2, <2>3, <2>4 DEF NestingIInv
<1>5. QED
  BY <1>1, <1>2, <1>3, <1>4, EventOutcomes, VectorsOfHandlers

LEMMA NestingInvariant == KernelSpec => []NestingIInv
<1>1. KernelInit => NestingIInv
  BY DEF KernelInit, Init, NestingIInv, Runs
<1>2. HandlersIInv /\ NestingIInv /\ [KernelNext]_kernelVars => NestingIInv'
  <2>1. UNCHANGED <<cpu, frames, nmiBlocked>> /\ NestingIInv => NestingIInv'
    BY DEF NestingIInv, Runs, Top
  <2>2. UNCHANGED kernelVars => UNCHANGED <<cpu, frames, nmiBlocked>>
    BY DEF kernelVars, vars
  <2>3. QED
    BY <2>1, <2>2, OthersKeepHandlers, EventsKeepNesting DEF KernelNext
<1>3. QED
  BY <1>1, <1>2, HandlersInvariant, PTL DEF KernelSpec

LEMMA RunningIsReplaced ==
  ASSUME ConsoleIInv, HandlersIInv, NEW job, prints' = WithRunning(job)
  PROVE  Running' = job
<1>1. Len(frames) \in Nat /\ Len(prints) = Len(frames) + 1 /\ prints \in Seq(JobRecord)
  BY DEF ConsoleIInv, HandlersIInv
<1>2. prints' = [prints EXCEPT ![Len(prints)] = job] /\ Len(prints) \in 1 .. Len(prints)
  BY <1>1 DEF WithRunning, ReplaceAt
<1>3. Len(prints') = Len(prints) /\ prints'[Len(prints)] = job
  BY <1>1, <1>2
<1>4. QED
  BY <1>3 DEF Running, Last

(* What is drawn of a message when its next character is a newline, a glyph *)
(* or none.                                                                 *)
LEMMA MessageDrawn ==
  ASSUME NEW frame \in FrameRecord, NEW job \in JobRecord, JobOf(job, frame)
  PROVE  /\ job.text # <<>> /\ Head(job.text) = NEWLINE => job.drawn = 0
         /\ job.text # <<>> /\ Head(job.text) = GLYPH => HasBegun(job, frame)
         /\ job.text = <<>> => HasBegun(job, frame) /\ job.drawn = MESSAGE[frame.vector]
<1> DEFINE length == MESSAGE[frame.vector]
<1>1. length \in Nat /\ job.drawn \in 0 .. length
  BY MessageAssumption DEF FrameRecord, JobOf
<1>2. NEWLINE # GLYPH
  BY DEF NEWLINE, GLYPH
<1>3. CASE job.drawn = 0 /\ job.text = <<NEWLINE>> \o Glyphs(length)
  <2>1. Head(job.text) = NEWLINE /\ job.text # <<>>
    BY <1>1, <1>3, GlyphsAreText
  <2>2. QED
    BY <1>2, <1>3, <2>1
<1>4. CASE job.text = Glyphs(length - job.drawn)
  <2>1. HasBegun(job, frame)
    BY <1>4 DEF HasBegun
  <2>2. length - job.drawn \in Nat
    BY <1>1
  <2>3. Len(job.text) = length - job.drawn
            /\ (length - job.drawn # 0 => Head(job.text) = GLYPH)
    BY <1>4, <2>2, GlyphsAreText
  <2>4. job.text = <<>> <=> length - job.drawn = 0
    <3>1. Len(<<>>) = 0
      OBVIOUS
    <3>2. job.text \in Seq({GLYPH, NEWLINE})
      BY DEF JobRecord
    <3>3. QED
      BY <2>3, <3>1, <3>2
  <2>5. job.text = <<>> => job.drawn = length
    BY <1>1, <2>4
  <2>6. QED
    BY <1>2, <2>1, <2>3, <2>4, <2>5
<1>5. QED
  BY <1>3, <1>4 DEF JobOf

LEMMA BeforeIsNat == Before \in Nat /\ MESSAGE[NMI] \in Nat
  BY MessageAssumption, VectorsOfHandlers DEF Before

(* A character is given a place where it fits, no further to the right.     *)
LEMMA PlaceFits ==
  ASSUME CursorIInv, Place, font
  PROVE  /\ _curX' \in Nat /\ _curY' \in Nat /\ _curX' <= _curX
         /\ FitsAcross' /\ FitsDown'
<1>1. /\ _curX' = (IF WrapX THEN 0 ELSE _curX)
      /\ _curY' = (IF (Line + 1) * FONT_HEIGHT > _VGA_HEIGHT THEN 0 ELSE Line)
      /\ _curX \in Nat /\ _curY \in Nat
  BY DEF Place, CursorIInv
<1>2. /\ FONT_WIDTH \in Nat \ {0} /\ FONT_HEIGHT \in Nat \ {0}
      /\ _VGA_WIDTH \in Nat /\ _VGA_WIDTH >= FONT_WIDTH
      /\ _VGA_HEIGHT \in Nat /\ _VGA_HEIGHT >= FONT_HEIGHT
  BY ScreenAssumption
<1>3. Line \in Nat
  BY <1>1 DEF Line
<1>4. (_curX + 1) * FONT_WIDTH \in Nat /\ (Line + 1) * FONT_HEIGHT \in Nat
  BY <1>1, <1>2, <1>3
<1>5. _curX' \in Nat /\ _curY' \in Nat /\ _curX' <= _curX
  BY <1>1, <1>3
<1>6. FitsAcross'
  <2>1. CASE WrapX
    <3>1. _curX' = 0 /\ (0 + 1) * FONT_WIDTH = FONT_WIDTH
      BY <1>1, <1>2, <2>1
    <3>2. QED
      BY <1>2, <3>1 DEF FitsAcross
  <2>2. CASE ~WrapX
    BY <1>1, <1>2, <1>4, <2>2 DEF FitsAcross, WrapX
  <2>3. QED
    BY <2>1, <2>2
<1>7. FitsDown'
  <2>1. CASE (Line + 1) * FONT_HEIGHT > _VGA_HEIGHT
    <3>1. _curY' = 0 /\ (0 + 1) * FONT_HEIGHT = FONT_HEIGHT
      BY <1>1, <1>2, <2>1
    <3>2. QED
      BY <1>2, <3>1 DEF FitsDown
  <2>2. CASE ~((Line + 1) * FONT_HEIGHT > _VGA_HEIGHT)
    BY <1>1, <1>2, <1>4, <2>2 DEF FitsDown
  <2>3. QED
    BY <2>1, <2>2
<1>8. QED
  BY <1>5, <1>6, <1>7

LEMMA TopIsFrame ==
  ASSUME ConsoleIInv, HandlersIInv
  PROVE  /\ Running \in JobRecord
         /\ frames # <<>> => Top \in FrameRecord /\ JobOf(Running, Top) /\ font
  BY RunningIsJob DEF Top

LEMMA PutcharKeepsCursor ==
  ASSUME ConsoleIInv, HandlersIInv, CursorIInv, Putchar
  PROVE  CursorIInv'
<1>1. UNCHANGED <<cpu, frames, nmiBlocked, font>> /\ Running.text # <<>> /\ Runs
  BY OthersKeepHandlers DEF Putchar, Place, PutNewline, PutGlyph, CPrints, Runs
<1>2. UNCHANGED <<Top, Before, Runs>>
  BY <1>1 DEF Top, Before, Runs
<1>3. Running \in JobRecord /\ Running.drawn \in Nat /\ _curX \in Nat /\ _curY \in Nat
  BY TopIsFrame DEF JobRecord, CursorIInv
<1>4. CASE Place /\ font
  <2> DEFINE job == [Running EXCEPT !.placed = TRUE]
  <2>1. Running' = job
    BY <1>4, RunningIsReplaced DEF Place
  <2>2. Running'.text = Running.text /\ Running'.drawn = Running.drawn
    BY <1>3, <2>1 DEF JobRecord
  <2>3. HasBegun(Running, Top)' => HasBegun(Running, Top)
    BY <1>2, <2>2 DEF HasBegun
  <2>4. /\ _curX' \in Nat /\ _curY' \in Nat /\ _curX' <= _curX
        /\ FitsAcross' /\ FitsDown'
    BY <1>4, PlaceFits
  <2>5. ASSUME frames # <<>>, Top.vector \in InfoHandlers, HasBegun(Running, Top)
        PROVE  _curX' <= Before + Running.drawn
    <3>1. _curX <= Before + Running.drawn
      BY <1>1, <2>5 DEF CursorIInv
    <3>2. QED
      BY <1>3, <2>4, <3>1, BeforeIsNat
  <2>6. QED
    BY <1>1, <1>2, <2>2, <2>3, <2>4, <2>5 DEF CursorIInv
<1>5. CASE Place /\ ~font
  <2>1. prints' = WithRunning([Running EXCEPT !.text = Tail(Running.text)]) /\ ~Running.placed
          /\ UNCHANGED <<_curX, _curY>>
    BY <1>5 DEF Place
  <2>2. ~Running'.placed
    BY <1>3, <2>1, RunningIsReplaced DEF JobRecord
  <2>3. frames = <<>>
    BY <1>5, TopIsFrame
  <2>4. QED
    BY <1>1, <1>3, <2>1, <2>2, <2>3 DEF CursorIInv
<1>6. CASE PutNewline
  <2>1. Running' = [text |-> Tail(Running.text), placed |-> FALSE, drawn |-> Running.drawn + 0]
          /\ Head(Running.text) = NEWLINE /\ _curX' = 0 /\ _curY' = _curY + 1
    BY <1>6, RunningIsReplaced DEF PutNewline, Printed
  <2>2. frames # <<>> => Running.drawn = 0
    BY <1>1, <1>3, <2>1, TopIsFrame, MessageDrawn
  <2>3. frames # <<>> => Running'.drawn = 0
    BY <1>3, <2>1, <2>2
  <2>4. _curX' \in Nat /\ _curY' \in Nat /\ ~Running'.placed
    BY <1>3, <2>1
  <2>5. frames # <<>> => _curX' <= Before' + Running'.drawn
    BY <1>2, <2>1, <2>3, BeforeIsNat
  <2>6. QED
    BY <1>1, <2>3, <2>4, <2>5 DEF CursorIInv
<1>7. CASE PutGlyph
  <2>1. Running' = [text |-> Tail(Running.text), placed |-> FALSE, drawn |-> Running.drawn + 1]
          /\ Head(Running.text) = GLYPH /\ _curX' = _curX + 1 /\ _curY' = _curY /\ Running.placed
    BY <1>7, RunningIsReplaced DEF PutGlyph, Printed
  <2>2. FitsDown'
    BY <1>1, <2>1 DEF CursorIInv, FitsDown
  <2>3. ASSUME frames # <<>>, Top.vector \in InfoHandlers
        PROVE  _curX' <= Before' + Running'.drawn
    <3>1. HasBegun(Running, Top)
      BY <1>1, <1>3, <2>1, <2>3, TopIsFrame, MessageDrawn
    <3>2. _curX <= Before + Running.drawn
      BY <1>1, <2>3, <3>1 DEF CursorIInv
    <3>3. QED
      BY <1>2, <1>3, <2>1, <3>2, BeforeIsNat
  <2>4. _curX' \in Nat /\ _curY' \in Nat /\ ~Running'.placed
    BY <1>3, <2>1
  <2>5. QED
    BY <1>1, <1>2, <2>2, <2>3, <2>4 DEF CursorIInv
<1>8. QED
  BY <1>4, <1>5, <1>6, <1>7 DEF Putchar

LEMMA StartKeepsCursor ==
  ASSUME ConsoleIInv, HandlersIInv, CursorIInv, _start
  PROVE  CursorIInv'
<1>1. UNCHANGED <<cpu, frames, nmiBlocked, _curX, _curY>> /\ frames = <<>>
  BY OthersKeepHandlers DEF _start, Clear, SetFont, SetUpInterrupts, InitHeap, ReadVendor, ScanNone, ScanFound, ScanEnds,
     StartList, ListDevice, ListEnds, InPhase, console
<1>2. Running'.placed => Running.placed
  <2>1. CASE ScanEnds \/ ListDevice
    <3>1. \E text : prints' = WithRunning(Job(text))
      BY <2>1 DEF ScanEnds, ListDevice
    <3>2. \E text : Running' = Job(text)
      BY <3>1, RunningIsReplaced
    <3>3. QED
      BY <3>2 DEF Job
  <2>2. CASE UNCHANGED prints
    BY <2>2 DEF Running, Last
  <2>3. QED
    BY <2>1, <2>2 DEF _start, Clear, SetFont, SetUpInterrupts, InitHeap, ReadVendor, ScanNone, ScanFound, StartList,
                      ListEnds, console
<1>3. QED
  BY <1>1, <1>2 DEF CursorIInv, Runs, FitsAcross, FitsDown

(* A handler that is entered has everything to print, the newline first.    *)
LEMMA EnteredKeepsCursor ==
  ASSUME ConsoleIInv, HandlersIInv, CursorIInv, FollowFrames, NEW w \in isr_list, Enters(w)
  PROVE  CursorIInv'
<1>1. /\ Len(frames) \in Nat /\ Len(frames') = Len(frames) + 1
      /\ frames' # <<>> /\ Top'.vector = w
  BY FrameIsAdded
<1>2. Last(frames').vector = w
  BY <1>1 DEF Last, Top
<1>3. prints' = Append(prints, Message(w)) /\ UNCHANGED <<_curX, _curY>>
  <2>1. Len(frames') > Len(frames)
    BY <1>1
  <2>2. prints' = Append(prints, Message(Last(frames').vector)) /\ UNCHANGED <<_curX, _curY>>
    BY <2>1 DEF FollowFrames, FollowPrints
  <2>3. QED
    BY <1>2, <2>2
<1>4. Running' = Message(w)
  <2>1. prints \in Seq(JobRecord)
    BY DEF ConsoleIInv
  <2>2. Len(prints') = Len(prints) + 1 /\ prints'[Len(prints) + 1] = Message(w)
    BY <1>3, <2>1
  <2>3. QED
    BY <2>2 DEF Running, Last
<1>5. MESSAGE[w] \in Nat
  BY MessageAssumption
<1>6. /\ Running'.text = <<NEWLINE>> \o Glyphs(MESSAGE[w])
      /\ ~Running'.placed /\ Running'.drawn = 0
  BY <1>4 DEF Message, Job
<1>7. ~HasBegun(Running, Top)'
  <2>1. Running'.text # Glyphs(MESSAGE[w] - 0)
    <3>1. Head(Running'.text) = NEWLINE /\ Running'.text # <<>>
      BY <1>5, <1>6, GlyphsAreText
    <3>2. MESSAGE[w] - 0 = MESSAGE[w] /\ NEWLINE # GLYPH
      BY <1>5 DEF NEWLINE, GLYPH
    <3>3. Glyphs(MESSAGE[w]) = <<>> \/ Head(Glyphs(MESSAGE[w])) = GLYPH
      <4>1. CASE MESSAGE[w] = 0
        BY <4>1 DEF Glyphs
      <4>2. CASE MESSAGE[w] # 0
        BY <1>5, <4>2, GlyphsAreText
      <4>3. QED
        BY <4>1, <4>2
    <3>4. QED
      BY <3>1, <3>2, <3>3
  <2>2. QED
    BY <1>1, <1>6, <2>1 DEF HasBegun
<1>8. QED
  BY <1>3, <1>6, <1>7 DEF CursorIInv

(* A handler that returns has left the cursor on its line, not far from its *)
(* begin: what it has interrupted goes on there.                            *)
LEMMA LeftKeepsCursor ==
  ASSUME ConsoleIInv, HandlersIInv, NestingIInv, CursorIInv, FollowFrames,
         ConsoleIInv', HandlersIInv', NestingIInv',
         Leaves, ~nmiBlocked', Runs, frames # <<>>, Running.text = <<>>,
         Top.vector \in InfoHandlers \ WithErrorCode
  PROVE  CursorIInv'
<1> DEFINE length == MESSAGE[Top.vector]
<1>1. Running \in JobRecord /\ Top \in FrameRecord /\ JobOf(Running, Top)
  BY TopIsFrame
<1>2. HasBegun(Running, Top) /\ Running.drawn = length
  BY <1>1, MessageDrawn
<1>3. length \in Nat /\ length > 0 /\ (MESSAGE[NMI] + length + 1) * FONT_WIDTH <= _VGA_WIDTH
  BY <1>1, MessageAssumption, MessagesAreShort DEF FrameRecord
<1>4. _curX \in Nat /\ _curY \in Nat /\ FitsDown /\ _curX <= Before + length
  BY <1>2, <1>3 DEF CursorIInv
<1> HIDE DEF length
<1>5. FitsAcross
  <2> DEFINE m == MESSAGE[NMI]
  <2>1. m \in Nat /\ Before <= m /\ Before \in Nat
    BY BeforeIsNat DEF Before
  <2>2. FONT_WIDTH \in Nat /\ _VGA_WIDTH \in Nat
    BY ScreenAssumption
  <2> HIDE DEF m
  <2>3. _curX + 1 <= m + length + 1 /\ _curX + 1 \in Nat /\ m + length + 1 \in Nat
    BY <1>3, <1>4, <2>1
  <2> DEFINE a == _curX + 1
             b == m + length + 1
  <2>4. a \in Nat /\ b \in Nat /\ a <= b
    BY <2>3
  <2>5. b * FONT_WIDTH <= _VGA_WIDTH
    BY <1>3 DEF m
  <2>6. a * FONT_WIDTH <= _VGA_WIDTH
    <3> HIDE DEF a, b
    <3>1. FONT_WIDTH * a <= FONT_WIDTH * b
      BY <2>2, <2>4, ProductIsMonotone
    <3>2. FONT_WIDTH * a = a * FONT_WIDTH /\ FONT_WIDTH * b = b * FONT_WIDTH
            /\ a * FONT_WIDTH \in Nat /\ b * FONT_WIDTH \in Nat
      BY <2>2, <2>4
    <3>3. QED
      BY <2>2, <2>5, <3>1, <3>2
  <2>7. QED
    BY <2>6 DEF FitsAcross
<1>6. /\ Len(frames) \in Nat \ {0} /\ Len(frames') = Len(frames) - 1
      /\ frames' # <<>> => Len(frames) - 1 \in 1 .. Len(frames)
  BY FrameIsTaken
<1>7. UNCHANGED <<_curX, _curY>>
  BY DEF FollowFrames, FollowPrints
<1>8. _curX' \in Nat /\ _curY' \in Nat /\ FitsAcross' /\ FitsDown'
  BY <1>4, <1>5, <1>7 DEF FitsAcross, FitsDown
<1>9. ASSUME frames' # <<>>, Top'.vector \in InfoHandlers
      PROVE  _curX' <= Before' + Running'.drawn
  <2>1. ~(Len(frames') >= 2)
    BY <1>9 DEF NestingIInv, Leaves
  <2>2. Len(frames) >= 2
    BY <1>6, <1>9
  <2>3. nmiBlocked /\ Top.vector = NMI
    BY <2>2 DEF NestingIInv
  <2>4. _curX <= MESSAGE[NMI] /\ Before' = MESSAGE[NMI]
    BY <1>3, <1>4, <2>3 DEF Before, length
  <2>5. Running'.drawn \in Nat
    <3>1. Running' \in JobRecord
      <4>1. prints' \in Seq(JobRecord) /\ Len(prints') = Len(frames') + 1
        BY DEF ConsoleIInv
      <4>2. Len(prints') \in 1 .. Len(prints')
        BY <1>6, <4>1
      <4>3. QED
        BY <4>1, <4>2 DEF Running, Last
    <3>2. QED
      BY <3>1 DEF JobRecord
  <2>6. QED
    BY <1>4, <1>7, <2>4, <2>5, BeforeIsNat
<1>10. QED
  BY <1>8, <1>9 DEF CursorIInv

LEMMA EventsKeepCursor ==
  ASSUME ConsoleIInv, HandlersIInv, NestingIInv, CursorIInv, Event \/ HandlerEnds
  PROVE  CursorIInv'
<1>1. ConsoleIInv' /\ NestingIInv'
  BY EventsKeepConsole, EventsKeepNesting
<1>2. HandlersIInv'
  BY EventsKeepHandlers DEF Event, HandlerEnds
<1>3. FollowFrames
  BY DEF Event, HandlerEnds
<1>4. CASE ~Runs'
  BY <1>3, <1>4 DEF FollowFrames, FollowPrints, CursorIInv
<1>5. ASSUME NEW w \in isr_list, Enters(w) PROVE CursorIInv'
  BY <1>3, <1>5, EnteredKeepsCursor
<1>6. CASE /\ Leaves /\ ~nmiBlocked' /\ Runs /\ frames # <<>> /\ Running.text = <<>>
           /\ Top.vector \in InfoHandlers \ WithErrorCode
  BY <1>1, <1>2, <1>3, <1>6, LeftKeepsCursor
<1>7. cpu' \in {"reset", "wild", "halted"} => ~Runs'
  BY DEF Runs
<1>8. QED
  BY <1>4, <1>5, <1>6, <1>7, EventOutcomes, VectorsOfHandlers

LEMMA CursorInvariant == KernelSpec => []CursorIInv
<1>1. KernelInit => CursorIInv
  <2> SUFFICES ASSUME KernelInit PROVE CursorIInv
    OBVIOUS
  <2>1. frames = <<>> /\ _curX = 0 /\ _curY = 0 /\ prints = <<Job(<<>>)>>
    BY DEF KernelInit, Init
  <2>2. ~Running.placed
    BY <2>1 DEF Running, Last, Job
  <2>3. QED
    BY <2>1, <2>2 DEF CursorIInv
<1>2. ConsoleIInv /\ HandlersIInv /\ NestingIInv /\ CursorIInv /\ [KernelNext]_kernelVars => CursorIInv'
  <2>1. CursorIInv /\ UNCHANGED kernelVars => CursorIInv'
    BY DEF kernelVars, vars, console, CursorIInv, Runs, Running, Last, Top, HasBegun, Before,
           FitsAcross, FitsDown
  <2>2. QED
    BY <2>1, StartKeepsCursor, PutcharKeepsCursor, EventsKeepCursor DEF KernelNext
<1>3. QED
  BY <1>1, <1>2, ConsoleInvariant, HandlersInvariant, NestingInvariant, PTL DEF KernelSpec

(* However many NMIs and exceptions come between the two halves of putchar, *)
(* wherever they come: a glyph is drawn inside the screen.  A handler that  *)
(* returns has begun a line and drawn on it, with no more before it than    *)
(* one NMI has left there.                                                  *)
THEOREM GlyphsStayWhole == KernelSpec => []GlyphsAreWhole
<1>1. CursorIInv => GlyphsAreWhole
  BY DEF CursorIInv, GlyphsAreWhole, CPrints, Runs, FitsAcross, FitsDown
<1>2. QED
  BY <1>1, CursorInvariant, PTL
=============================================================================
