-------------------------------- MODULE HeapSpec --------------------------------
(***************************************************************************)
(* What malloc and free promise to a program, whatever the lists behind    *)
(* them: a set of live blocks inside the heap that never overlap.  malloc  *)
(* adds one, free retires one and only that one, and a call that fails     *)
(* leaves the set as it is.                                                *)
(***************************************************************************)
EXTENDS Integers

CONSTANTS Heap   \* the addresses that may be handed out

VARIABLE live    \* the blocks malloc returned and free has not taken back

Block == [start : Heap, size : Nat \ {0}]
Span(b) == b.start .. b.start + b.size - 1

Init == live = {}

(* malloc hands out a block of heap bytes that no live block uses.          *)
Malloc ==
  \E start \in Heap : \E end \in Heap :
    /\ start <= end
    /\ live' = live \cup {[start |-> start, size |-> end - start + 1]}
    /\ \A b \in live : Span(b) \cap (start .. end) = {}

(* free retires exactly the block that starts at its argument.              *)
Free == \E b \in live : live' = live \ {b}

Next == Malloc \/ Free

Spec == Init /\ [][Next]_live
=============================================================================
