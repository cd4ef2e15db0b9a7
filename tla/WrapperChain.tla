---------------------------- MODULE WrapperChain ----------------------------
(***************************************************************************)
(* A method of a service object, and the plugins that wrap it: each takes  *)
(* the function it finds in the slot, puts its own there, and calls the    *)
(* one it took (native-evidence.ts 469-508, index.ts 471-511).  A slot is a *)
(* record: the layer on top, and below each layer the one it took.         *)
(***************************************************************************)
EXTENDS Functions

\* layers are the wrappers plugins may install, each once; base is the service's own method.
Slot(layers, base) == [top : layers \cup {base}, below : [layers -> layers \cup {base}]]

Bare(layers, base) == [top |-> base, below |-> [l \in layers |-> base]]

\* A layer goes on top of whatever is there.
WrappedBy(slot, l) == [top |-> l, below |-> [slot.below EXCEPT ![l] = slot.top]]

\* Mutant of RestoredBy: what the layer took goes back into the slot, whoever
\* wrapped it since.
ForcedBackBy(slot, l) == [slot EXCEPT !.top = slot.below[l]]

\* A layer goes, if it is still on top; under another it has to stay.
RestoredBy(slot, l) == IF slot.top = l THEN [slot EXCEPT !.top = slot.below[l]] ELSE slot

\* The layers a call goes through from each layer on, down to the method.
From(slot) ==
  LET from[l \in DOMAIN slot.below \cup Range(slot.below) \cup {slot.top}] ==
        IF l \in DOMAIN slot.below THEN {l} \cup from[slot.below[l]] ELSE {}
  IN  from

\* The layers a call goes through.
Through(slot) == From(slot)[slot.top]
=============================================================================
