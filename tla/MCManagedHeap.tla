-------------------------- MODULE MCManagedHeap --------------------------
(***************************************************************************)
(* Instances of ManagedHeap for TLC.  The sizes are chosen so that the     *)
(* floor of the threshold holds one object and a string: a second object   *)
(* collects, an array of length two exceeds the floor after a collection   *)
(* that left two bytes live, and next to a whole object it passes          *)
(* MaxBytes.  The array of two program arguments and its first string      *)
(* just fit under the floor, so the second string collects while the       *)
(* array is half filled, and a third address lets it then be stored.       *)
(***************************************************************************)
EXTENDS ManagedHeap

\* One class with a reference field, one value box with a reference payload.
MCObjectShapes ==
  { [kind |-> "class", size |-> 3, refs |-> 1, owns |-> FALSE],
    [kind |-> "box", size |-> 3, refs |-> 1, owns |-> FALSE] }

=============================================================================
