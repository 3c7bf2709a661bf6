------------------------------- MODULE MCVmList -------------------------------
(* Instances of VmList for TLC. *)
EXTENDS VmList, TLC

CONSTANTS n1, n2, n3

(***************************************************************************)
(* With a buffer of 8 bytes: a word in the third argument, behind an empty *)
(* one, and a word whose last byte does not fit.                           *)
(***************************************************************************)
MCPrealloc == <<1, 2>>
WithHugePages == <<3, 0, 0, 3, 1, 2, 0>>
Without == <<1, 0, 2, 0, 3, 3, 1, 2, 0>>

(* The last machine has huge pages. *)
TwoLines == (n1 :> Without) @@ (n2 :> WithHugePages)
ThreeLines == (n1 :> Without) @@ (n2 :> Without) @@ (n3 :> WithHugePages)

(* Machines with the same kind of memory are alike. *)
Machines == Permutations(Names \ HugePages) \cup Permutations(HugePages)

===============================================================================
