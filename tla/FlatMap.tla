------------------------------ MODULE FlatMap ------------------------------
(***************************************************************************)
(* What an identity map promises: a page has the kind of the last region   *)
(* mapped over it, and no call changes a page outside its region.          *)
(***************************************************************************)
CONSTANTS Pages, Regions, Kinds, Unmapped

VARIABLE kind

Init == kind = [p \in Pages |-> Unmapped]

Map(R, k) ==
  /\ \A p \in Pages : kind'[p] = IF p \in R THEN k ELSE kind[p]
  /\ kind' \in [Pages -> Kinds \union {Unmapped}]

Next == \E R \in Regions, k \in Kinds : Map(R, k)

Spec == Init /\ [][Next]_kind
=============================================================================
