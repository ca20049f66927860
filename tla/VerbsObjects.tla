---------------------------- MODULE VerbsObjects ----------------------------
(***************************************************************************)
(* The verbs objects of an endpoint and what destroying them takes. Each   *)
(* object needs others as long as it lives; ibv_destroy_* and ibv_dealloc_*)
(* of one that is needed fail with EBUSY, and the Close methods that call  *)
(* them one after the other ignore the error. A device closed under its    *)
(* objects counts as one that is not: either way they are not released.    *)
(***************************************************************************)
EXTENDS Naturals, Sequences, SequencesExt

Needs(r) ==
  CASE r \in {"mr", "sendMR", "recvMR"} -> {"pd"}
    [] r = "qp" -> {"cq", "pd", "id"}
    [] r = "cq" -> {"ch", "ctx"}
    [] r \in {"pd", "ch"} -> {"ctx"}
    [] r = "id" -> {"ec"}
    [] OTHER -> {}

Destroy(objects, r) ==
  IF \E x \in objects : r \in Needs(x) THEN objects ELSE objects \ {r}

(* What is left of each set of objects after destroying in that order:     *)
(* left[n], after the first n.                                             *)
Surviving(order, objects) ==
  LET left[n \in 0 .. Len(order)] ==
        IF n = 0 THEN objects ELSE Destroy(left[n - 1], order[n])
  IN  left[Len(order)]

DestroyAll(order) ==
  [objects \in SUBSET ToSet(order) |-> Surviving(order, objects)]
=============================================================================
