-------------------------- MODULE MCReshapeLowering --------------------------
(***************************************************************************)
(* ReshapeLowering on the pairs of shapes up to rank 3, as long as no      *)
(* product of extents that is compared overflows the scaled down int: the  *)
(* products inside a lowered reshape stay below its largest value.         *)
(***************************************************************************)
EXTENDS ReshapeLowering

CONSTANT Extents

MCShapes == UNION {[1..r -> Extents] : r \in 0..3}
MCReshapes == {r \in MCShapes \X MCShapes : ProductsFit(r)}
=============================================================================
