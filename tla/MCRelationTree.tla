---------------------------- MODULE MCRelationTree ----------------------------
(* Card sizes around the MUI card of a target: an odd height, the smallest *)
(* pitch (cardHeight + cardGap = 48) that keeps the branches monotone, and  *)
(* a card with no gap.                                                     *)
EXTENDS RelationTree

MCCardSizes ==
    {<<40, 8>>, <<48, 0>>, <<75, 10>>, <<80, 16>>, <<100, 20>>,
     <<120, 24>>, <<150, 15>>, <<160, 20>>, <<161, 21>>, <<200, 40>>}
=============================================================================
