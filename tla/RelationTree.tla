----------------------------- MODULE RelationTree -----------------------------
(***************************************************************************)
(* The SVG that TargetsView draws between a project's card and its target  *)
(* cards (src/pkg/webui/ui/src/components/targets-view/TargetsView.tsx:    *)
(* 51-123, placed by the Box of lines 174-183): a root circle, one circle  *)
(* per target, and one path per target built from relative moves.         *)
(*                                                                          *)
(* cardHeight and cardGap come from Card.tsx, which is not in this         *)
(* repository; they are chosen once from CardSizes.  All lengths are in    *)
(* half pixels, so that the halvings of the code stay integral.            *)
(***************************************************************************)
EXTENDS Integers, Sequences, SequencesExt

CONSTANTS
    CardSizes,    \* candidate <<cardHeight, cardGap>> pairs, in pixels
    MaxTargets    \* bound on the targets of one project

ASSUME CardSizes \subseteq (Nat \ {0}) \X Nat /\ MaxTargets \in Nat \ {0}

(* Lines 15-18 and 54, doubled.                                           *)
width == 2 * 152
curveRadius == 2 * 12
circleRadius == 2 * 5
strokeWidth == 2 * 2

VARIABLES
    cardHeight,   \* doubled
    cardGap,      \* doubled
    targetCount   \* ps.targets.length

vars == <<cardHeight, cardGap, targetCount>>

Init ==
    /\ \E s \in CardSizes : cardHeight = 2 * s[1] /\ cardGap = 2 * s[2]
    /\ targetCount \in 1..MaxTargets

-----------------------------------------------------------------------------
(* Line 53 (and the Box height of line 177).                              *)
Height == targetCount * cardHeight + (targetCount - 1) * cardGap

(* Lines 60-62.                                                           *)
TargetCenterY(i) == cardHeight \div 2 + i * (cardHeight + cardGap)

(* Line 63.                                                               *)
rootCenterY == Height \div 2

Move(dx, dy) == [dx |-> dx, dy |-> dy]

(* The arms of the branches that bend: out of the root, and into the      *)
(* target (h ${width / 2 - curveRadius - circleRadius}).                  *)
Arm == width \div 2 - curveRadius - circleRadius

(* A slip: the lower branch bending up like the upper one.                *)
BranchLowerArcsUp(i) ==
    <<Move(Arm, 0), Move(curveRadius, -curveRadius),
      Move(0, TargetCenterY(i) - rootCenterY - curveRadius * 2),
      Move(curveRadius, curveRadius), Move(Arm, 0)>>

(* Lines 79-88: target above the root.                                    *)
BranchUpper(i) ==
    <<Move(Arm, 0), Move(curveRadius, -curveRadius),
      Move(0, TargetCenterY(i) - rootCenterY + curveRadius * 2),
      Move(curveRadius, -curveRadius), Move(Arm, 0)>>

(* Lines 89-98: target below the root.                                    *)
BranchLower(i) ==
    <<Move(Arm, 0), Move(curveRadius, curveRadius),
      Move(0, TargetCenterY(i) - rootCenterY - curveRadius * 2),
      Move(curveRadius, curveRadius), Move(Arm, 0)>>

(* A slip: `i <= targetCount / 2` for the upper branches.                 *)
BranchOfInclusive(i) ==
    IF targetCount % 2 = 1 /\ i = targetCount \div 2 THEN <<Move(width - circleRadius, 0)>>
    ELSE IF 2 * i <= targetCount THEN BranchUpper(i)
    ELSE BranchLower(i)

(* Lines 71-99: the moves after `M ${circleRadius},${rootCenterY}`; the   *)
(* middle target of an odd count gets a straight line (73-78).            *)
BranchOf(i) ==
    IF targetCount % 2 = 1 /\ i = targetCount \div 2 THEN <<Move(width - circleRadius, 0)>>
    ELSE IF 2 * i < targetCount THEN BranchUpper(i)
    ELSE BranchLower(i)

PathStart == <<circleRadius, rootCenterY>>

PathEnd(i) ==
    FoldLeft(LAMBDA p, m : <<p[1] + m.dx, p[2] + m.dy>>, PathStart, BranchOf(i))

(* Lines 110-121: the target circles and the root circle.                 *)
TargetCircle(i) == <<width - circleRadius - strokeWidth \div 2, TargetCenterY(i)>>
RootCircle == <<circleRadius + strokeWidth \div 2, rootCenterY>>

-----------------------------------------------------------------------------
(* The projection handed TargetsView a project with another number of     *)
(* targets; the memoised RelationTree re-renders with it.                 *)
Render ==
    /\ targetCount' \in (1..MaxTargets) \ {targetCount}
    /\ UNCHANGED <<cardHeight, cardGap>>

Next == Render

Spec == Init /\ [][Next]_vars

-----------------------------------------------------------------------------
(* Properties                                                             *)

Inside(p, c) ==
    (p[1] - c[1]) ^ 2 + (p[2] - c[2]) ^ 2 <= circleRadius ^ 2

(* A branch reaches circle c when it ends level with c's centre, at or   *)
(* past c's near edge and not beyond the right edge of the SVG.           *)
Reaches(p, c) == p[2] = c[2] /\ c[1] - circleRadius <= p[1] /\ p[1] <= width

(* Every target's branch starts in the root circle and reaches that       *)
(* target's circle, level with the centre of its card, inside the SVG's  *)
(* height: the relative moves of the three kinds of branch, with their    *)
(* arcs and vertical run, add up to the offset between the root and the   *)
(* card, for every target count, odd or even, and every card size.        *)
BranchesJoinCircles ==
    \A i \in 0..targetCount - 1 :
        /\ Inside(PathStart, RootCircle)
        /\ Reaches(PathEnd(i), TargetCircle(i))
        /\ 0 <= TargetCenterY(i) /\ TargetCenterY(i) <= Height

(* No branch doubles back: its vertical run heads towards its target, so  *)
(* a target above the root is drawn by an upper branch and one below by a *)
(* lower branch, and the straight branch is used only for a target level  *)
(* with the root.  This needs rows at least two curve diameters apart     *)
(* (cardHeight + cardGap >= 48), which every size of CardSizes is.        *)
BranchesMonotone ==
    \A i \in 0..targetCount - 1 :
        LET b == BranchOf(i) IN
        \/ Len(b) = 1 /\ TargetCenterY(i) = rootCenterY
        \/ Len(b) = 5 /\ b[2].dy < 0 /\ b[3].dy <= 0 /\ TargetCenterY(i) < rootCenterY
        \/ Len(b) = 5 /\ b[2].dy > 0 /\ b[3].dy >= 0 /\ TargetCenterY(i) > rootCenterY
=============================================================================
