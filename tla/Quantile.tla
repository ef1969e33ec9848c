------------------------------ MODULE Quantile -------------------------------
(***************************************************************************)
(* The P-square estimate of the quantiles of one action's durations        *)
(* (logistics/workshop/quantile.py): a few markers, each with a height (a  *)
(* duration) and a position (how many durations are below it), which every *)
(* new duration shifts and which are moved one place at a time towards     *)
(* where they should be.                                                   *)
(*                                                                         *)
(* QuantileP2.add is called under the lock of the packets; its loop over   *)
(* the markers is one step per marker here, so that what holds, holds in   *)
(* the middle of the loop as well. Heights are in units of 1/Scale ms and  *)
(* quotients are rounded down, as those of floats are in their last place. *)
(* Before all markers have a height the durations are kept in order; the   *)
(* code sorts them when the last one comes, and a copy of them whenever it *)
(* is asked before that.                                                   *)
(***************************************************************************)
EXTENDS Integers, Sequences

CONSTANTS
    Lists,          (* lists of quantiles the server may configure         *)
    Durations,      (* of the requests, in ms                              *)
    Scale,          (* of the heights                                      *)
    MaxCount        (* bound: durations                                    *)

(* settings.py lets whole numbers pass, none of them twice.                *)
ASSUME ListsAssumption ==
    \A q \in Lists :
        /\ q \in Seq(Nat) /\ Len(q) > 0
        /\ \A i \in 1 .. Len(q) - 1 : q[i] < q[i + 1]
ASSUME DurationsAssumption == Durations \subseteq Nat
ASSUME ScaleAssumption     == Scale \in Nat \ {0}
ASSUME CountAssumption     == MaxCount \in Nat

VARIABLES
    quartiles,      (* QuantileP2.quartile_list                            *)
    heights,        (* QuantileP2.markers_y, as far as it is filled        *)
    positions,      (* QuantileP2.p2_n                                     *)
    count,          (* QuantileP2.count                                    *)
    at,             (* the marker the loop of add is at, or 0              *)
    least, most     (* history: the extremes of the durations              *)

vars == <<quartiles, heights, positions, count, at, least, most>>

MarkersOf(q) == 2 * Len(q) + 3

N == MarkersOf(quartiles)

(* QuantileP2.init_marks: the share of the durations below a marker, twice *)
(* over. A quantile has its marker, and there is one halfway to the next.  *)
TwiceShare(i) ==
    LET q(j) == IF j = 0 THEN 0 ELSE IF j > Len(quartiles) THEN 1 ELSE quartiles[j]
    IN  IF i % 2 = 0 THEN q(i \div 2) + q(i \div 2 - 1) ELSE 2 * q((i - 1) \div 2)

Init ==
    /\ quartiles \in Lists
    /\ heights = << >>
    /\ positions = [i \in 1 .. N |-> i - 1]
    /\ count = 0 /\ at = 0
    /\ least = 0 /\ most = 0

-----------------------------------------------------------------------------
Filled == IF count < N THEN count ELSE N

(* QuantileP2.binary_search: any marker of this very height, or where the  *)
(* height belongs.                                                         *)
Cells(height) ==
    LET equal == {k \in 1 .. Filled : heights[k] = height}
    IN  IF equal # {} THEN equal
        ELSE {k \in 1 .. Filled + 1 :
                /\ \A j \in 1 .. k - 1 : heights[j] < height
                /\ \A j \in k .. Filled : heights[j] > height}

Seen(v) ==
    /\ count' = count + 1
    /\ least' = IF count = 0 \/ v < least THEN v ELSE least
    /\ most'  = IF count = 0 \/ v > most  THEN v ELSE most

(* QuantileP2.add, while a marker is without a height.                     *)
Fill(v) ==
    /\ at = 0 /\ count < N /\ count < MaxCount
    /\ Seen(v)
    /\ \E k \in Cells(v * Scale) :
          heights' = [i \in 1 .. count + 1 |->
                        IF i < k THEN heights[i] ELSE IF i = k THEN v * Scale ELSE heights[i - 1]]
    /\ UNCHANGED <<quartiles, positions, at>>

(* The first marker that has one more duration below it: never the first   *)
(* of all, which stands at the least duration, and at least the last.      *)
FirstShifted(k) == IF k = 1 THEN 2 ELSE IF k = N + 1 THEN N ELSE k

(* QuantileP2.add, up to its second loop: an extreme takes the new height. *)
Observe(v) ==
    /\ at = 0 /\ count >= N /\ count < MaxCount
    /\ Seen(v)
    /\ \E k \in Cells(v * Scale) :
          /\ heights' = [heights EXCEPT ![1] = IF k = 1 THEN v * Scale ELSE @,
                                        ![N] = IF k = N + 1 THEN v * Scale ELSE @]
          /\ positions' = [i \in 1 .. N |->
                             IF i >= FirstShifted(k) THEN positions[i] + 1 ELSE positions[i]]
    /\ at' = 2
    /\ UNCHANGED quartiles

-----------------------------------------------------------------------------
(* Twice the distance of a marker to where it should be.                   *)
TwiceAway(i) == TwiceShare(i) * (count - 1) - 2 * positions[i]

(* A plausible bug: a marker moves on to the place of the next one.        *)
MutMayAdvance(i) == TwiceAway(i) > 2

(* A marker moves when it is off by more than one, or by one if it is too  *)
(* far, and when there is a free place.                                    *)
MayAdvance(i) == TwiceAway(i) > 2 /\ positions[i + 1] - positions[i] > 1
MayRetreat(i) == TwiceAway(i) <= -2 /\ positions[i] - positions[i - 1] > 1

(* QuantileP2.quad_pred: on the parabola through the three markers.        *)
QuadPred(d, i) ==
    LET above == positions[i + 1] - positions[i]
        below == positions[i] - positions[i - 1]
        rise  == (below + d) * (heights[i + 1] - heights[i]) * below
        fall  == (above - d) * (heights[i] - heights[i - 1]) * above
    IN  heights[i] + (d * (rise + fall)) \div (above * below * (above + below))

(* QuantileP2.line_pred: on the line to the marker it moves towards.       *)
LinePred(d, i) ==
    IF d = 1 THEN heights[i] + (heights[i + 1] - heights[i]) \div (positions[i + 1] - positions[i])
             ELSE heights[i] - (heights[i] - heights[i - 1]) \div (positions[i] - positions[i - 1])

(* The parabola, unless it leads past a neighbour.                         *)
Predicted(d, i) ==
    LET quad == QuadPred(d, i)
    IN  IF heights[i - 1] <= quad /\ quad <= heights[i + 1] THEN quad ELSE LinePred(d, i)

MoveMarker(d) ==
    /\ heights' = [heights EXCEPT ![at] = Predicted(d, at)]
    /\ positions' = [positions EXCEPT ![at] = @ + d]

NextMarker ==
    /\ at' = IF at = N - 1 THEN 0 ELSE at + 1
    /\ UNCHANGED <<quartiles, count, least, most>>

Advance == at # 0 /\ MayAdvance(at) /\ MoveMarker(1) /\ NextMarker
Retreat == at # 0 /\ ~MayAdvance(at) /\ MayRetreat(at) /\ MoveMarker(-1) /\ NextMarker
Stay ==
    /\ at # 0 /\ ~MayAdvance(at) /\ ~MayRetreat(at)
    /\ NextMarker
    /\ UNCHANGED <<heights, positions>>

(* The bound is reached: the next snapshot starts a new estimate.          *)
Idle == at = 0 /\ count = MaxCount /\ UNCHANGED vars

Next ==
    \/ \E v \in Durations : Fill(v) \/ Observe(v)
    \/ Advance
    \/ Retreat
    \/ Stay
    \/ Idle

Spec == Init /\ [][Next]_vars

-----------------------------------------------------------------------------
(* What should hold.                                                       *)

TypeOK ==
    /\ quartiles \in Lists
    /\ count \in 0 .. MaxCount
    /\ heights \in [1 .. Filled -> Int]
    /\ positions \in [1 .. N -> Nat]
    /\ at \in {0} \cup 2 .. N - 1
    /\ at # 0 => count > N
    /\ least \in Nat /\ most \in Nat

(* No two markers come to the same place: the predictions divide by the    *)
(* distances between them.                                                 *)
PositionsIncrease == \A i \in 1 .. N - 1 : positions[i] < positions[i + 1]

(* The first and the last marker count right: none is below the least      *)
(* duration, all others are below the greatest.                            *)
EndsCounted ==
    /\ positions[1] = 0
    /\ positions[N] = IF count < N THEN N - 1 ELSE count - 1

(* The heights are in order, which the binary search relies on, and span   *)
(* the durations seen: no estimate is below the least or above the         *)
(* greatest of them.                                                       *)
HeightsInOrder ==
    /\ \A i, j \in 1 .. Filled : i <= j => heights[i] <= heights[j]
    /\ count > 0 => heights[1] = least * Scale /\ heights[Filled] = most * Scale

(* Together: what every step of the loop keeps.                            *)
IInv == TypeOK /\ PositionsIncrease /\ EndsCounted /\ HeightsInOrder

-----------------------------------------------------------------------------
(* What the source says of itself, and the program does not do.            *)

(* "provides the upper layers with an interface that computes quantiles"   *)
(* (quantile.py:3): after some durations, the marker of a quantile that    *)
(* the server configured as q percent has about q percent of them below.   *)
MarksTheQuantile ==
    at = 0 /\ count > 2 * N =>
        \A i \in 1 .. Len(quartiles) :
            LET away == 100 * positions[2 * i + 1] - quartiles[i] * (count - 1)
            IN  away <= 200 /\ away >= -200
=============================================================================
