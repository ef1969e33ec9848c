--------------------------- MODULE WorkshopProofs ----------------------------
(***************************************************************************)
(* Proofs about the workshop (logistics/workshop/), where the numbers are. *)
(*                                                                         *)
(* Quantile, for any lists of quantiles, durations and scale: the          *)
(* inductive invariant of the markers.                                     *)
(*                                                                         *)
(* Statistics, for any requests, limits and order of merges: the limits on *)
(* what is kept, the counts of errors, and that the packets have exactly   *)
(* what the requests they stand for add up to. Zones, dictionaries and     *)
(* sums are defined by recursion; of each the proofs show that the         *)
(* recursion defines a function (RecursionUnrolls, SumsExist) and what one *)
(* more element makes of it, by induction over their number                *)
(* (SetInduction).                                                         *)
(***************************************************************************)
EXTENDS Quantile, Statistics, FiniteSetTheorems, SequenceTheorems, TLAPS

-----------------------------------------------------------------------------
(* Quantile.                                                               *)

(* A distance that is not negative, divided, stays one and does not grow:  *)
(* what the prediction on the line relies on.                              *)
LEMMA Quotient ==
    ASSUME NEW a \in Nat, NEW b \in Nat, b >= 1
    PROVE  a \div b \in 0 .. a
<1>1. a \div b \in Int /\ a = b * (a \div b) + (a % b) /\ a % b \in 0 .. b - 1
  BY SMT
<1>2. a \div b >= 0
  BY <1>1, SMT
<1>3. a \div b <= a
  BY <1>1, <1>2, SMT
<1> QED
  BY <1>1, <1>2, <1>3

LEMMA Products ==
    ASSUME NEW a \in Nat, NEW b \in Nat, a >= 1, b >= 1
    PROVE  a * b \in Nat /\ a * b >= 1
<1>1. a * b >= a
  BY SMT
<1> QED
  BY <1>1, SMT

(* A list has at least one quantile, so that there are five markers.       *)
LEMMA Markers ==
    ASSUME quartiles \in Lists
    PROVE  N \in Nat /\ N >= 5
BY ListsAssumption DEF N, MarkersOf

(* Heights are in the order of the durations.                              *)
LEMMA Scaled ==
    ASSUME NEW a \in Nat, NEW b \in Nat
    PROVE  /\ a * Scale \in Int /\ b * Scale \in Int
           /\ a < b => a * Scale < b * Scale
<1>1. Scale \in Nat /\ Scale >= 1
  BY ScaleAssumption
<1>2. ASSUME a < b PROVE a * Scale < b * Scale
  <2>1. (b - a) * Scale >= Scale
    BY <1>1, <1>2
  <2> QED
    BY <1>1, <2>1
<1> QED
  BY <1>1, <1>2

(* Every new height fits between the heights around the cell it goes to.   *)
LEMMA CellFits ==
    ASSUME TypeOK, HeightsInOrder, NEW height \in Int, NEW k \in Cells(height)
    PROVE  /\ k \in 1 .. Filled + 1
           /\ \A j \in 1 .. Filled : j < k => heights[j] <= height
           /\ \A j \in 1 .. Filled : j >= k => heights[j] >= height
<1>1. Filled \in Nat /\ heights \in [1 .. Filled -> Int]
  BY Markers DEF TypeOK, Filled
<1> DEFINE equal == {i \in 1 .. Filled : heights[i] = height}
<1>2. CASE equal # {}
  <2>1. k \in 1 .. Filled /\ heights[k] = height
    BY <1>2 DEF Cells
  <2> QED
    BY <1>1, <2>1 DEF HeightsInOrder
<1>3. CASE equal = {}
  <2>1. /\ k \in 1 .. Filled + 1
        /\ \A j \in 1 .. k - 1 : heights[j] < height
        /\ \A j \in k .. Filled : heights[j] > height
    BY <1>3 DEF Cells
  <2> QED
    BY <1>1, <2>1
<1> QED
  BY <1>2, <1>3

LEMMA InitInv == Init => IInv
<1> SUFFICES ASSUME Init PROVE IInv
  OBVIOUS
<1>1. N \in Nat /\ N >= 5
  BY Markers DEF Init
<1>2. Filled = 0
  BY <1>1 DEF Init, Filled
<1>3. TypeOK
  BY <1>1, <1>2, CountAssumption DEF Init, TypeOK
<1>4. PositionsIncrease /\ EndsCounted
  BY <1>1 DEF Init, PositionsIncrease, EndsCounted
<1>5. HeightsInOrder
  BY <1>2 DEF Init, HeightsInOrder
<1> QED
  BY <1>3, <1>4, <1>5 DEF IInv

(* The extremes seen, and the durations counted.                           *)
LEMMA SeenTypes ==
    ASSUME TypeOK, NEW v \in Durations, Seen(v), count < MaxCount
    PROVE  /\ v \in Nat /\ v * Scale \in Int
           /\ count' = count + 1 /\ count' \in 1 .. MaxCount
           /\ least' \in Nat /\ most' \in Nat
           /\ least' <= v /\ v <= most'
BY DurationsAssumption, ScaleAssumption, CountAssumption DEF TypeOK, Seen

(* The heights of the extreme durations are the extreme heights.           *)
LEMMA ExtremesKept ==
    ASSUME NEW v \in Nat, least \in Nat, most \in Nat, count > 0, count \in Nat, Seen(v)
    PROVE  /\ v * Scale \in Int /\ least * Scale \in Int /\ most * Scale \in Int
           /\ \/ least' * Scale = v * Scale /\ v * Scale <= least * Scale
              \/ least' * Scale = least * Scale /\ v * Scale >= least * Scale
           /\ \/ most' * Scale = v * Scale /\ v * Scale >= most * Scale
              \/ most' * Scale = most * Scale /\ v * Scale <= most * Scale
<1>1. /\ least' = IF v < least THEN v ELSE least
      /\ most'  = IF v > most  THEN v ELSE most
  BY DEF Seen
<1>2. /\ v * Scale \in Int /\ least * Scale \in Int /\ most * Scale \in Int
      /\ v < least => v * Scale < least * Scale
      /\ least < v => least * Scale < v * Scale
      /\ v < most => v * Scale < most * Scale
      /\ most < v => most * Scale < v * Scale
  BY Scaled
<1>3. /\ v < least => v * Scale <= least * Scale
      /\ least < v => least * Scale <= v * Scale
      /\ v < most => v * Scale <= most * Scale
      /\ most < v => most * Scale <= v * Scale
  BY <1>2
<1>4. \/ least' = v /\ v * Scale <= least * Scale
      \/ least' = least /\ v * Scale >= least * Scale
  <2>1. CASE v < least
    <3>1. least' = v
      BY <1>1, <2>1
    <3> QED
      BY <1>3, <2>1, <3>1, Zenon
  <2>2. CASE v = least
    BY <1>1, <1>2, <2>2
  <2>3. CASE least < v
    <3>1. least' = least
      BY <1>1, <2>3
    <3>2. v * Scale >= least * Scale
      BY <1>2, <2>3
    <3> QED
      BY <3>1, <3>2, Zenon
  <2> QED
    BY <2>1, <2>2, <2>3
<1>5. \/ most' = v /\ v * Scale >= most * Scale
      \/ most' = most /\ v * Scale <= most * Scale
  <2>1. CASE v < most
    <3>1. most' = most
      BY <1>1, <2>1
    <3> QED
      BY <1>3, <2>1, <3>1, Zenon
  <2>2. CASE v = most
    BY <1>1, <1>2, <2>2
  <2>3. CASE most < v
    <3>1. most' = v
      BY <1>1, <2>3
    <3>2. v * Scale >= most * Scale
      BY <1>2, <2>3
    <3> QED
      BY <3>1, <3>2, Zenon
  <2> QED
    BY <2>1, <2>2, <2>3
<1>6. \/ least' * Scale = v * Scale /\ v * Scale <= least * Scale
      \/ least' * Scale = least * Scale /\ v * Scale >= least * Scale
  BY <1>4, Zenon
<1>7. \/ most' * Scale = v * Scale /\ v * Scale >= most * Scale
      \/ most' * Scale = most * Scale /\ v * Scale <= most * Scale
  BY <1>5, Zenon
<1>8. v * Scale \in Int /\ least * Scale \in Int /\ most * Scale \in Int
  BY <1>2, Zenon
<1> QED
  BY <1>6, <1>7, <1>8, ZenonT(30)

LEMMA FillKeeps ==
    ASSUME IInv, NEW v \in Durations, Fill(v)
    PROVE  IInv'
<1> DEFINE h == v * Scale
<1> USE DEF IInv
<1>1. N \in Nat /\ N >= 5 /\ N' = N /\ count \in Nat /\ count < N
  BY Markers DEF TypeOK, Fill, N
<1>2. /\ v \in Nat /\ h \in Int /\ count' = count + 1 /\ count' \in 1 .. MaxCount
      /\ least' \in Nat /\ most' \in Nat
  BY SeenTypes DEF Fill
<1>3. Filled = count /\ Filled' = count + 1
  BY <1>1, <1>2 DEF Filled
<1>4. PICK k \in Cells(h) :
        heights' = [i \in 1 .. count + 1 |->
                      IF i < k THEN heights[i] ELSE IF i = k THEN h ELSE heights[i - 1]]
  BY DEF Fill
<1>5. /\ k \in 1 .. count + 1
      /\ \A j \in 1 .. count : j < k => heights[j] <= h
      /\ \A j \in 1 .. count : j >= k => heights[j] >= h
  BY <1>2, <1>3, CellFits
<1>6. TypeOK'
  <2>1. heights' \in [1 .. Filled' -> Int]
    BY <1>1, <1>2, <1>3, <1>4, <1>5 DEF TypeOK
  <2> QED
    BY <1>1, <1>2, <2>1 DEF TypeOK, Fill, Filled
<1>7. PositionsIncrease' /\ EndsCounted'
  BY <1>1, <1>2 DEF PositionsIncrease, EndsCounted, Fill, TypeOK
<1>8. HeightsInOrder'
  <2>0. /\ \A i \in 1 .. count : heights[i] \in Int
        /\ \A i, j \in 1 .. count : i <= j => heights[i] <= heights[j]
    BY <1>3 DEF HeightsInOrder, TypeOK
  <2>1. \A i, j \in 1 .. count + 1 : i <= j => heights'[i] <= heights'[j]
    <3> SUFFICES ASSUME NEW i \in 1 .. count + 1, NEW j \in 1 .. count + 1, i <= j
                 PROVE  heights'[i] <= heights'[j]
      OBVIOUS
    <3> HIDE DEF h
    <3>1. CASE j < k
      BY <1>1, <1>4, <1>5, <2>0, <3>1
    <3>2. CASE j = k
      BY <1>1, <1>2, <1>4, <1>5, <2>0, <3>2
    <3>3. CASE j > k
      <4>1. heights'[j] = heights[j - 1] /\ j - 1 \in 1 .. count /\ j - 1 >= k
        BY <1>1, <1>4, <1>5, <3>3
      <4>2. CASE i > k
        <5>1. heights'[i] = heights[i - 1] /\ i - 1 \in 1 .. count
          BY <1>1, <1>4, <1>5, <4>2
        <5> QED
          BY <1>1, <2>0, <4>1, <5>1
      <4>3. CASE i = k
        BY <1>1, <1>2, <1>4, <1>5, <4>1, <4>3
      <4>4. CASE i < k
        <5>1. heights'[i] = heights[i] /\ i \in 1 .. count /\ i <= j - 1
          BY <1>1, <1>4, <1>5, <3>3, <4>4
        <5> QED
          BY <1>1, <2>0, <4>1, <5>1
      <4> QED
        BY <1>5, <4>2, <4>3, <4>4
    <3> QED
      BY <1>1, <1>5, <3>1, <3>2, <3>3
  <2>2. heights'[1] = least' * Scale /\ heights'[count + 1] = most' * Scale
    <3>1. CASE count = 0
      BY <1>1, <1>2, <1>4, <1>5, <3>1 DEF Fill, Seen
    <3>2. CASE count > 0
      <4>1. /\ heights[1] = least * Scale /\ heights[count] = most * Scale
            /\ heights[1] \in Int /\ heights[count] \in Int
            /\ least \in Nat /\ most \in Nat
        BY <1>1, <1>3, <2>0, <3>2 DEF HeightsInOrder, TypeOK
      <4>2. /\ heights'[1] = IF k = 1 THEN h ELSE heights[1]
            /\ heights'[count + 1] = IF k = count + 1 THEN h ELSE heights[count]
        BY <1>1, <1>4, <1>5, <3>2
      <4>3. /\ k = 1 => h <= heights[1]
            /\ k # 1 => h >= heights[1]
            /\ k = count + 1 => h >= heights[count]
            /\ k # count + 1 => h <= heights[count]
        BY <1>1, <1>5, <3>2
      <4>4. /\ h \in Int /\ least * Scale \in Int /\ most * Scale \in Int
            /\ \/ least' * Scale = h /\ h <= least * Scale
               \/ least' * Scale = least * Scale /\ h >= least * Scale
            /\ \/ most' * Scale = h /\ h >= most * Scale
               \/ most' * Scale = most * Scale /\ h <= most * Scale
        BY <1>1, <1>2, <3>2, <4>1, ExtremesKept DEF Fill, h
      <4> QED
        BY <4>1, <4>2, <4>3, <4>4
    <3> QED
      BY <1>1, <3>1, <3>2
  <2> QED
    BY <1>2, <1>3, <2>1, <2>2 DEF HeightsInOrder
<1> QED
  BY <1>6, <1>7, <1>8

LEMMA ObserveKeeps ==
    ASSUME IInv, NEW v \in Durations, Observe(v)
    PROVE  IInv'
<1> DEFINE h == v * Scale
<1> USE DEF IInv
<1>1. N \in Nat /\ N >= 5 /\ N' = N /\ count \in Nat /\ count >= N
  BY Markers DEF TypeOK, Observe, N
<1>2. /\ v \in Nat /\ h \in Int /\ count' = count + 1 /\ count' \in 1 .. MaxCount
      /\ least' \in Nat /\ most' \in Nat
  BY SeenTypes DEF Observe
<1>3. Filled = N /\ Filled' = N
  BY <1>1, <1>2 DEF Filled
<1>4. PICK k \in Cells(h) :
        /\ heights' = [heights EXCEPT ![1] = IF k = 1 THEN h ELSE @,
                                      ![N] = IF k = N + 1 THEN h ELSE @]
        /\ positions' = [i \in 1 .. N |->
                           IF i >= FirstShifted(k) THEN positions[i] + 1 ELSE positions[i]]
  BY DEF Observe
<1>5. /\ k \in 1 .. N + 1
      /\ \A j \in 1 .. N : j < k => heights[j] <= h
      /\ \A j \in 1 .. N : j >= k => heights[j] >= h
  BY <1>2, <1>3, CellFits
<1>6. FirstShifted(k) \in 2 .. N
  BY <1>1, <1>5 DEF FirstShifted
<1>7. heights' \in [1 .. N -> Int]
  BY <1>1, <1>2, <1>3, <1>4 DEF TypeOK
<1>8. TypeOK'
  <2>1. positions' \in [1 .. N -> Nat]
    BY <1>1, <1>4 DEF TypeOK
  <2> QED
    BY <1>1, <1>2, <1>3, <1>7, <2>1 DEF TypeOK, Observe
<1>9. PositionsIncrease' /\ EndsCounted'
  <2>0. \A i \in 1 .. N :
           /\ positions[i] \in Nat
           /\ i >= FirstShifted(k) => positions'[i] = positions[i] + 1
           /\ i < FirstShifted(k) => positions'[i] = positions[i]
    BY <1>1, <1>4, <1>6 DEF TypeOK
  <2>1. PICK first \in 2 .. N :
          \A i \in 1 .. N :
             /\ positions[i] \in Nat
             /\ i >= first => positions'[i] = positions[i] + 1
             /\ i < first => positions'[i] = positions[i]
    BY <1>6, <2>0
  <2>2. PositionsIncrease'
    <3>1. \A i \in 1 .. N - 1 : i \in 1 .. N /\ i + 1 \in 1 .. N /\ positions[i] < positions[i + 1]
      BY <1>1 DEF PositionsIncrease
    <3>2. ASSUME NEW i \in 1 .. N - 1 PROVE positions'[i] < positions'[i + 1]
      <4>1. /\ i \in 1 .. N /\ i + 1 \in 1 .. N /\ positions[i] < positions[i + 1]
            /\ positions'[i] = positions[i] \/ (positions'[i] = positions[i] + 1 /\ i + 1 >= first)
        BY <1>1, <2>1, <3>1
      <4>2. /\ positions[i] \in Nat /\ positions[i + 1] \in Nat
            /\ i + 1 >= first => positions'[i + 1] = positions[i + 1] + 1
            /\ i + 1 < first => positions'[i + 1] = positions[i + 1]
        BY <2>1, <4>1
      <4> QED
        BY <2>1, <4>1, <4>2
    <3> QED
      BY <1>1, <3>2 DEF PositionsIncrease
  <2>3. EndsCounted'
    <3>1. 1 \in 1 .. N /\ N \in 1 .. N /\ ~(1 >= first) /\ N >= first
      BY <1>1, <2>1
    <3>2. positions'[1] = positions[1] /\ positions'[N] = positions[N] + 1
      BY <2>1, <3>1
    <3>3. positions[1] = 0 /\ positions[N] = count - 1
      BY <1>1 DEF EndsCounted
    <3> QED
      BY <1>1, <1>2, <3>2, <3>3 DEF EndsCounted
  <2> QED
    BY <2>2, <2>3
<1>10. HeightsInOrder'
  <2>0. /\ \A i \in 1 .. N : heights[i] \in Int
        /\ \A i, j \in 1 .. N : i <= j => heights[i] <= heights[j]
    BY <1>3 DEF HeightsInOrder, TypeOK
  <2>3. /\ heights'[1] = IF k = 1 THEN h ELSE heights[1]
        /\ heights'[N] = IF k = N + 1 THEN h ELSE heights[N]
        /\ \A i \in 2 .. N - 1 : heights'[i] = heights[i]
    BY <1>1, <1>3, <1>4 DEF TypeOK
  <2> HIDE DEF h
  <2>1. \A i, j \in 1 .. N : i <= j => heights'[i] <= heights'[j]
    <3> SUFFICES ASSUME NEW i \in 1 .. N, NEW j \in 1 .. N, i <= j
                 PROVE  heights'[i] <= heights'[j]
      OBVIOUS
    <3>1. heights'[i] <= heights[i] \/ i = N
      BY <1>1, <1>2, <1>5, <2>0, <2>3
    <3>2. heights'[j] >= heights[j] \/ j = 1
      BY <1>1, <1>2, <1>5, <2>0, <2>3
    <3>3. heights'[i] \in Int /\ heights'[j] \in Int
      BY <1>7
    <3>4. CASE i = j
      BY <3>3, <3>4
    <3>5. CASE i < j
      BY <1>1, <2>0, <3>1, <3>2, <3>3, <3>5
    <3> QED
      BY <1>1, <3>4, <3>5
  <2>2. heights'[1] = least' * Scale /\ heights'[N] = most' * Scale
    <3>1. /\ heights[1] = least * Scale /\ heights[N] = most * Scale
          /\ least \in Nat /\ most \in Nat
      BY <1>1, <1>3 DEF HeightsInOrder, TypeOK
    <3>2. /\ k = 1 => h <= heights[1]
          /\ k # 1 => h >= heights[1]
          /\ k = N + 1 => h >= heights[N]
          /\ k # N + 1 => h <= heights[N]
      BY <1>1, <1>5
    <3>3. /\ h \in Int /\ least * Scale \in Int /\ most * Scale \in Int
          /\ \/ least' * Scale = h /\ h <= least * Scale
             \/ least' * Scale = least * Scale /\ h >= least * Scale
          /\ \/ most' * Scale = h /\ h >= most * Scale
             \/ most' * Scale = most * Scale /\ h <= most * Scale
      BY <1>1, <1>2, <3>1, ExtremesKept DEF Observe, h
    <3> QED
      BY <2>3, <3>1, <3>2, <3>3
  <2> QED
    BY <1>2, <1>3, <2>1, <2>2 DEF HeightsInOrder
<1> QED
  BY <1>8, <1>9, <1>10

(* A prediction on the line stays between the marker and its neighbour, as *)
(* one on the parabola is only taken if it does.                           *)
LEMMA PredictionFits ==
    ASSUME NEW d \in {-1, 1}, NEW i \in Int,
           heights[i - 1] \in Int, heights[i] \in Int, heights[i + 1] \in Int,
           heights[i - 1] <= heights[i], heights[i] <= heights[i + 1],
           positions[i - 1] \in Nat, positions[i] \in Nat, positions[i + 1] \in Nat,
           positions[i - 1] < positions[i], positions[i] < positions[i + 1]
    PROVE  /\ Predicted(d, i) \in Int
           /\ heights[i - 1] <= Predicted(d, i) /\ Predicted(d, i) <= heights[i + 1]
<1>1. /\ LinePred(d, i) \in Int
      /\ heights[i - 1] <= LinePred(d, i) /\ LinePred(d, i) <= heights[i + 1]
  <2>1. CASE d = 1
    <3>1. /\ heights[i + 1] - heights[i] \in Nat
          /\ positions[i + 1] - positions[i] \in Nat /\ positions[i + 1] - positions[i] >= 1
      OBVIOUS
    <3>2. PICK q \in Int :
             /\ q = (heights[i + 1] - heights[i]) \div (positions[i + 1] - positions[i])
             /\ 0 <= q /\ q <= heights[i + 1] - heights[i]
      BY <3>1, Quotient
    <3> QED
      BY <2>1, <3>2 DEF LinePred
  <2>2. CASE d = -1
    <3>1. /\ heights[i] - heights[i - 1] \in Nat
          /\ positions[i] - positions[i - 1] \in Nat /\ positions[i] - positions[i - 1] >= 1
      OBVIOUS
    <3>2. PICK q \in Int :
             /\ q = (heights[i] - heights[i - 1]) \div (positions[i] - positions[i - 1])
             /\ 0 <= q /\ q <= heights[i] - heights[i - 1]
      BY <3>1, Quotient
    <3>3. LinePred(d, i) = heights[i] - q
      BY <2>2, <3>2 DEF LinePred
    <3> QED
      BY <3>2, <3>3
  <2> QED
    BY <2>1, <2>2
<1>2. QuadPred(d, i) \in Int
  <2> DEFINE above == positions[i + 1] - positions[i]
             below == positions[i] - positions[i - 1]
             rise  == (below + d) * (heights[i + 1] - heights[i]) * below
             fall  == (above - d) * (heights[i] - heights[i - 1]) * above
  <2>1. above \in Nat /\ below \in Nat /\ above >= 1 /\ below >= 1
    OBVIOUS
  <2>2. rise \in Int /\ fall \in Int /\ d \in Int
    <3>1. /\ (below + d) * (heights[i + 1] - heights[i]) \in Int
          /\ (above - d) * (heights[i] - heights[i - 1]) \in Int
      BY <2>1
    <3> QED
      BY <2>1, <3>1
  <2>3. above * below * (above + below) \in Nat /\ above * below * (above + below) >= 1
    <3>1. above * below \in Nat /\ above * below >= 1
      BY <2>1, Products
    <3>2. above + below \in Nat /\ above + below >= 1
      BY <2>1
    <3> QED
      BY <3>1, <3>2, Products
  <2>4. QuadPred(d, i)
          = heights[i] + (d * (rise + fall)) \div (above * below * (above + below))
    BY DEF QuadPred
  <2> HIDE DEF above, below, rise, fall
  <2>5. d * (rise + fall) \in Int
    BY <2>2
  <2>6. (d * (rise + fall)) \div (above * below * (above + below)) \in Int
    BY <2>3, <2>5
  <2> QED
    BY <2>4, <2>6
<1> QED
  BY <1>1, <1>2 DEF Predicted

(* What the loop knows about the marker it moves by one: the one it moves  *)
(* towards is at least two places away.                                    *)
LEMMA MoveKeeps ==
    ASSUME IInv, at # 0, NEW d \in {-1, 1}, MoveMarker(d), NextMarker,
           positions[at + d] - positions[at] > 1 \/ positions[at] - positions[at + d] > 1
    PROVE  IInv'
<1> USE DEF IInv
<1>1. N \in Nat /\ N >= 5 /\ N' = N /\ count \in Nat /\ count > N /\ count' = count
  BY Markers DEF TypeOK, NextMarker, N
<1>2. Filled = N /\ Filled' = N /\ at \in 2 .. N - 1
  BY <1>1 DEF Filled, TypeOK
<1>3. /\ \A i \in 1 .. N : heights[i] \in Int /\ positions[i] \in Nat
      /\ \A i, j \in 1 .. N : i <= j => heights[i] <= heights[j]
      /\ heights[1] = least * Scale /\ heights[N] = most * Scale
  <2>1. \A i \in 1 .. N : heights[i] \in Int /\ positions[i] \in Nat
    BY <1>1, <1>2 DEF TypeOK
  <2>2. \A i, j \in 1 .. N : i <= j => heights[i] <= heights[j]
    BY <1>2 DEF HeightsInOrder
  <2>3. heights[1] = least * Scale /\ heights[N] = most * Scale
    <3>1. count > 0
      BY <1>1
    <3> QED
      BY <1>2, <3>1, Zenon DEF HeightsInOrder
  <2> QED
    BY <2>1, <2>2, <2>3
<1>4. /\ at \in 1 .. N /\ at - 1 \in 1 .. N /\ at + 1 \in 1 .. N
      /\ positions[at - 1] \in Nat /\ positions[at] \in Nat /\ positions[at + 1] \in Nat
      /\ heights[at - 1] \in Int /\ heights[at] \in Int /\ heights[at + 1] \in Int
      /\ heights[at - 1] <= heights[at] /\ heights[at] <= heights[at + 1]
  BY <1>1, <1>2, <1>3
<1>5. positions[at - 1] < positions[at] /\ positions[at] < positions[at + 1]
  <2>1. at - 1 \in 1 .. N - 1 /\ at \in 1 .. N - 1 /\ (at - 1) + 1 = at
    BY <1>1, <1>2
  <2> QED
    BY <2>1 DEF PositionsIncrease
<1>6. PICK y \in Int : /\ y = Predicted(d, at)
                      /\ heights[at - 1] <= y /\ y <= heights[at + 1]
  <2>1. Predicted(d, at) \in Int /\ heights[at - 1] <= Predicted(d, at)
          /\ Predicted(d, at) <= heights[at + 1]
    BY <1>4, <1>5, PredictionFits
  <2> QED
    BY <2>1
<1>7. /\ heights' = [heights EXCEPT ![at] = y]
      /\ positions' = [positions EXCEPT ![at] = @ + d]
  BY <1>6 DEF MoveMarker
<1>8. /\ heights' \in [1 .. N -> Int] /\ heights'[at] = y
      /\ \A i \in 1 .. N : i # at => heights'[i] = heights[i]
  BY <1>2, <1>4, <1>6, <1>7 DEF TypeOK
<1>9. /\ positions' \in [1 .. N -> Nat] /\ positions'[at] = positions[at] + d
      /\ \A i \in 1 .. N : i # at => positions'[i] = positions[i]
  <2>1. positions[at] + d \in Nat
    BY <1>4, <1>5
  <2> QED
    BY <1>2, <1>4, <1>7, <2>1 DEF TypeOK
<1>10. TypeOK'
  BY <1>1, <1>2, <1>8, <1>9 DEF TypeOK, NextMarker
<1>11. PositionsIncrease'
  <2>1. ASSUME NEW i \in 1 .. N - 1 PROVE positions'[i] < positions'[i + 1]
    <3>1. i \in 1 .. N /\ i + 1 \in 1 .. N /\ positions[i] < positions[i + 1]
      BY <1>1 DEF PositionsIncrease
    <3>2. CASE i = at
      <4>1. positions'[i + 1] = positions[i + 1] /\ positions'[i] = positions[i] + d
        BY <1>2, <1>4, <1>9, <3>1, <3>2
      <4> QED
        BY <1>4, <1>5, <3>1, <3>2, <4>1
    <3>3. CASE i + 1 = at
      <4>0. i # at /\ i = at - 1
        BY <1>2, <3>3
      <4>1. positions'[i] = positions[i] /\ positions'[i + 1] = positions[i + 1] + d
            /\ i = at - 1
        BY <1>9, <3>1, <3>3, <4>0
      <4> QED
        BY <1>4, <1>5, <3>1, <3>3, <4>1
    <3>4. CASE i # at /\ i + 1 # at
      BY <1>9, <3>1, <3>4
    <3> QED
      BY <3>2, <3>3, <3>4
  <2> QED
    BY <1>1, <2>1 DEF PositionsIncrease
<1>12. EndsCounted'
  BY <1>1, <1>2, <1>9 DEF EndsCounted
<1>13. HeightsInOrder'
  <2>1. \A i, j \in 1 .. N : i <= j => heights'[i] <= heights'[j]
    <3> SUFFICES ASSUME NEW i \in 1 .. N, NEW j \in 1 .. N, i <= j
                 PROVE  heights'[i] <= heights'[j]
      OBVIOUS
    <3>1. CASE i = at /\ j = at
      BY <1>6, <1>8, <3>1
    <3>2. CASE i = at /\ j # at
      <4>1. heights[at + 1] <= heights[j] /\ heights'[j] = heights[j] /\ heights[j] \in Int
        BY <1>3, <1>4, <1>8, <3>2
      <4> QED
        BY <1>4, <1>6, <1>8, <3>2, <4>1
    <3>3. CASE i # at /\ j = at
      <4>1. heights[i] <= heights[at - 1] /\ heights'[i] = heights[i] /\ heights[i] \in Int
        BY <1>3, <1>4, <1>8, <3>3
      <4> QED
        BY <1>4, <1>6, <1>8, <3>3, <4>1
    <3>4. CASE i # at /\ j # at
      BY <1>3, <1>8, <3>4
    <3> QED
      BY <3>1, <3>2, <3>3, <3>4
  <2>2. least' = least /\ most' = most /\ heights'[1] = heights[1] /\ heights'[N] = heights[N]
    BY <1>1, <1>2, <1>8 DEF NextMarker
  <2> QED
    BY <1>1, <1>2, <1>3, <2>1, <2>2 DEF HeightsInOrder
<1> QED
  BY <1>10, <1>11, <1>12, <1>13

LEMMA StayKeeps ==
    ASSUME IInv, Stay
    PROVE  IInv'
<1>1. N \in Nat /\ N >= 5 /\ N' = N /\ Filled' = Filled
  BY Markers DEF IInv, TypeOK, Stay, NextMarker, N, Filled
<1>2. TypeOK'
  BY <1>1 DEF IInv, TypeOK, Stay, NextMarker
<1>3. PositionsIncrease' /\ EndsCounted' /\ HeightsInOrder'
  BY <1>1 DEF IInv, PositionsIncrease, EndsCounted, HeightsInOrder, Stay, NextMarker
<1> QED
  BY <1>2, <1>3 DEF IInv

LEMMA StutterKeeps ==
    ASSUME IInv, UNCHANGED vars
    PROVE  IInv'
<1>1. N' = N /\ Filled' = Filled
  BY DEF vars, N, Filled
<1> QED
  BY <1>1 DEF vars, IInv, TypeOK, PositionsIncrease, EndsCounted, HeightsInOrder

LEMMA NextKeeps == IInv /\ [Next]_vars => IInv'
<1> SUFFICES ASSUME IInv, [Next]_vars PROVE IInv'
  OBVIOUS
<1>1. ASSUME NEW v \in Durations, Fill(v) PROVE IInv'
  BY <1>1, FillKeeps
<1>2. ASSUME NEW v \in Durations, Observe(v) PROVE IInv'
  BY <1>2, ObserveKeeps
<1>3. CASE Advance
  BY <1>3, MoveKeeps DEF Advance, MayAdvance
<1>4. CASE Retreat
  <2>1. positions[at] - positions[at - 1] > 1 /\ at + (-1) = at - 1
    BY <1>4 DEF Retreat, MayRetreat, IInv, TypeOK
  <2> QED
    BY <1>4, <2>1, MoveKeeps DEF Retreat
<1>5. CASE Stay
  BY <1>5, StayKeeps
<1>6. CASE Idle \/ UNCHANGED vars
  BY <1>6, StutterKeeps DEF Idle
<1> QED
  BY <1>1, <1>2, <1>3, <1>4, <1>5, <1>6 DEF Next

(* Whatever durations come, in whatever order: no two markers of the       *)
(* estimate of packets.py's actions come to the same place, so that no     *)
(* prediction divides by zero; the outer markers count and stand at the    *)
(* extremes; and the heights stay in the order binary_search relies on.    *)
THEOREM Invariance == Spec => []IInv
BY InitInv, NextKeeps, PTL DEF Spec

-----------------------------------------------------------------------------
(* Induction.                                                              *)

(* Induction, from what is known of injections of a finite set: were n not *)
(* in T, k |-> k - 1 would map the numbers up to n that are not in T into  *)
(* themselves, one to one, and nothing to n.                               *)
LEMMA SetInduction ==
    ASSUME NEW T, 0 \in T, \A n \in Nat : n \in T => n + 1 \in T
    PROVE  \A n \in Nat : n \in T
<1> SUFFICES ASSUME NEW n \in Nat, n \notin T PROVE FALSE
  OBVIOUS
<1> DEFINE S == {k \in 0 .. n : k \notin T}
<1> DEFINE f == [k \in S |-> k - 1]
<1>1. IsFiniteSet(S)
  <2>1. IsFiniteSet(0 .. n)
    BY FS_Interval
  <2> QED
    BY <2>1, FS_Subset
<1>2. f \in [S -> S]
  <2> SUFFICES ASSUME NEW k \in S PROVE k - 1 \in S
    OBVIOUS
  <2>1. k \in Nat /\ k # 0 /\ k - 1 \in Nat /\ k - 1 \in 0 .. n /\ (k - 1) + 1 = k
    OBVIOUS
  <2> QED
    BY <2>1
<1>3. f \in Injection(S, S)
  BY <1>2 DEF Injection, IsInjective
<1>4. f \in Surjection(S, S)
  BY <1>1, <1>3, FS_Injection
<1>5. \A t \in S : \E k \in S : f[k] = t
  <2> HIDE DEF f, S
  <2> QED
    BY <1>4 DEF Surjection
<1>6. n \in S
  OBVIOUS
<1>7. PICK k \in S : f[k] = n
  BY <1>5, <1>6
<1> QED
  BY <1>7

(* Definitions by recursion over an interval define something.             *)
LEMMA RecursionDefines ==
    ASSUME NEW V, NEW first \in V, NEW n \in Nat, NEW step \in [1 .. n -> [V -> V]]
    PROVE  \E f \in [0 .. n -> V] : f[0] = first /\ \A i \in 1 .. n : f[i] = step[i][f[i - 1]]
<1> DEFINE Upto(k) ==
      \E f \in [0 .. k -> V] : f[0] = first /\ \A i \in 1 .. k : f[i] = step[i][f[i - 1]]
<1> DEFINE T == {k \in Nat : k <= n => Upto(k)}
<1>1. 0 \in T
  <2> DEFINE f == [i \in 0 .. 0 |-> first]
  <2>1. f \in [0 .. 0 -> V] /\ f[0] = first /\ \A i \in 1 .. 0 : f[i] = step[i][f[i - 1]]
    OBVIOUS
  <2>2. Upto(0)
    BY <2>1
  <2> QED
    BY <2>2
<1>2. ASSUME NEW k \in Nat, k \in T PROVE k + 1 \in T
  <2> SUFFICES ASSUME k + 1 <= n PROVE Upto(k + 1)
    OBVIOUS
  <2>1. Upto(k)
    BY <1>2
  <2>2. PICK f \in [0 .. k -> V] :
            f[0] = first /\ \A i \in 1 .. k : f[i] = step[i][f[i - 1]]
    BY <2>1
  <2> DEFINE g == [i \in 0 .. k + 1 |-> IF i = k + 1 THEN step[k + 1][f[k]] ELSE f[i]]
  <2>3. step[k + 1][f[k]] \in V
    OBVIOUS
  <2>4. g \in [0 .. k + 1 -> V] /\ g[0] = first
    BY <2>2, <2>3
  <2>5. ASSUME NEW i \in 1 .. k + 1 PROVE g[i] = step[i][g[i - 1]]
    <3>1. CASE i = k + 1
      BY <3>1
    <3>2. CASE i # k + 1
      <4>1. i \in 1 .. k /\ i - 1 \in 0 .. k
        BY <3>2
      <4> QED
        BY <2>2, <3>2, <4>1
    <3> QED
      BY <3>1, <3>2
  <2> QED
    BY <2>4, <2>5
<1> HIDE DEF T
<1>3. n \in T
  BY <1>1, <1>2, SetInduction
<1> QED
  BY <1>3 DEF T

Steps(n, V) == [1 .. n -> [V -> V]]

Unrolls(f, n, V, first, step) ==
    f \in [0 .. n -> V] /\ f[0] = first /\ \A i \in 1 .. n : f[i] = step[i][f[i - 1]]

LEMMA RecursionUnrolls ==
    ASSUME NEW V, NEW first \in V, NEW n \in Nat, NEW step \in Steps(n, V)
    PROVE  \E f : Unrolls(f, n, V, first, step)
<1>1. step \in [1 .. n -> [V -> V]]
  BY DEF Steps
<1>2. \E f \in [0 .. n -> V] : f[0] = first /\ \A i \in 1 .. n : f[i] = step[i][f[i - 1]]
  BY <1>1, RecursionDefines
<1> QED
  BY <1>2 DEF Unrolls

(* And they agree as far as what they are defined from does.               *)
LEMMA RecursionAgrees ==
    ASSUME NEW n \in Nat, NEW f, NEW g, f[0] = g[0],
           \A i \in 1 .. n : f[i - 1] = g[i - 1] => f[i] = g[i]
    PROVE  \A i \in 0 .. n : f[i] = g[i]
<1> DEFINE T == {k \in Nat : k <= n => f[k] = g[k]}
<1>1. 0 \in T
  OBVIOUS
<1>2. ASSUME NEW k \in Nat, k \in T PROVE k + 1 \in T
  <2> SUFFICES ASSUME k + 1 <= n PROVE f[k + 1] = g[k + 1]
    OBVIOUS
  <2>1. f[k] = g[k] /\ k + 1 \in 1 .. n /\ (k + 1) - 1 = k
    BY <1>2
  <2> QED
    BY <2>1
<1> HIDE DEF T
<1>3. \A k \in Nat : k \in T
  BY <1>1, <1>2, SetInduction
<1> QED
  BY <1>3 DEF T

-----------------------------------------------------------------------------
(* Sums.                                                                   *)

(* So many numbers.                                                        *)
Row(n) == [1 .. n -> Nat]

(* The recursion of Sum defines something: the sums up to each number.     *)
LEMMA SumDefines ==
    ASSUME NEW n \in Nat, NEW x \in Row(n)
    PROVE  \E f \in [0 .. n -> Nat] :
             /\ f[0] = 0 /\ \A i \in 1 .. n : f[i] = f[i - 1] + x[i]
             /\ Sum(x) = f[n]
<1> DEFINE step == [i \in 1 .. n |-> [v \in Nat |-> v + x[i]]]
<1>1. step \in [1 .. n -> [Nat -> Nat]]
  BY DEF Row
<1>2. PICK f : /\ f \in [0 .. n -> Nat]
               /\ f[0] = 0 /\ \A i \in 1 .. n : f[i] = step[i][f[i - 1]]
  <2>1. PICK V : V = Nat
    OBVIOUS
  <2>2. 0 \in V /\ step \in [1 .. n -> [V -> V]]
    BY <1>1, <2>1
  <2>3. PICK first : first = 0
    OBVIOUS
  <2> HIDE DEF step
  <2>4. \E f \in [0 .. n -> V] : f[0] = first /\ \A i \in 1 .. n : f[i] = step[i][f[i - 1]]
    BY <2>2, <2>3, RecursionDefines
  <2> QED
    BY <2>1, <2>3, <2>4
<1>3. ASSUME NEW i \in 1 .. n PROVE f[i] = f[i - 1] + x[i]
  <2>1. i - 1 \in 0 .. n /\ f[i - 1] \in Nat
    BY <1>2
  <2> QED
    BY <1>2, <2>1
<1> DEFINE Unfold(h) == [i \in Nat |-> IF i \in DOMAIN x THEN h[i - 1] + x[i] ELSE 0]
<1>4. Len(x) = n /\ DOMAIN x = 1 .. n
  BY DEF Row
<1>5. \E g : g = Unfold(g)
  <2> DEFINE g == [i \in Nat |-> IF i <= n THEN f[i] ELSE 0]
  <2>1. ASSUME NEW i \in 1 .. n PROVE g[i] = g[i - 1] + x[i]
    BY <1>3
  <2>2. ASSUME NEW i \in Nat, i \notin 1 .. n PROVE g[i] = 0
    BY <1>2, <2>2
  <2>3. g = Unfold(g)
    BY <1>4, <2>1, <2>2
  <2> QED
    BY <2>3
<1> DEFINE sum == CHOOSE h : h = Unfold(h)
<1>6. sum = Unfold(sum)
  BY <1>5
<1>7. Sum(x) = sum[n]
  BY <1>4 DEF Sum
<1> HIDE DEF sum
<1>8. sum[0] = 0 /\ \A i \in 1 .. n : sum[i] = sum[i - 1] + x[i]
  BY <1>4, <1>6
<1>9. \A i \in 0 .. n : sum[i] = f[i]
  <2>1. ASSUME NEW i \in 1 .. n, sum[i - 1] = f[i - 1] PROVE sum[i] = f[i]
    BY <1>3, <1>8, <2>1
  <2>2. sum[0] = f[0]
    BY <1>2, <1>8
  <2>3. \A i \in 1 .. n : sum[i - 1] = f[i - 1] => sum[i] = f[i]
    BY <2>1
  <2> QED
    BY <2>2, <2>3, RecursionAgrees
<1> QED
  BY <1>2, <1>3, <1>7, <1>9

(* No numbers have the sum 0.                                              *)
LEMMA SumOfNone ==
    ASSUME NEW x \in Row(0)
    PROVE  Sum(x) = 0
<1>1. PICK f :
          /\ f \in [0 .. 0 -> Nat]
          /\ f[0] = 0 /\ \A i \in 1 .. 0 : f[i] = f[i - 1] + x[i]
          /\ Sum(x) = f[0]
  <2>1. PICK n \in Nat : n = 0
    OBVIOUS
  <2>2. \E f \in [0 .. n -> Nat] :
          /\ f[0] = 0 /\ \A i \in 1 .. n : f[i] = f[i - 1] + x[i]
          /\ Sum(x) = f[n]
    BY <2>1, SumDefines
  <2> QED
    BY <2>1, <2>2
<1> QED
  BY <1>1

(* A number more is added.                                                 *)
LEMMA SumOfMore ==
    ASSUME NEW n \in Nat, NEW x \in Row(n), NEW y \in Row(n + 1),
           \A i \in 1 .. n : y[i] = x[i]
    PROVE  Sum(x) \in Nat /\ Sum(y) = Sum(x) + y[n + 1]
<1>1. PICK f :
          /\ f \in [0 .. n -> Nat]
          /\ f[0] = 0 /\ \A i \in 1 .. n : f[i] = f[i - 1] + x[i]
          /\ Sum(x) = f[n]
  BY SumDefines
<1>2. PICK g :
          /\ g \in [0 .. n + 1 -> Nat]
          /\ g[0] = 0 /\ \A i \in 1 .. n + 1 : g[i] = g[i - 1] + y[i]
          /\ Sum(y) = g[n + 1]
  <2>1. PICK m \in Nat : m = n + 1
    OBVIOUS
  <2>2. \E g \in [0 .. m -> Nat] :
          /\ g[0] = 0 /\ \A i \in 1 .. m : g[i] = g[i - 1] + y[i]
          /\ Sum(y) = g[m]
    BY <2>1, SumDefines
  <2> QED
    BY <2>1, <2>2
<1>3. \A i \in 0 .. n : g[i] = f[i]
  <2>1. ASSUME NEW i \in 1 .. n, g[i - 1] = f[i - 1] PROVE g[i] = f[i]
    <3>1. i \in 1 .. n + 1
      OBVIOUS
    <3> QED
      BY <1>1, <1>2, <2>1, <3>1
  <2>2. g[0] = f[0]
    BY <1>1, <1>2
  <2>3. \A i \in 1 .. n : g[i - 1] = f[i - 1] => g[i] = f[i]
    BY <2>1
  <2> QED
    BY <2>2, <2>3, RecursionAgrees
<1>4. g[n] = f[n] /\ n + 1 \in 1 .. n + 1 /\ (n + 1) - 1 = n
  BY <1>3
<1> QED
  BY <1>1, <1>2, <1>4

(* Sums are added number by number.                                        *)
LEMMA SumsAdd ==
    ASSUME NEW n \in Nat, NEW x \in Row(n), NEW y \in Row(n)
    PROVE  /\ Sum(x) \in Nat /\ Sum(y) \in Nat
           /\ Sum([i \in 1 .. n |-> x[i] + y[i]]) = Sum(x) + Sum(y)
<1>1. PICK f :
          /\ f \in [0 .. n -> Nat]
          /\ f[0] = 0 /\ \A i \in 1 .. n : f[i] = f[i - 1] + x[i]
          /\ Sum(x) = f[n]
  BY SumDefines
<1>2. PICK g :
          /\ g \in [0 .. n -> Nat]
          /\ g[0] = 0 /\ \A i \in 1 .. n : g[i] = g[i - 1] + y[i]
          /\ Sum(y) = g[n]
  BY SumDefines
<1>3. PICK z : z = [i \in 1 .. n |-> x[i] + y[i]]
  OBVIOUS
<1>4. z \in Row(n) /\ \A i \in 1 .. n : z[i] = x[i] + y[i]
  BY <1>3 DEF Row
<1>5. PICK h :
          /\ h \in [0 .. n -> Nat]
          /\ h[0] = 0 /\ \A i \in 1 .. n : h[i] = h[i - 1] + z[i]
          /\ Sum(z) = h[n]
  BY <1>4, SumDefines
<1>6. PICK k : k = [i \in 0 .. n |-> f[i] + g[i]]
  OBVIOUS
<1>7. \A i \in 0 .. n : k[i] = f[i] + g[i]
  BY <1>6
<1>8. \A i \in 0 .. n : h[i] = k[i]
  <2>1. ASSUME NEW i \in 1 .. n, h[i - 1] = k[i - 1] PROVE h[i] = k[i]
    <3>1. i \in 0 .. n /\ i - 1 \in 0 .. n
      OBVIOUS
    <3>2. k[i] = f[i] + g[i] /\ k[i - 1] = f[i - 1] + g[i - 1]
      BY <1>7, <3>1
    <3>3. /\ f[i] = f[i - 1] + x[i] /\ g[i] = g[i - 1] + y[i]
          /\ h[i] = h[i - 1] + (x[i] + y[i])
      BY <1>1, <1>2, <1>4, <1>5
    <3>4. x[i] \in Nat /\ y[i] \in Nat /\ f[i - 1] \in Nat /\ g[i - 1] \in Nat
      BY <1>1, <1>2, <3>1 DEF Row
    <3> QED
      BY <2>1, <3>2, <3>3, <3>4
  <2>2. h[0] = k[0]
    <3>1. 0 \in 0 .. n
      OBVIOUS
    <3>2. k[0] = f[0] + g[0]
      BY <1>7, <3>1
    <3>3. f[0] = 0 /\ g[0] = 0 /\ h[0] = 0
      BY <1>1, <1>2, <1>5
    <3> QED
      BY <3>2, <3>3
  <2>3. \A i \in 1 .. n : h[i - 1] = k[i - 1] => h[i] = k[i]
    BY <2>1
  <2> QED
    BY <2>2, <2>3, RecursionAgrees
<1>9. n \in 0 .. n
  OBVIOUS
<1>10. Sum(z) = Sum(x) + Sum(y)
  BY <1>1, <1>2, <1>5, <1>7, <1>8, <1>9
<1>11. Sum(x) \in Nat /\ Sum(y) \in Nat
  BY <1>1, <1>2
<1> QED
  BY <1>3, <1>10, <1>11

(* An invariant of the steps holds of the last.                            *)
LEMMA StepsKeep ==
    ASSUME NEW n \in Nat, NEW d, NEW T, d[0] \in T, \A i \in 1 .. n : d[i - 1] \in T => d[i] \in T
    PROVE  d[n] \in T
<1> DEFINE S == {k \in Nat : k <= n => d[k] \in T}
<1>1. 0 \in S
  OBVIOUS
<1>2. ASSUME NEW k \in Nat, k \in S PROVE k + 1 \in S
  <2> SUFFICES ASSUME k + 1 <= n PROVE d[k + 1] \in T
    OBVIOUS
  <2>1. d[k] \in T /\ k + 1 \in 1 .. n /\ (k + 1) - 1 = k
    BY <1>2
  <2> QED
    BY <2>1
<1> HIDE DEF S
<1>3. \A k \in Nat : k \in S
  BY <1>1, <1>2, SetInduction
<1> QED
  BY <1>3 DEF S

-----------------------------------------------------------------------------
(* Dictionaries.                                                           *)

(* Those with keys of K and values of P.                                   *)
Dicts(K, P) == UNION {[D -> P] : D \in SUBSET K}

LEMMA DictsAre ==
    ASSUME NEW K, NEW P, NEW d \in Dicts(K, P)
    PROVE  /\ d = [k \in DOMAIN d |-> d[k]]
           /\ DOMAIN d \subseteq K /\ \A k \in DOMAIN d : d[k] \in P
BY DEF Dicts

LEMMA EmptyIsDict ==
    ASSUME NEW K, NEW P
    PROVE  EmptyDict \in Dicts(K, P) /\ DOMAIN EmptyDict = {}
<1>1. EmptyDict \in [{} -> P] /\ DOMAIN EmptyDict = {}
  BY DEF EmptyDict
<1> QED
  BY <1>1 DEF Dicts

LEMMA PutIsDict ==
    ASSUME NEW K, NEW P, NEW d \in Dicts(K, P), NEW key \in K, NEW p \in P
    PROVE  Put(d, key, p) \in Dicts(K, P)
<1>1. DOMAIN d \subseteq K /\ \A k \in DOMAIN d : d[k] \in P
  BY DictsAre
<1>2. Put(d, key, p) \in [DOMAIN d \cup {key} -> P]
  BY <1>1 DEF Put
<1>3. DOMAIN d \cup {key} \in SUBSET K
  BY <1>1
<1> QED
  BY <1>2, <1>3 DEF Dicts

-----------------------------------------------------------------------------
(* Limits: slow statements.                                                *)

(* What is kept of a statement, with the slowest execution.                *)
SlowestKept ==
    {p \in [count : Nat, total : Nat, min : Nat, max : Nat, node : Nat] : p.node = p.max}

(* A packet of a statement keeps the slowest execution.                    *)
LEMMA SlowestStays ==
    /\ NoSql \in SlowestKept
    /\ \A p \in SlowestKept, t \in Nat : MergeSql(p, t) \in SlowestKept
    /\ \A p, q \in SlowestKept : MergeSqls(p, q) \in SlowestKept
<1>1. NoSql \in SlowestKept
  BY DEF NoSql, SlowestKept
<1>2. ASSUME NEW p \in SlowestKept, NEW t \in Nat PROVE MergeSql(p, t) \in SlowestKept
  BY DEF SlowestKept, MergeSql, Lower, Smaller, Greater
<1>3. ASSUME NEW p \in SlowestKept, NEW q \in SlowestKept PROVE MergeSqls(p, q) \in SlowestKept
  BY DEF SlowestKept, MergeSqls, Lower, Smaller, Greater
<1> QED
  BY <1>1, <1>2, <1>3

(* So many statements at most, and one.                                    *)
FewSqls(dict) ==
    /\ IsFiniteSet(DOMAIN dict) /\ Size(dict) <= SlowSqlCount + 1
    /\ \A key \in DOMAIN dict : dict[key] \in SlowestKept

LEMMA NoneIsFew == FewSqls(EmptyDict)
<1>1. DOMAIN EmptyDict = {}
  BY DEF EmptyDict
<1>2. SlowSqlCount \in Nat
  BY LimitsAssumption
<1> QED
  BY <1>1, <1>2, FS_EmptySet DEF FewSqls, Size

(* One more is put into a dictionary that is not over the limit.           *)
LEMMA PutKeepsFew ==
    ASSUME NEW dict, FewSqls(dict), Size(dict) <= SlowSqlCount, NEW key, NEW p \in SlowestKept
    PROVE  FewSqls(Put(dict, key, p))
<1>1. PICK new : new = Put(dict, key, p)
  OBVIOUS
<1>2. /\ DOMAIN new = DOMAIN dict \cup {key}
      /\ \A k \in DOMAIN new : new[k] = IF k = key THEN p ELSE dict[k]
  BY <1>1 DEF Put
<1>3. IsFiniteSet(DOMAIN dict) /\ Cardinality(DOMAIN dict) <= SlowSqlCount
  BY DEF FewSqls, Size
<1>4. SlowSqlCount \in Nat /\ Cardinality(DOMAIN dict) \in Nat
  BY <1>3, LimitsAssumption, FS_CardinalityType
<1>5. /\ IsFiniteSet(DOMAIN dict \cup {key})
      /\ Cardinality(DOMAIN dict \cup {key}) <= Cardinality(DOMAIN dict) + 1
  BY <1>3, <1>4, FS_AddElement
<1>6. \A k \in DOMAIN new : new[k] \in SlowestKept
  BY <1>2 DEF FewSqls
<1>7. IsFiniteSet(DOMAIN new) /\ Size(new) <= SlowSqlCount + 1
  <2>1. PICK D : D = DOMAIN dict \cup {key}
    OBVIOUS
  <2>2. Cardinality(D) \in Nat /\ Cardinality(D) <= SlowSqlCount + 1
    BY <1>3, <1>4, <1>5, <2>1, FS_CardinalityType
  <2>3. Size(new) = Cardinality(D)
    BY <1>2, <2>1 DEF Size
  <2> QED
    BY <1>2, <1>5, <2>1, <2>2, <2>3
<1> QED
  BY <1>1, <1>6, <1>7 DEF FewSqls

LEMMA RecordSqlKeepsFew ==
    ASSUME NEW dict, FewSqls(dict), NEW path, NEW s, s.duration \in Nat
    PROVE  FewSqls(RecordSql(dict, path, s))
<1>1. PICK key : key = <<path, s.sql>>
  OBVIOUS
<1>2. Get(dict, key, NoSql) \in SlowestKept
  BY SlowestStays DEF Get, FewSqls
<1>3. CASE Size(dict) > SlowSqlCount
  BY <1>3 DEF RecordSql
<1>4. CASE ~(Size(dict) > SlowSqlCount)
  <2>1. Size(dict) <= SlowSqlCount
    BY <1>4, LimitsAssumption, FS_CardinalityType DEF FewSqls, Size
  <2>2. PICK p : p = MergeSql(Get(dict, key, NoSql), s.duration)
    OBVIOUS
  <2>3. p \in SlowestKept
    BY <1>2, <2>2, SlowestStays
  <2>4. RecordSql(dict, path, s) = Put(dict, key, p)
    BY <1>1, <1>4, <2>2 DEF RecordSql
  <2> QED
    BY <2>1, <2>3, <2>4, PutKeepsFew
<1> QED
  BY <1>3, <1>4

LEMMA MergeSlowSqlKeepsFew ==
    ASSUME NEW dict, FewSqls(dict), NEW theirs, FewSqls(theirs), NEW key \in DOMAIN theirs
    PROVE  FewSqls(MergeSlowSql(dict, theirs, key))
<1>1. PICK p : p = IF key \in DOMAIN dict THEN MergeSqls(dict[key], theirs[key])
                   ELSE theirs[key]
  OBVIOUS
<1>2. p \in SlowestKept
  BY <1>1, SlowestStays DEF FewSqls
<1>3. CASE Size(dict) > SlowSqlCount
  BY <1>3 DEF MergeSlowSql
<1>4. CASE ~(Size(dict) > SlowSqlCount)
  <2>1. Size(dict) <= SlowSqlCount
    BY <1>4, LimitsAssumption, FS_CardinalityType DEF FewSqls, Size
  <2>2. MergeSlowSql(dict, theirs, key) = Put(dict, key, p)
    BY <1>1, <1>4 DEF MergeSlowSql
  <2> QED
    BY <1>2, <2>1, <2>2, PutKeepsFew
<1> QED
  BY <1>3, <1>4

(* The recursion of RecordSlowSql defines something.                       *)
LEMMA RecordSlowSqlDefines ==
    ASSUME NEW path, NEW sqls, IsList(sqls), \A i \in DOMAIN sqls : sqls[i].duration \in Nat
    PROVE  \E d :
             /\ d \in [0 .. Len(sqls) ->
                          Dicts({<<path, sqls[i].sql>> : i \in DOMAIN sqls}, SlowestKept)]
             /\ d[0] = EmptyDict
             /\ \A i \in 1 .. Len(sqls) : d[i] = RecordSql(d[i - 1], path, sqls[i])
             /\ RecordSlowSql(path, sqls) = d[Len(sqls)]
<1>1. PICK n \in Nat : n = Len(sqls)
  BY LenProperties DEF IsList
<1>2. PICK V : V = Dicts({<<path, sqls[i].sql>> : i \in DOMAIN sqls}, SlowestKept)
  OBVIOUS
<1>3. PICK first : first = EmptyDict
  OBVIOUS
<1>4. first \in V
  BY <1>2, <1>3, EmptyIsDict
<1>5. ASSUME NEW i \in 1 .. n, NEW v \in V PROVE RecordSql(v, path, sqls[i]) \in V
  <2>1. PICK key : key = <<path, sqls[i].sql>>
    OBVIOUS
  <2>2. i \in DOMAIN sqls
    BY <1>1, LenProperties DEF IsList
  <2>3. PICK K : K = {<<path, sqls[j].sql>> : j \in DOMAIN sqls}
    OBVIOUS
  <2>4. v \in Dicts(K, SlowestKept) /\ V = Dicts(K, SlowestKept) /\ key \in K
    BY <1>2, <2>1, <2>2, <2>3
  <2>5. PICK p : p = MergeSql(Get(v, key, NoSql), sqls[i].duration)
    OBVIOUS
  <2>6. Get(v, key, NoSql) \in SlowestKept
    BY <2>4, DictsAre, SlowestStays DEF Get
  <2>7. p \in SlowestKept
    BY <2>2, <2>5, <2>6, SlowestStays
  <2>8. Put(v, key, p) \in V
    BY <2>4, <2>7, PutIsDict
  <2> QED
    BY <2>1, <2>5, <2>8 DEF RecordSql
<1> DEFINE step == [i \in 1 .. n |-> [v \in V |-> RecordSql(v, path, sqls[i])]]
<1>6. step \in [1 .. n -> [V -> V]]
  BY <1>5
<1>7. PICK f : /\ f \in [0 .. n -> V]
               /\ f[0] = first /\ \A i \in 1 .. n : f[i] = step[i][f[i - 1]]
  <2>1. step \in Steps(n, V)
    BY <1>6 DEF Steps
  <2> HIDE DEF step
  <2>2. \E f : Unrolls(f, n, V, first, step)
    BY <1>4, <2>1, RecursionUnrolls
  <2> QED
    BY <2>2 DEF Unrolls
<1>8. \A i \in 1 .. n : f[i] = RecordSql(f[i - 1], path, sqls[i])
  <2> SUFFICES ASSUME NEW i \in 1 .. n PROVE f[i] = RecordSql(f[i - 1], path, sqls[i])
    OBVIOUS
  <2>1. i - 1 \in 0 .. n /\ f[i - 1] \in V
    BY <1>7
  <2> QED
    BY <1>7, <2>1
<1> DEFINE Unfold(h) ==
      [i \in 0 .. Len(sqls) |-> IF i = 0 THEN EmptyDict ELSE RecordSql(h[i - 1], path, sqls[i])]
<1>9. f = Unfold(f)
  BY <1>1, <1>3, <1>7, <1>8
<1> DEFINE d == CHOOSE h : h = Unfold(h)
<1>10. d = Unfold(d)
  BY <1>9
<1>11. RecordSlowSql(path, sqls) = d[n]
  BY <1>1 DEF RecordSlowSql
<1> HIDE DEF d
<1>12. d[0] = first /\ \A i \in 1 .. n : d[i] = RecordSql(d[i - 1], path, sqls[i])
  BY <1>1, <1>3, <1>10
<1>13. \A i \in 0 .. n : d[i] = f[i]
  <2>1. d[0] = f[0]
    BY <1>7, <1>12
  <2>2. \A i \in 1 .. n : d[i - 1] = f[i - 1] => d[i] = f[i]
    BY <1>8, <1>12
  <2> QED
    BY <2>1, <2>2, RecursionAgrees
<1>14. d \in [0 .. n -> V]
  <2>1. d = [i \in 0 .. n |-> d[i]]
    BY <1>1, <1>10
  <2> QED
    BY <1>7, <1>13, <2>1
<1> QED
  BY <1>1, <1>2, <1>3, <1>11, <1>12, <1>14

(* The statements of one request, and those merged into the packager.      *)
LEMMA RecordSlowSqlIsFew ==
    ASSUME NEW path, NEW sqls, IsList(sqls), \A i \in DOMAIN sqls : sqls[i].duration \in Nat
    PROVE  FewSqls(RecordSlowSql(path, sqls))
<1>1. PICK n \in Nat : n = Len(sqls)
  BY LenProperties DEF IsList
<1>2. PICK V : V = Dicts({<<path, sqls[i].sql>> : i \in DOMAIN sqls}, SlowestKept)
  OBVIOUS
<1>3. PICK d :
          /\ d \in [0 .. n -> V]
          /\ d[0] = EmptyDict /\ \A i \in 1 .. n : d[i] = RecordSql(d[i - 1], path, sqls[i])
          /\ RecordSlowSql(path, sqls) = d[n]
  BY <1>1, <1>2, RecordSlowSqlDefines
<1> DEFINE T == {v \in V : FewSqls(v)}
<1>4. d[0] \in T
  BY <1>3, NoneIsFew
<1>5. ASSUME NEW i \in 1 .. n, d[i - 1] \in T PROVE d[i] \in T
  <2>1. sqls[i].duration \in Nat
    BY <1>1, LenProperties DEF IsList
  <2> QED
    BY <1>3, <1>5, <2>1, RecordSqlKeepsFew
<1>6. d[n] \in T
  <2> HIDE DEF T
  <2>1. \A i \in 1 .. n : d[i - 1] \in T => d[i] \in T
    BY <1>5
  <2> QED
    BY <1>4, <2>1, StepsKeep
<1> QED
  BY <1>3, <1>6

(* The recursion of MergeSlowSqls defines something.                       *)
LEMMA MergeSlowSqlsDefines ==
    ASSUME NEW K, NEW mine \in Dicts(K, SlowestKept), NEW theirs,
           \A key \in DOMAIN theirs : key \in K /\ theirs[key] \in SlowestKept,
           NEW order \in Seq(DOMAIN theirs)
    PROVE  \E d :
             /\ d \in [0 .. Len(order) -> Dicts(K, SlowestKept)]
             /\ d[0] = mine
             /\ \A i \in 1 .. Len(order) : d[i] = MergeSlowSql(d[i - 1], theirs, order[i])
             /\ MergeSlowSqls(mine, theirs, order) = d[Len(order)]
<1>1. PICK n \in Nat : n = Len(order)
  BY LenProperties
<1>2. PICK V : V = Dicts(K, SlowestKept)
  OBVIOUS
<1>3. PICK first : first = mine
  OBVIOUS
<1>4. first \in V
  BY <1>2, <1>3
<1>5. ASSUME NEW i \in 1 .. n, NEW v \in V PROVE MergeSlowSql(v, theirs, order[i]) \in V
  <2>1. PICK key : key = order[i]
    OBVIOUS
  <2>2. key \in DOMAIN theirs
    BY <1>1, <2>1, ElementOfSeq
  <2>3. PICK p : p = IF key \in DOMAIN v THEN MergeSqls(v[key], theirs[key]) ELSE theirs[key]
    OBVIOUS
  <2>4. p \in SlowestKept
    BY <1>2, <2>2, <2>3, DictsAre, SlowestStays
  <2>5. Put(v, key, p) \in V
    BY <1>2, <2>2, <2>4, PutIsDict
  <2> QED
    BY <2>1, <2>3, <2>5 DEF MergeSlowSql
<1> DEFINE step == [i \in 1 .. n |-> [v \in V |-> MergeSlowSql(v, theirs, order[i])]]
<1>6. step \in [1 .. n -> [V -> V]]
  BY <1>5
<1>7. PICK f : /\ f \in [0 .. n -> V]
               /\ f[0] = first /\ \A i \in 1 .. n : f[i] = step[i][f[i - 1]]
  <2>1. step \in Steps(n, V)
    BY <1>6 DEF Steps
  <2> HIDE DEF step
  <2>2. \E f : Unrolls(f, n, V, first, step)
    BY <1>4, <2>1, RecursionUnrolls
  <2> QED
    BY <2>2 DEF Unrolls
<1>8. \A i \in 1 .. n : f[i] = MergeSlowSql(f[i - 1], theirs, order[i])
  <2> SUFFICES ASSUME NEW i \in 1 .. n PROVE f[i] = MergeSlowSql(f[i - 1], theirs, order[i])
    OBVIOUS
  <2>1. i - 1 \in 0 .. n /\ f[i - 1] \in V
    BY <1>7
  <2> QED
    BY <1>7, <2>1
<1> DEFINE Unfold(h) ==
      [i \in 0 .. Len(order) |-> IF i = 0 THEN mine ELSE MergeSlowSql(h[i - 1], theirs, order[i])]
<1>9. f = Unfold(f)
  BY <1>1, <1>3, <1>7, <1>8
<1> DEFINE d == CHOOSE h : h = Unfold(h)
<1>10. d = Unfold(d)
  BY <1>9
<1>11. MergeSlowSqls(mine, theirs, order) = d[n]
  BY <1>1 DEF MergeSlowSqls
<1> HIDE DEF d
<1>12. d[0] = first /\ \A i \in 1 .. n : d[i] = MergeSlowSql(d[i - 1], theirs, order[i])
  BY <1>1, <1>3, <1>10
<1>13. \A i \in 0 .. n : d[i] = f[i]
  <2>1. d[0] = f[0]
    BY <1>7, <1>12
  <2>2. \A i \in 1 .. n : d[i - 1] = f[i - 1] => d[i] = f[i]
    BY <1>8, <1>12
  <2> QED
    BY <2>1, <2>2, RecursionAgrees
<1>14. d \in [0 .. n -> V]
  <2>1. d = [i \in 0 .. n |-> d[i]]
    BY <1>1, <1>10
  <2> QED
    BY <1>7, <1>13, <2>1
<1> QED
  BY <1>1, <1>2, <1>3, <1>11, <1>12, <1>14

LEMMA MergeSlowSqlsIsFew ==
    ASSUME NEW mine, mine = [k \in DOMAIN mine |-> mine[k]], FewSqls(mine),
           NEW theirs, FewSqls(theirs), NEW order \in Seq(DOMAIN theirs)
    PROVE  /\ FewSqls(MergeSlowSqls(mine, theirs, order))
           /\ MergeSlowSqls(mine, theirs, order) =
                [k \in DOMAIN MergeSlowSqls(mine, theirs, order) |->
                    MergeSlowSqls(mine, theirs, order)[k]]
<1>1. PICK n \in Nat : n = Len(order)
  BY LenProperties
<1>2. PICK K : K = DOMAIN mine \cup DOMAIN theirs
  OBVIOUS
<1>3. PICK V : V = Dicts(K, SlowestKept)
  OBVIOUS
<1>4. mine \in Dicts(K, SlowestKept)
  <2>1. mine \in [DOMAIN mine -> SlowestKept]
    BY DEF FewSqls
  <2> QED
    BY <1>2, <2>1 DEF Dicts
<1>5. \A key \in DOMAIN theirs : key \in K /\ theirs[key] \in SlowestKept
  BY <1>2 DEF FewSqls
<1>6. PICK d :
          /\ d \in [0 .. n -> V]
          /\ d[0] = mine /\ \A i \in 1 .. n : d[i] = MergeSlowSql(d[i - 1], theirs, order[i])
          /\ MergeSlowSqls(mine, theirs, order) = d[n]
  BY <1>1, <1>3, <1>4, <1>5, MergeSlowSqlsDefines
<1> DEFINE T == {v \in V : FewSqls(v)}
<1>7. d[0] \in T
  BY <1>6
<1>8. ASSUME NEW i \in 1 .. n, d[i - 1] \in T PROVE d[i] \in T
  <2>1. order[i] \in DOMAIN theirs
    BY <1>1, ElementOfSeq
  <2> QED
    BY <1>6, <1>8, <2>1, MergeSlowSqlKeepsFew
<1>9. d[n] \in T
  <2> HIDE DEF T
  <2>1. \A i \in 1 .. n : d[i - 1] \in T => d[i] \in T
    BY <1>8
  <2> QED
    BY <1>7, <2>1, StepsKeep
<1> QED
  BY <1>3, <1>6, <1>9, DictsAre

-----------------------------------------------------------------------------
(* Limits: traces, and all of them together.                               *)

(* The traces of the requests there may be.                                *)
Traces == UNION {{r.traces[i] : i \in DOMAIN r.traces} : r \in Finished}

FewTraces(dict) ==
    \A path \in DOMAIN dict : dict[path] \in Seq(Traces) /\ Len(dict[path]) <= TopN + 1

Few(packets) ==
    /\ FewTraces(packets.slow)
    /\ packets.sqls = [k \in DOMAIN packets.sqls |-> packets.sqls[k]]
    /\ FewSqls(packets.sqls)

FewKept == Few(packager) /\ Few(stat)

LEMMA EmptyIsFew == Few(Empty) /\ \A part \in Parts : Empty[part] = EmptyDict
<1>1. /\ Empty.slow = EmptyDict /\ Empty.sqls = EmptyDict
      /\ \A part \in Parts : Empty[part] = EmptyDict
  BY DEF Empty, Parts
<1>2. DOMAIN EmptyDict = {} /\ EmptyDict = [k \in DOMAIN EmptyDict |-> EmptyDict[k]]
  BY DEF EmptyDict
<1> QED
  BY <1>1, <1>2, NoneIsFew DEF Few, FewTraces

LEMMA TracesOfRequest ==
    ASSUME NEW r \in Finished
    PROVE  /\ r.traces \in Seq(Traces) /\ Len(r.traces) <= 1
           /\ \A path \in DOMAIN RecordSlowAction(r.traces) :
                 /\ RecordSlowAction(r.traces)[path] \in Seq(Traces)
                 /\ Len(RecordSlowAction(r.traces)[path]) <= 1
<1>1. IsList(r.traces) /\ Len(r.traces) <= 1
  BY FinishedAssumption
<1>2. {r.traces[i] : i \in DOMAIN r.traces} \subseteq Traces
  BY DEF Traces
<1>3. r.traces \in Seq(Traces)
  BY <1>1, <1>2, SeqMonotonic DEF IsList
<1>4. PICK zone : zone = RecordSlowAction(r.traces)
  OBVIOUS
<1>5. CASE r.traces = << >>
  BY <1>1, <1>3, <1>5 DEF RecordSlowAction, EmptyDict
<1>6. CASE r.traces # << >>
  <2>1. Len(r.traces) \in Nat \ {0}
    BY <1>3, <1>6, EmptySeq
  <2>2. PICK t \in Traces : t = r.traces[1]
    BY <1>3, <2>1, ElementOfSeq
  <2>3. PICK list : list = <<t>>
    OBVIOUS
  <2>4. list \in Seq(Traces) /\ Len(list) <= 1
    BY <2>3
  <2>5. PICK key : key = t.path
    OBVIOUS
  <2>6. zone = Put(EmptyDict, key, list)
    BY <1>4, <1>6, <2>2, <2>3, <2>5 DEF RecordSlowAction
  <2>7. \A path \in DOMAIN zone : zone[path] = list
    <3>1. /\ DOMAIN zone = DOMAIN EmptyDict \cup {key}
          /\ \A k \in DOMAIN EmptyDict \cup {key} :
                zone[k] = IF k = key THEN list ELSE EmptyDict[k]
      BY <2>6 DEF Put
    <3>2. DOMAIN EmptyDict = {}
      BY DEF EmptyDict
    <3> QED
      BY <3>1, <3>2
  <2> QED
    BY <1>1, <1>3, <1>4, <2>4, <2>7
<1> QED
  BY <1>5, <1>6

LEMMA MergeTracesKeepsFew ==
    ASSUME NEW mine \in Seq(Traces), Len(mine) <= TopN + 1,
           NEW theirs \in Seq(Traces), Len(theirs) <= 1
    PROVE  MergeTraces(mine, theirs) \in Seq(Traces) /\ Len(MergeTraces(mine, theirs)) <= TopN + 1
<1>1. TopN \in Nat /\ Len(mine) \in Nat /\ Len(theirs) \in Nat
  BY LimitsAssumption, LenProperties
<1>2. CASE Len(mine) > TopN
  BY <1>2 DEF MergeTraces
<1>3. CASE ~(Len(mine) > TopN)
  <2>1. PICK all \in Seq(Traces) : all = mine \o theirs
    BY ConcatProperties
  <2>2. Len(all) = Len(mine) + Len(theirs)
    BY <2>1, ConcatProperties
  <2>3. MergeTraces(mine, theirs) = all
    BY <1>3, <2>1 DEF MergeTraces
  <2> QED
    BY <1>1, <1>3, <2>2, <2>3
<1> QED
  BY <1>2, <1>3

(* A request merged into the packager.                                     *)
LEMMA RecordKeepsFew ==
    ASSUME FewKept, NEW r \in Finished, Record(r)
    PROVE  FewKept'
<1>1. PICK zone : zone = RecordTracker(r)
  OBVIOUS
<1>2. PICK order \in SetToSeqs(DOMAIN zone.sqls) :
          packager' = MergeMetricPackets(packager, zone, order)
  BY <1>1 DEF Record
<1>3. zone.slow = RecordSlowAction(r.traces) /\ zone.sqls = RecordSlowSql(r.path, r.sqls)
  BY <1>1 DEF RecordTracker
<1>4. FewSqls(zone.sqls)
  BY <1>3, FinishedAssumption, RecordSlowSqlIsFew
<1>5. PICK theirs : theirs = zone.sqls
  OBVIOUS
<1>6. order \in Seq(DOMAIN theirs)
  <2>1. Cardinality(DOMAIN theirs) \in Nat
    BY <1>4, <1>5, FS_CardinalityType DEF FewSqls
  <2> QED
    BY <1>2, <1>5, <2>1 DEF SetToSeqs
<1>7. PICK sqls : sqls = MergeSlowSqls(packager.sqls, theirs, order)
  OBVIOUS
<1>8. sqls = [k \in DOMAIN sqls |-> sqls[k]] /\ FewSqls(sqls)
  <2>1. PICK mine : mine = packager.sqls
    OBVIOUS
  <2>2. mine = [k \in DOMAIN mine |-> mine[k]] /\ FewSqls(mine)
    BY <2>1 DEF FewKept, Few
  <2> QED
    BY <1>4, <1>5, <1>6, <1>7, <2>1, <2>2, MergeSlowSqlsIsFew
<1>9. PICK slow : slow = MergeDict(packager.slow, zone.slow, MergeTraces)
  OBVIOUS
<1>10. FewTraces(slow)
  <2>1. SUFFICES ASSUME NEW path \in DOMAIN packager.slow \cup DOMAIN zone.slow
                 PROVE  slow[path] \in Seq(Traces) /\ Len(slow[path]) <= TopN + 1
    BY <1>9 DEF FewTraces, MergeDict
  <2>2. path \in DOMAIN packager.slow =>
            packager.slow[path] \in Seq(Traces) /\ Len(packager.slow[path]) <= TopN + 1
    BY DEF FewKept, Few, FewTraces
  <2>3. PICK others : others = zone.slow[path]
    OBVIOUS
  <2>7. ASSUME path \in DOMAIN zone.slow PROVE others \in Seq(Traces) /\ Len(others) <= 1
    <3>1. PICK dict : dict = RecordSlowAction(r.traces)
      OBVIOUS
    <3>2. \A p \in DOMAIN dict : dict[p] \in Seq(Traces) /\ Len(dict[p]) <= 1
      BY <3>1, TracesOfRequest
    <3> QED
      BY <1>3, <2>3, <2>7, <3>1, <3>2
  <2>4. CASE path \notin DOMAIN zone.slow
    BY <1>9, <2>2, <2>4 DEF MergeDict
  <2>5. CASE path \in DOMAIN zone.slow /\ path \notin DOMAIN packager.slow
    <3>1. slow[path] = zone.slow[path]
      BY <1>9, <2>5 DEF MergeDict
    <3>2. PICK k \in Nat : k = Len(others)
      BY <2>5, <2>7, LenProperties
    <3>3. others \in Seq(Traces) /\ k <= 1
      BY <2>5, <2>7, <3>2
    <3>4. k <= TopN + 1
      BY <3>3, LimitsAssumption
    <3> QED
      BY <2>3, <3>1, <3>2, <3>3, <3>4
  <2>6. CASE path \in DOMAIN zone.slow /\ path \in DOMAIN packager.slow
    <3>1. slow[path] = MergeTraces(packager.slow[path], zone.slow[path])
      BY <1>9, <2>6 DEF MergeDict
    <3>2. PICK mine \in Seq(Traces) : mine = packager.slow[path] /\ Len(mine) <= TopN + 1
      BY <2>2, <2>6
    <3>3. others \in Seq(Traces) /\ Len(others) <= 1
      BY <2>6, <2>7
    <3> QED
      BY <2>3, <3>1, <3>2, <3>3, MergeTracesKeepsFew
  <2> QED
    BY <2>1, <2>4, <2>5, <2>6
<1>11. packager'.slow = slow /\ packager'.sqls = sqls
  BY <1>2, <1>5, <1>7, <1>9 DEF MergeMetricPackets
<1>12. Few(packager)'
  BY <1>8, <1>10, <1>11 DEF Few
<1>13. Few(stat)'
  <2>1. stat' = stat
    BY DEF Record
  <2> QED
    BY <2>1 DEF FewKept, Few
<1> QED
  BY <1>12, <1>13 DEF FewKept

(* What the harvest does to the packets only takes from them.              *)
LEMMA BuiltIsFew ==
    ASSUME Few(stat)
    PROVE  Few(Built)
<1>1. /\ Built.slow = (IF "slow" \in Emptied THEN EmptyDict ELSE stat.slow)
      /\ Built.sqls = (IF "sqls" \in Emptied THEN EmptyDict ELSE stat.sqls)
  BY DEF Built, Parts
<1>2. Empty.slow = EmptyDict /\ Empty.sqls = EmptyDict
  BY DEF Empty, Parts
<1> QED
  BY <1>1, <1>2, EmptyIsFew DEF Few

LEMMA FewNext == FewKept /\ [StatNext]_statVars => FewKept'
<1> SUFFICES ASSUME FewKept, [StatNext]_statVars PROVE FewKept'
  OBVIOUS
<1>1. CASE \E r \in Finished : Record(r)
  BY <1>1, RecordKeepsFew
<1>2. CASE TakeSnapshot
  <2>1. packager' = Empty /\ stat' = packager
    BY <1>2 DEF TakeSnapshot
  <2>2. Few(packager)' /\ Few(stat)'
    BY <2>1, EmptyIsFew DEF FewKept, Few
  <2> QED
    BY <2>2 DEF FewKept
<1>3. CASE Upload
  <2>1. packager' = packager /\ stat' = Built
    BY <1>3 DEF Upload
  <2>2. Few(packager)' /\ Few(stat)'
    BY <2>1, BuiltIsFew DEF FewKept, Few
  <2> QED
    BY <2>2 DEF FewKept
<1>4. CASE EndHarvest \/ UploadFails
  <2>1. packager' = packager /\ stat' = Empty
    BY <1>4 DEF EndHarvest, UploadFails
  <2>2. Few(packager)' /\ Few(stat)'
    BY <2>1, EmptyIsFew DEF FewKept, Few
  <2> QED
    BY <2>2 DEF FewKept
<1>5. CASE UploadRetry
  <2>1. packager' = Rollback(packager, Built) /\ stat' = Empty
    BY <1>5 DEF UploadRetry
  <2>2. packager'.slow = packager.slow /\ packager'.sqls = packager.sqls
    BY <2>1 DEF Rollback
  <2>3. Few(packager)'
    BY <2>2 DEF FewKept, Few
  <2>4. Few(stat)'
    BY <2>1, EmptyIsFew DEF Few
  <2> QED
    BY <2>3, <2>4 DEF FewKept
<1>6. CASE UNCHANGED statVars
  BY <1>6 DEF statVars, FewKept, Few
<1> QED
  BY <1>1, <1>2, <1>3, <1>4, <1>5, <1>6 DEF StatNext

(* Whatever is recorded, uploaded and rolled back, no more traces of an    *)
(* action and no more statements are kept than the limit and one, with the *)
(* slowest execution of each statement.                                    *)
THEOREM FewAreKept == StatSpec => []FewKept
<1>1. StatInit => FewKept
  BY EmptyIsFew DEF StatInit, FewKept, Few
<1> QED
  BY <1>1, FewNext, PTL DEF StatSpec

(* The limits hold of all that is kept, when the traces made of the        *)
(* requests are within theirs.                                             *)
THEOREM LimitsKept ==
    ASSUME TracesLimited
    PROVE  StatSpec => []WithinLimits
<1>0. ASSUME NEW t \in Traces PROVE Len(t.nodes) <= NodeLimit + 1
  <2>1. PICK r \in Finished : t \in {r.traces[i] : i \in DOMAIN r.traces}
    BY <1>0 DEF Traces
  <2> QED
    BY <2>1 DEF TracesLimited
<1>1. ASSUME NEW packets, Few(packets) PROVE Limited(packets)
  <2>1. ASSUME NEW path \in DOMAIN packets.slow
        PROVE  /\ Len(packets.slow[path]) <= TopN + 1
               /\ \A i \in DOMAIN packets.slow[path] :
                     Len(packets.slow[path][i].nodes) <= NodeLimit + 1
    <3>1. PICK list : list = packets.slow[path]
      OBVIOUS
    <3>2. list \in Seq(Traces) /\ Len(list) <= TopN + 1
      BY <1>1, <3>1 DEF Few, FewTraces
    <3>3. \A i \in DOMAIN list : list[i] \in Traces
      BY <3>2, LenProperties, ElementOfSeq
    <3> QED
      BY <1>0, <3>1, <3>2, <3>3
  <2>2. /\ Size(packets.sqls) <= SlowSqlCount + 1
        /\ \A key \in DOMAIN packets.sqls : packets.sqls[key].node = packets.sqls[key].max
    BY <1>1 DEF Few, FewSqls, SlowestKept
  <2> QED
    BY <2>1, <2>2 DEF Limited
<1>2. FewKept => WithinLimits
  BY <1>1 DEF FewKept, WithinLimits
<1> QED
  BY <1>2, FewAreKept, PTL

-----------------------------------------------------------------------------
(* How often errors occur.                                                 *)

LEMMA OccursIsNat ==
    ASSUME NEW K, NEW keys \in Seq(K), NEW key
    PROVE  Occurs(keys, key) \in Nat
<1>1. PICK n \in Nat : n = Len(keys) /\ DOMAIN keys = 1 .. n
  BY LenProperties
<1>2. IsFiniteSet(1 .. n)
  BY FS_Interval
<1>3. {i \in 1 .. n : keys[i] = key} \in SUBSET (1 .. n)
  OBVIOUS
<1>4. IsFiniteSet({i \in 1 .. n : keys[i] = key})
  BY <1>2, <1>3, FS_Subset
<1> QED
  BY <1>1, <1>4, FS_CardinalityType DEF Occurs

(* The errors of a request are a list.                                     *)
MoreErrors(before, r, i) ==
    IF \E j \in DOMAIN before : before[j] = <<r.path, r.errors[i].status, r.errors[i].name>>
      THEN before
      ELSE Append(before, <<r.path, r.errors[i].status, r.errors[i].name>>)

(* The recursion of TracedErrors defines something.                        *)
LEMMA TracedErrorsDefines ==
    ASSUME NEW r, IsList(r.errors)
    PROVE  \E d :
             /\ d \in [0 .. Len(r.errors) ->
                        Seq({<<r.path, r.errors[i].status, r.errors[i].name>> :
                                i \in DOMAIN r.errors})]
             /\ d[0] = << >> /\ \A i \in 1 .. Len(r.errors) : d[i] = MoreErrors(d[i - 1], r, i)
             /\ TracedErrors(r) = d[Len(r.errors)]
<1>1. PICK n \in Nat : n = Len(r.errors)
  BY LenProperties DEF IsList
<1>2. PICK V : V = Seq({<<r.path, r.errors[i].status, r.errors[i].name>> : i \in DOMAIN r.errors})
  OBVIOUS
<1>3. PICK first : first = << >>
  OBVIOUS
<1>4. first \in V
  BY <1>2, <1>3, EmptySeq
<1>5. ASSUME NEW i \in 1 .. n, NEW v \in V PROVE MoreErrors(v, r, i) \in V
  <2>1. PICK key : key = <<r.path, r.errors[i].status, r.errors[i].name>>
    OBVIOUS
  <2>2. i \in DOMAIN r.errors
    BY <1>1, LenProperties DEF IsList
  <2>3. PICK K : K = {<<r.path, r.errors[j].status, r.errors[j].name>> : j \in DOMAIN r.errors}
    OBVIOUS
  <2>4. v \in Seq(K) /\ V = Seq(K) /\ key \in K
    BY <1>2, <2>1, <2>2, <2>3
  <2>5. Append(v, key) \in Seq(K)
    BY <2>4, AppendProperties
  <2> QED
    BY <2>1, <2>4, <2>5 DEF MoreErrors
<1> DEFINE step == [i \in 1 .. n |-> [v \in V |-> MoreErrors(v, r, i)]]
<1>6. step \in [1 .. n -> [V -> V]]
  BY <1>5
<1>7. PICK f : /\ f \in [0 .. n -> V]
               /\ f[0] = first /\ \A i \in 1 .. n : f[i] = step[i][f[i - 1]]
  <2>1. step \in Steps(n, V)
    BY <1>6 DEF Steps
  <2> HIDE DEF step
  <2>2. \E f : Unrolls(f, n, V, first, step)
    BY <1>4, <2>1, RecursionUnrolls
  <2> QED
    BY <2>2 DEF Unrolls
<1>8. \A i \in 1 .. n : f[i] = MoreErrors(f[i - 1], r, i)
  <2> SUFFICES ASSUME NEW i \in 1 .. n PROVE f[i] = MoreErrors(f[i - 1], r, i)
    OBVIOUS
  <2>1. i - 1 \in 0 .. n /\ f[i - 1] \in V
    BY <1>7
  <2> QED
    BY <1>7, <2>1
<1> DEFINE Unfold(h) ==
      [i \in 0 .. Len(r.errors) |-> IF i = 0 THEN << >> ELSE MoreErrors(h[i - 1], r, i)]
<1>9. f = Unfold(f)
  BY <1>1, <1>3, <1>7, <1>8
<1> DEFINE d == CHOOSE h : h = Unfold(h)
<1>10. d = Unfold(d)
  BY <1>9
<1>11. TracedErrors(r) = d[n]
  BY <1>1 DEF TracedErrors, MoreErrors
<1> HIDE DEF d
<1>12. d[0] = first /\ \A i \in 1 .. n : d[i] = MoreErrors(d[i - 1], r, i)
  BY <1>1, <1>3, <1>10
<1>13. \A i \in 0 .. n : d[i] = f[i]
  <2>1. d[0] = f[0]
    BY <1>7, <1>12
  <2>2. \A i \in 1 .. n : d[i - 1] = f[i - 1] => d[i] = f[i]
    BY <1>8, <1>12
  <2> QED
    BY <2>1, <2>2, RecursionAgrees
<1>14. d \in [0 .. n -> V]
  <2>1. d = [i \in 0 .. n |-> d[i]]
    BY <1>1, <1>10
  <2> QED
    BY <1>7, <1>13, <2>1
<1> QED
  BY <1>1, <1>2, <1>3, <1>11, <1>12, <1>14

LEMMA ErrorsAreLists ==
    ASSUME NEW r \in Finished
    PROVE  (\E K : TracedErrors(r) \in Seq(K)) /\ \E K : TracedExternalErrors(r) \in Seq(K)
<1>1. IsList(r.errors) /\ IsList(r.externals)
  BY FinishedAssumption
<1>2. PICK n \in Nat : n = Len(r.errors)
  BY <1>1, LenProperties DEF IsList
<1>3. PICK K : K = {<<r.path, r.errors[i].status, r.errors[i].name>> : i \in DOMAIN r.errors}
  OBVIOUS
<1>4. TracedErrors(r) \in Seq(K)
  <2>1. PICK d :
            /\ d \in [0 .. n -> Seq(K)]
            /\ d[0] = << >> /\ \A i \in 1 .. n : d[i] = MoreErrors(d[i - 1], r, i)
            /\ TracedErrors(r) = d[n]
    BY <1>1, <1>2, <1>3, TracedErrorsDefines
  <2> QED
    BY <2>1
<1>5. \E L : TracedExternalErrors(r) \in Seq(L)
  <2>1. PICK m \in Nat : m = Len(r.externals)
    BY <1>1, LenProperties DEF IsList
  <2>2. PICK L : L = {<<r.externals[i], r.status>> : i \in 1 .. m}
    OBVIOUS
  <2>3. TracedExternalErrors(r) \in [1 .. m -> L]
    BY <2>1, <2>2 DEF TracedExternalErrors
  <2>4. TracedExternalErrors(r) \in Seq(L)
    BY <2>1, <2>3
  <2> QED
    BY <2>4
<1> QED
  BY <1>4, <1>5

(* The recursion of RecordErrors defines something.                        *)
LEMMA RecordErrorsDefines ==
    ASSUME NEW K, NEW keys \in Seq(K)
    PROVE  \E d :
             /\ d \in [0 .. Len(keys) -> Dicts(K, [count : Nat, item : Nat])]
             /\ d[0] = EmptyDict /\ \A i \in 1 .. Len(keys) : d[i] = RecordError(d[i - 1], keys[i])
             /\ RecordErrors(keys) = d[Len(keys)]
<1>1. PICK n \in Nat : n = Len(keys)
  BY LenProperties
<1>2. PICK V : V = Dicts(K, [count : Nat, item : Nat])
  OBVIOUS
<1>3. PICK first : first = EmptyDict
  OBVIOUS
<1>4. first \in V
  BY <1>2, <1>3, EmptyIsDict
<1>5. ASSUME NEW i \in 1 .. n, NEW v \in V PROVE RecordError(v, keys[i]) \in V
  <2>1. PICK P : P = [count : Nat, item : Nat]
    OBVIOUS
  <2>2. PICK key \in K : key = keys[i]
    BY <1>1, ElementOfSeq
  <2>3. v \in Dicts(K, P) /\ V = Dicts(K, P)
    BY <1>2, <2>1
  <2>4. PICK old : old = Get(v, key, NoError)
    OBVIOUS
  <2>5. old \in P
    <3>1. NoError \in P
      BY <2>1 DEF NoError
    <3>2. key \in DOMAIN v => v[key] \in P
      BY <2>3, DictsAre
    <3> QED
      BY <2>4, <3>1, <3>2 DEF Get
  <2>6. PICK p : p = [count |-> old.count + 1, item |-> old.item + 1]
    OBVIOUS
  <2>8. p \in P
    BY <2>1, <2>5, <2>6
  <2>7. Put(v, key, p) \in V
    BY <2>3, <2>8, PutIsDict
  <2> QED
    BY <2>2, <2>4, <2>6, <2>7 DEF RecordError
<1> DEFINE step == [i \in 1 .. n |-> [v \in V |-> RecordError(v, keys[i])]]
<1>6. step \in [1 .. n -> [V -> V]]
  BY <1>5
<1>7. PICK f : /\ f \in [0 .. n -> V]
               /\ f[0] = first /\ \A i \in 1 .. n : f[i] = step[i][f[i - 1]]
  <2>1. step \in Steps(n, V)
    BY <1>6 DEF Steps
  <2> HIDE DEF step
  <2>2. \E f : Unrolls(f, n, V, first, step)
    BY <1>4, <2>1, RecursionUnrolls
  <2> QED
    BY <2>2 DEF Unrolls
<1>8. \A i \in 1 .. n : f[i] = RecordError(f[i - 1], keys[i])
  <2> SUFFICES ASSUME NEW i \in 1 .. n PROVE f[i] = RecordError(f[i - 1], keys[i])
    OBVIOUS
  <2>1. i - 1 \in 0 .. n /\ f[i - 1] \in V
    BY <1>7
  <2> QED
    BY <1>7, <2>1
<1> DEFINE Unfold(h) ==
      [i \in 0 .. Len(keys) |-> IF i = 0 THEN EmptyDict ELSE RecordError(h[i - 1], keys[i])]
<1>9. f = Unfold(f)
  BY <1>1, <1>3, <1>7, <1>8
<1> DEFINE d == CHOOSE h : h = Unfold(h)
<1>10. d = Unfold(d)
  BY <1>9
<1>11. RecordErrors(keys) = d[n]
  BY <1>1 DEF RecordErrors
<1> HIDE DEF d
<1>12. d[0] = first /\ \A i \in 1 .. n : d[i] = RecordError(d[i - 1], keys[i])
  BY <1>1, <1>3, <1>10
<1>13. \A i \in 0 .. n : d[i] = f[i]
  <2>1. d[0] = f[0]
    BY <1>7, <1>12
  <2>2. \A i \in 1 .. n : d[i - 1] = f[i - 1] => d[i] = f[i]
    BY <1>8, <1>12
  <2> QED
    BY <2>1, <2>2, RecursionAgrees
<1>14. d \in [0 .. n -> V]
  <2>1. d = [i \in 0 .. n |-> d[i]]
    BY <1>1, <1>10
  <2> QED
    BY <1>7, <1>13, <2>1
<1> QED
  BY <1>1, <1>2, <1>3, <1>11, <1>12, <1>14

(* No error of a request is counted more often than it occurs.             *)
LEMMA RecordErrorsCounts ==
    ASSUME NEW K, NEW keys \in Seq(K)
    PROVE  \A key \in DOMAIN RecordErrors(keys) :
             /\ RecordErrors(keys)[key] \in [count : Nat, item : Nat]
             /\ RecordErrors(keys)[key].count <= Occurs(keys, key)
             /\ RecordErrors(keys)[key].item <= Occurs(keys, key)
<1>1. PICK n \in Nat : n = Len(keys) /\ DOMAIN keys = 1 .. n
  BY LenProperties
<1>2. PICK P : P = [count : Nat, item : Nat]
  OBVIOUS
<1>3. PICK d :
          /\ d \in [0 .. n -> Dicts(K, P)]
          /\ d[0] = EmptyDict /\ \A i \in 1 .. n : d[i] = RecordError(d[i - 1], keys[i])
          /\ RecordErrors(keys) = d[n]
  BY <1>1, <1>2, RecordErrorsDefines
<1> DEFINE Upto(k, key) == {j \in 1 .. k : keys[j] = key}
<1> DEFINE Counted(k) ==
      \A key \in DOMAIN d[k] :
        d[k][key].count <= Cardinality(Upto(k, key)) /\ d[k][key].item <= Cardinality(Upto(k, key))
<1> DEFINE T == {k \in Nat : k <= n => Counted(k)}
<1>4. 0 \in T
  BY <1>3, EmptyIsDict
<1>5. ASSUME NEW k \in Nat, k \in T PROVE k + 1 \in T
  <2> SUFFICES ASSUME k + 1 <= n PROVE Counted(k + 1)
    OBVIOUS
  <2>1. Counted(k) /\ k \in 0 .. n /\ k + 1 \in 1 .. n /\ (k + 1) - 1 = k
    BY <1>5
  <2>2. PICK dict \in Dicts(K, P) : dict = d[k]
    BY <1>3, <2>1
  <2>3. PICK key \in K : key = keys[k + 1]
    BY <1>1, <2>1, ElementOfSeq
  <2>4. d[k + 1] = RecordError(dict, key)
    BY <1>3, <2>1, <2>2, <2>3
  <2>5. \A other : IsFiniteSet(Upto(k, other)) /\ Cardinality(Upto(k, other)) \in Nat
    <3> SUFFICES ASSUME NEW other
                 PROVE  IsFiniteSet(Upto(k, other)) /\ Cardinality(Upto(k, other)) \in Nat
      OBVIOUS
    <3>1. IsFiniteSet(1 .. k) /\ Upto(k, other) \in SUBSET (1 .. k)
      BY FS_Interval
    <3> QED
      BY <3>1, FS_Subset, FS_CardinalityType
  <2>6. \A other : other # key => Upto(k + 1, other) = Upto(k, other)
    BY <2>3
  <2>7. Cardinality(Upto(k + 1, key)) = Cardinality(Upto(k, key)) + 1
    <3>1. Upto(k + 1, key) = Upto(k, key) \cup {k + 1} /\ k + 1 \notin Upto(k, key)
      BY <2>3
    <3> HIDE DEF Upto
    <3> QED
      BY <2>5, <3>1, FS_AddElement
  <2>8. PICK old : old = Get(dict, key, NoError)
    OBVIOUS
  <2>9. /\ old \in P
        /\ old.count <= Cardinality(Upto(k, key)) /\ old.item <= Cardinality(Upto(k, key))
    <3>1. CASE key \in DOMAIN dict
      BY <2>1, <2>2, <2>8, <3>1, DictsAre DEF Get
    <3>2. CASE key \notin DOMAIN dict
      <4>1. old = [count |-> 0, item |-> 0]
        BY <2>8, <3>2 DEF Get, NoError
      <4> HIDE DEF Upto
      <4> QED
        BY <1>2, <2>5, <4>1
    <3> QED
      BY <3>1, <3>2
  <2>10. CASE Size(dict) > MaxErrors
    <3>1. d[k + 1] = dict
      BY <2>4, <2>10 DEF RecordError
    <3>2. ASSUME NEW other \in DOMAIN dict
          PROVE  /\ dict[other].count <= Cardinality(Upto(k + 1, other))
                 /\ dict[other].item <= Cardinality(Upto(k + 1, other))
      <4>1. /\ dict[other].count <= Cardinality(Upto(k, other))
            /\ dict[other].item <= Cardinality(Upto(k, other))
        BY <2>1, <2>2
      <4>2. dict[other] \in P
        BY DictsAre
      <4>3. Cardinality(Upto(k + 1, other)) \in
                {Cardinality(Upto(k, other)), Cardinality(Upto(k, other)) + 1}
        <5> HIDE DEF Upto
        <5> QED
          BY <2>6, <2>7
      <4> HIDE DEF Upto
      <4> QED
        BY <1>2, <2>5, <4>1, <4>2, <4>3
    <3> QED
      BY <3>1, <3>2
  <2>11. CASE ~(Size(dict) > MaxErrors)
    <3>1. PICK p : p = [count |-> old.count + 1, item |-> old.item + 1]
      OBVIOUS
    <3>2. d[k + 1] = Put(dict, key, p)
      BY <2>4, <2>8, <2>11, <3>1 DEF RecordError
    <3>3. ASSUME NEW other \in DOMAIN dict \cup {key}
          PROVE  /\ d[k + 1][other].count <= Cardinality(Upto(k + 1, other))
                 /\ d[k + 1][other].item <= Cardinality(Upto(k + 1, other))
      <4>1. CASE other = key
        <5>1. d[k + 1][other] = p
          BY <3>2, <4>1 DEF Put
        <5>2. p.count = old.count + 1 /\ p.item = old.item + 1
          BY <3>1
        <5> HIDE DEF Upto
        <5> QED
          BY <1>2, <2>5, <2>7, <2>9, <4>1, <5>1, <5>2
      <4>2. CASE other # key
        <5>1. d[k + 1][other] = dict[other] /\ other \in DOMAIN dict
          BY <3>2, <4>2 DEF Put
        <5>2. /\ dict[other].count <= Cardinality(Upto(k, other))
              /\ dict[other].item <= Cardinality(Upto(k, other))
          BY <2>1, <2>2, <5>1
        <5> HIDE DEF Upto
        <5> QED
          BY <2>6, <4>2, <5>1, <5>2
      <4> QED
        BY <4>1, <4>2
    <3>4. DOMAIN d[k + 1] = DOMAIN dict \cup {key}
      BY <3>2 DEF Put
    <3> QED
      BY <3>3, <3>4
  <2> QED
    BY <2>10, <2>11
<1>6. n \in T
  <2> HIDE DEF T
  <2> QED
    BY <1>4, <1>5, SetInduction
<1>7. Counted(n)
  BY <1>6
<1>8. \A key : Occurs(keys, key) = Cardinality(Upto(n, key))
  BY <1>1 DEF Occurs
<1>9. \A key \in DOMAIN d[n] : d[n][key] \in P
  <2>1. d[n] \in Dicts(K, P)
    BY <1>3
  <2> QED
    BY <2>1, DictsAre
<1> QED
  BY <1>2, <1>3, <1>7, <1>8, <1>9

-----------------------------------------------------------------------------
(* Errors are not invented.                                                *)

(* One list of errors more, of n and one.                                  *)
OneMore(n, lists, more, key) ==
    /\ Len(lists) = n /\ Len(more) = n + 1
    /\ \A j \in 1 .. n : more[j] = lists[j]
    /\ \A j \in 1 .. n + 1 : Occurs(more[j], key) \in Nat

LEMMA MoreOccurrences ==
    ASSUME NEW n \in Nat, NEW lists, NEW more, NEW key, OneMore(n, lists, more, key)
    PROVE  /\ Occurrences(lists, key) \in Nat
           /\ Occurrences(more, key) = Occurrences(lists, key) + Occurs(more[n + 1], key)
<1>1. PICK x : x = [j \in 1 .. n |-> Occurs(lists[j], key)]
  OBVIOUS
<1>2. PICK y : y = [j \in 1 .. n + 1 |-> Occurs(more[j], key)]
  OBVIOUS
<1>3. /\ x \in Row(n) /\ y \in Row(n + 1) /\ \A j \in 1 .. n : y[j] = x[j]
      /\ y[n + 1] = Occurs(more[n + 1], key)
  BY <1>1, <1>2 DEF Row, OneMore
<1>4. Sum(x) \in Nat /\ Sum(y) = Sum(x) + y[n + 1]
  BY <1>3, SumOfMore
<1>5. Occurrences(lists, key) = Sum(x) /\ Occurrences(more, key) = Sum(y)
  BY <1>1, <1>2 DEF Occurrences, OneMore
<1> QED
  BY <1>3, <1>4, <1>5

Counts == [count : Nat, item : Nat]

LEMMA NoErrorCounts == NoError \in Counts /\ NoError.count = 0 /\ NoError.item = 0
BY DEF NoError, Counts

(* What there is of an error, in both counts and both places.              *)
NotInvented(mine, other, lists) ==
    /\ \A key \in DOMAIN mine : mine[key] \in Counts
    /\ \A key \in DOMAIN other : other[key] \in Counts
    /\ AtMost(mine, other, lists)
    /\ \A key : Occurrences(lists, key) \in Nat

LEMMA CountsOf ==
    ASSUME NEW mine, NEW other, NEW lists, NotInvented(mine, other, lists), NEW key
    PROVE  /\ Get(mine, key, NoError) \in Counts /\ Get(other, key, NoError) \in Counts
           /\ Get(mine, key, NoError).count + Get(other, key, NoError).count
                <= Occurrences(lists, key)
           /\ Get(mine, key, NoError).item + Get(other, key, NoError).item
                <= Occurrences(lists, key)
<1>1. Get(mine, key, NoError) \in Counts
  BY NoErrorCounts DEF NotInvented, Get
<1>2. Get(other, key, NoError) \in Counts
  BY NoErrorCounts DEF NotInvented, Get
<1>3. CASE key \in DOMAIN mine \cup DOMAIN other
  BY <1>1, <1>2, <1>3 DEF NotInvented, AtMost
<1>4. CASE key \notin DOMAIN mine \cup DOMAIN other
  <2>1. Get(mine, key, NoError) = NoError /\ Get(other, key, NoError) = NoError
    BY <1>4 DEF Get
  <2>2. Occurrences(lists, key) \in Nat
    BY DEF NotInvented
  <2> QED
    BY <2>1, <2>2, NoErrorCounts
<1> QED
  BY <1>1, <1>2, <1>3, <1>4

(* It is enough to say it of every error.                                  *)
LEMMA CountsSuffice ==
    ASSUME NEW mine, NEW other, NEW lists,
           \A key \in DOMAIN mine : mine[key] \in Counts,
           \A key \in DOMAIN other : other[key] \in Counts,
           \A key : Occurrences(lists, key) \in Nat,
           \A key : /\ Get(mine, key, NoError).count + Get(other, key, NoError).count
                         <= Occurrences(lists, key)
                    /\ Get(mine, key, NoError).item + Get(other, key, NoError).item
                         <= Occurrences(lists, key)
    PROVE  NotInvented(mine, other, lists)
<1>1. AtMost(mine, other, lists)
  BY DEF AtMost
<1> QED
  BY <1>1 DEF NotInvented

(* The snapshot takes the packets over.                                    *)
LEMMA TakenNotInvented ==
    ASSUME NEW mine, NEW other, NEW lists, NotInvented(mine, other, lists)
    PROVE  /\ NotInvented(EmptyDict, mine, lists)
           /\ NotInvented(mine, EmptyDict, lists)
<1>1. DOMAIN EmptyDict = {} /\ \A key : Get(EmptyDict, key, NoError) = NoError
  BY DEF EmptyDict, Get
<1>2. \A key \in DOMAIN mine : mine[key] \in Counts
  BY DEF NotInvented
<1>3. \A key : Occurrences(lists, key) \in Nat
  BY DEF NotInvented
<1>4. ASSUME NEW key
      PROVE  /\ Get(mine, key, NoError) \in Counts
             /\ Get(mine, key, NoError).count <= Occurrences(lists, key)
             /\ Get(mine, key, NoError).item <= Occurrences(lists, key)
  <2>1. PICK m \in Counts : m = Get(mine, key, NoError)
    BY CountsOf
  <2>2. PICK o \in Counts : o = Get(other, key, NoError)
    BY CountsOf
  <2>3. m.count + o.count <= Occurrences(lists, key) /\ m.item + o.item <= Occurrences(lists, key)
    BY <2>1, <2>2, CountsOf
  <2> QED
    BY <1>3, <2>1, <2>2, <2>3 DEF Counts
<1>5. \A key :
        /\ Get(EmptyDict, key, NoError).count + Get(mine, key, NoError).count
             <= Occurrences(lists, key)
        /\ Get(EmptyDict, key, NoError).item + Get(mine, key, NoError).item
             <= Occurrences(lists, key)
        /\ Get(mine, key, NoError).count + Get(EmptyDict, key, NoError).count
             <= Occurrences(lists, key)
        /\ Get(mine, key, NoError).item + Get(EmptyDict, key, NoError).item
             <= Occurrences(lists, key)
  BY <1>1, <1>3, <1>4, NoErrorCounts DEF Counts
<1> QED
  BY <1>1, <1>2, <1>3, <1>5, CountsSuffice

(* Nothing is counted before there is anything.                            *)
LEMMA NoneNotInvented ==
    ASSUME NEW lists, \A key : Occurrences(lists, key) \in Nat
    PROVE  NotInvented(EmptyDict, EmptyDict, lists)
<1>1. DOMAIN EmptyDict = {}
  BY DEF EmptyDict
<1> QED
  BY <1>1 DEF NotInvented, AtMost

(* The errors of one more request are merged.                              *)
LEMMA MergedNotInvented ==
    ASSUME NEW mine, NEW other, NEW lists, NotInvented(mine, other, lists),
           NEW zone, NEW keys, NEW more,
           \A key \in DOMAIN zone : /\ zone[key] \in Counts
                                    /\ zone[key].count <= Occurs(keys, key)
                                    /\ zone[key].item <= Occurs(keys, key),
           \A key : /\ Occurs(keys, key) \in Nat
                    /\ Occurrences(more, key) = Occurrences(lists, key) + Occurs(keys, key)
    PROVE  NotInvented(MergeDict(mine, zone, MergeError), other, more)
<1>1. PICK new : new = MergeDict(mine, zone, MergeError)
  OBVIOUS
<1>2. DOMAIN new = DOMAIN mine \cup DOMAIN zone
  BY <1>1 DEF MergeDict
<1>3. ASSUME NEW key
      PROVE  /\ key \in DOMAIN new => new[key] \in Counts
             /\ Get(new, key, NoError).count + Get(other, key, NoError).count
                  <= Occurrences(more, key)
             /\ Get(new, key, NoError).item + Get(other, key, NoError).item
                  <= Occurrences(more, key)
  <2>1. PICK m \in Counts : m = Get(mine, key, NoError)
    BY CountsOf
  <2>2. PICK o \in Counts : o = Get(other, key, NoError)
    BY CountsOf
  <2>3. m.count + o.count <= Occurrences(lists, key) /\ m.item + o.item <= Occurrences(lists, key)
    BY <2>1, <2>2, CountsOf
  <2>4. /\ Occurrences(lists, key) \in Nat /\ Occurs(keys, key) \in Nat
        /\ Occurrences(more, key) = Occurrences(lists, key) + Occurs(keys, key)
    BY DEF NotInvented
  <2>5. CASE key \notin DOMAIN zone
    <3>1. Get(new, key, NoError) = m /\ (key \in DOMAIN new => new[key] = m)
      BY <1>1, <1>2, <2>1, <2>5 DEF MergeDict, Get
    <3> QED
      BY <2>1, <2>2, <2>3, <2>4, <3>1 DEF Counts
  <2>6. CASE key \in DOMAIN zone
    <3>1. PICK z \in Counts :
              z = zone[key] /\ z.count <= Occurs(keys, key) /\ z.item <= Occurs(keys, key)
      BY <2>6
    <3>2. PICK e : e = new[key]
      OBVIOUS
    <3>3. key \in DOMAIN new /\ Get(new, key, NoError) = e
      BY <1>2, <2>6, <3>2 DEF Get
    <3>4. /\ e \in Counts
          /\ e.count <= m.count + z.count /\ e.item <= m.item + Occurs(keys, key)
      <4>1. CASE key \in DOMAIN mine
        <5>1. e = MergeError(mine[key], zone[key]) /\ m = mine[key]
          BY <1>1, <2>1, <2>6, <3>2, <4>1 DEF MergeDict, Get
        <5>2. e = [count |-> m.count, item |-> m.item + z.count]
          BY <3>1, <5>1 DEF MergeError, Counts
        <5> QED
          BY <2>1, <2>4, <3>1, <5>2 DEF Counts
      <4>2. CASE key \notin DOMAIN mine
        <5>1. e = z
          BY <1>1, <2>6, <3>1, <3>2, <4>2 DEF MergeDict
        <5> QED
          BY <2>1, <2>4, <3>1, <5>1 DEF Counts
      <4> QED
        BY <4>1, <4>2
    <3> QED
      BY <2>2, <2>3, <2>4, <3>1, <3>2, <3>3, <3>4 DEF Counts
  <2> QED
    BY <2>5, <2>6
<1>4. \A key \in DOMAIN other : other[key] \in Counts
  BY DEF NotInvented
<1>5. \A key : Occurrences(more, key) \in Nat
  BY DEF NotInvented
<1>6. NotInvented(new, other, more)
  BY <1>3, <1>4, <1>5, CountsSuffice
<1> QED
  BY <1>1, <1>6

(* What is left of the snapshot goes back.                                 *)
LEMMA RolledBackNotInvented ==
    ASSUME NEW mine, NEW other, NEW lists, NotInvented(mine, other, lists)
    PROVE  NotInvented(MergeDict(mine, other, RollbackError), EmptyDict, lists)
<1>1. PICK new : new = MergeDict(mine, other, RollbackError)
  OBVIOUS
<1>2. DOMAIN new = DOMAIN mine \cup DOMAIN other
  BY <1>1 DEF MergeDict
<1>3. ASSUME NEW key
      PROVE  /\ key \in DOMAIN new => new[key] \in Counts
             /\ Get(new, key, NoError).count + Get(EmptyDict, key, NoError).count
                  <= Occurrences(lists, key)
             /\ Get(new, key, NoError).item + Get(EmptyDict, key, NoError).item
                  <= Occurrences(lists, key)
  <2>1. PICK m \in Counts : m = Get(mine, key, NoError)
    BY CountsOf
  <2>2. PICK o \in Counts : o = Get(other, key, NoError)
    BY CountsOf
  <2>3. m.count + o.count <= Occurrences(lists, key) /\ m.item + o.item <= Occurrences(lists, key)
    BY <2>1, <2>2, CountsOf
  <2>4. Occurrences(lists, key) \in Nat
    BY DEF NotInvented
  <2>5. Get(EmptyDict, key, NoError) = NoError
    BY DEF EmptyDict, Get
  <2>6. PICK e : e = Get(new, key, NoError)
    OBVIOUS
  <2>7. /\ e \in Counts /\ (key \in DOMAIN new => e = new[key])
        /\ e.count <= m.count + o.count /\ e.item <= m.item + o.item
    <3>1. CASE key \notin DOMAIN new
      BY <2>1, <2>2, <2>6, <3>1, NoErrorCounts DEF Get, Counts
    <3>2. CASE key \in DOMAIN other /\ key \notin DOMAIN mine
      <4>1. e = o /\ key \in DOMAIN new /\ e = new[key]
        BY <1>1, <1>2, <2>2, <2>6, <3>2 DEF MergeDict, Get
      <4> QED
        BY <2>1, <2>2, <4>1 DEF Counts
    <3>3. CASE key \notin DOMAIN other /\ key \in DOMAIN mine
      <4>1. e = m /\ key \in DOMAIN new /\ e = new[key]
        BY <1>1, <1>2, <2>1, <2>6, <3>3 DEF MergeDict, Get
      <4> QED
        BY <2>1, <2>2, <4>1 DEF Counts
    <3>4. CASE key \in DOMAIN other /\ key \in DOMAIN mine
      <4>1. e = RollbackError(m, o) /\ key \in DOMAIN new /\ e = new[key]
        BY <1>1, <1>2, <2>1, <2>2, <2>6, <3>4 DEF MergeDict, Get
      <4>2. e = [count |-> m.count + o.count, item |-> m.item]
        BY <4>1 DEF RollbackError, Counts
      <4> QED
        BY <2>1, <2>2, <4>1, <4>2 DEF Counts
    <3> QED
      BY <1>2, <3>1, <3>2, <3>3, <3>4
  <2> QED
    BY <2>1, <2>2, <2>3, <2>4, <2>5, <2>6, <2>7, NoErrorCounts DEF Counts
<1>4. DOMAIN EmptyDict = {}
  BY DEF EmptyDict
<1>5. \A key : Occurrences(lists, key) \in Nat
  BY DEF NotInvented
<1>6. NotInvented(new, EmptyDict, lists)
  BY <1>3, <1>4, <1>5, CountsSuffice
<1> QED
  BY <1>1, <1>6

ErrorsKept ==
    /\ recorded \in Seq(Finished)
    /\ NotInvented(packager.errors, stat.errors, ErrorsOf(recorded))
    /\ NotInvented(packager.externals, stat.externals, ExternalsOf(recorded))

(* The lists of errors grow with the requests.                             *)
LEMMA ListsGrow ==
    ASSUME NEW requests \in Seq(Finished), NEW r \in Finished, NEW key
    PROVE  /\ Occurs(TracedErrors(r), key) \in Nat
           /\ Occurs(TracedExternalErrors(r), key) \in Nat
           /\ Occurrences(ErrorsOf(Append(requests, r)), key)
                = Occurrences(ErrorsOf(requests), key) + Occurs(TracedErrors(r), key)
           /\ Occurrences(ExternalsOf(Append(requests, r)), key)
                = Occurrences(ExternalsOf(requests), key) + Occurs(TracedExternalErrors(r), key)
<1>1. PICK n \in Nat : n = Len(requests)
  BY LenProperties
<1>2. PICK all \in Seq(Finished) : all = Append(requests, r)
  BY AppendProperties
<1>3. /\ Len(all) = n + 1 /\ all[n + 1] = r
      /\ \A j \in 1 .. n : all[j] = requests[j] /\ j \in 1 .. n + 1
  BY <1>1, <1>2, AppendProperties
<1>4. \A j \in 1 .. n + 1 : all[j] \in Finished
  BY <1>3, ElementOfSeq
<1>5. \A q \in Finished : /\ Occurs(TracedErrors(q), key) \in Nat
                          /\ Occurs(TracedExternalErrors(q), key) \in Nat
  BY ErrorsAreLists, OccursIsNat
<1>6. Occurrences(ErrorsOf(all), key)
        = Occurrences(ErrorsOf(requests), key) + Occurs(TracedErrors(r), key)
  <2>1. PICK lists : lists = ErrorsOf(requests)
    OBVIOUS
  <2>2. PICK more : more = ErrorsOf(all)
    OBVIOUS
  <2>3. /\ Len(lists) = n /\ Len(more) = n + 1
        /\ \A j \in 1 .. n : lists[j] = TracedErrors(requests[j])
        /\ \A j \in 1 .. n + 1 : more[j] = TracedErrors(all[j])
    BY <1>1, <1>3, <2>1, <2>2 DEF ErrorsOf
  <2>4. \A j \in 1 .. n : more[j] = lists[j]
    BY <1>3, <2>3
  <2>5. \A j \in 1 .. n + 1 : Occurs(more[j], key) \in Nat
    BY <1>4, <1>5, <2>3
  <2>6. more[n + 1] = TracedErrors(r)
    BY <1>3, <2>3
  <2>7. OneMore(n, lists, more, key)
    BY <2>3, <2>4, <2>5 DEF OneMore
  <2>8. Occurrences(more, key) = Occurrences(lists, key) + Occurs(more[n + 1], key)
    BY <2>7, MoreOccurrences
  <2> QED
    BY <2>1, <2>2, <2>6, <2>8
<1>7. Occurrences(ExternalsOf(all), key)
        = Occurrences(ExternalsOf(requests), key) + Occurs(TracedExternalErrors(r), key)
  <2>1. PICK lists : lists = ExternalsOf(requests)
    OBVIOUS
  <2>2. PICK more : more = ExternalsOf(all)
    OBVIOUS
  <2>3. /\ Len(lists) = n /\ Len(more) = n + 1
        /\ \A j \in 1 .. n : lists[j] = TracedExternalErrors(requests[j])
        /\ \A j \in 1 .. n + 1 : more[j] = TracedExternalErrors(all[j])
    BY <1>1, <1>3, <2>1, <2>2 DEF ExternalsOf
  <2>4. \A j \in 1 .. n : more[j] = lists[j]
    BY <1>3, <2>3
  <2>5. \A j \in 1 .. n + 1 : Occurs(more[j], key) \in Nat
    BY <1>4, <1>5, <2>3
  <2>6. more[n + 1] = TracedExternalErrors(r)
    BY <1>3, <2>3
  <2>7. OneMore(n, lists, more, key)
    BY <2>3, <2>4, <2>5 DEF OneMore
  <2>8. Occurrences(more, key) = Occurrences(lists, key) + Occurs(more[n + 1], key)
    BY <2>7, MoreOccurrences
  <2> QED
    BY <2>1, <2>2, <2>6, <2>8
<1> QED
  BY <1>2, <1>5, <1>6, <1>7

LEMMA ZoneCounts ==
    ASSUME NEW r \in Finished
    PROVE  /\ \A key \in DOMAIN RecordErrors(TracedErrors(r)) :
                 LET e == RecordErrors(TracedErrors(r))[key]
                 IN  /\ e \in Counts /\ e.count <= Occurs(TracedErrors(r), key)
                     /\ e.item <= Occurs(TracedErrors(r), key)
           /\ \A key \in DOMAIN RecordErrors(TracedExternalErrors(r)) :
                 LET e == RecordErrors(TracedExternalErrors(r))[key]
                 IN  /\ e \in Counts /\ e.count <= Occurs(TracedExternalErrors(r), key)
                     /\ e.item <= Occurs(TracedExternalErrors(r), key)
<1>1. ASSUME NEW K, NEW keys \in Seq(K)
      PROVE  \A key \in DOMAIN RecordErrors(keys) :
                LET e == RecordErrors(keys)[key]
                IN  /\ e \in Counts /\ e.count <= Occurs(keys, key)
                    /\ e.item <= Occurs(keys, key)
  BY RecordErrorsCounts DEF Counts
<1>2. PICK K : TracedErrors(r) \in Seq(K)
  BY ErrorsAreLists
<1>3. PICK L : TracedExternalErrors(r) \in Seq(L)
  BY ErrorsAreLists
<1> QED
  BY <1>1, <1>2, <1>3

LEMMA RecordKeepsErrors ==
    ASSUME ErrorsKept, NEW r \in Finished, Record(r)
    PROVE  ErrorsKept'
<1>1. recorded' = Append(recorded, r) /\ stat' = stat
  BY DEF Record
<1>2. recorded' \in Seq(Finished)
  BY <1>1, AppendProperties DEF ErrorsKept
<1>3. PICK zone : zone = RecordTracker(r)
  OBVIOUS
<1>4. /\ packager'.errors = MergeDict(packager.errors, zone.errors, MergeError)
      /\ packager'.externals = MergeDict(packager.externals, zone.externals, MergeError)
  BY <1>3 DEF Record, MergeMetricPackets
<1>5. /\ zone.errors = RecordErrors(TracedErrors(r))
      /\ zone.externals = RecordErrors(TracedExternalErrors(r))
  BY <1>3 DEF RecordTracker
<1>6. NotInvented(packager'.errors, stat'.errors, ErrorsOf(recorded'))
  <2>1. PICK keys : keys = TracedErrors(r)
    OBVIOUS
  <2>2. PICK dict : dict = zone.errors
    OBVIOUS
  <2>3. \A key \in DOMAIN dict : /\ dict[key] \in Counts
                                 /\ dict[key].count <= Occurs(keys, key)
                                 /\ dict[key].item <= Occurs(keys, key)
    BY <1>5, <2>1, <2>2, ZoneCounts
  <2>4. PICK lists : lists = ErrorsOf(recorded)
    OBVIOUS
  <2>5. PICK more : more = ErrorsOf(Append(recorded, r))
    OBVIOUS
  <2>6. \A key : /\ Occurs(keys, key) \in Nat
                 /\ Occurrences(more, key) = Occurrences(lists, key) + Occurs(keys, key)
    BY <2>1, <2>4, <2>5, ListsGrow DEF ErrorsKept
  <2>7. NotInvented(packager.errors, stat.errors, lists)
    BY <2>4 DEF ErrorsKept
  <2>8. NotInvented(MergeDict(packager.errors, dict, MergeError), stat.errors, more)
    BY <2>3, <2>6, <2>7, MergedNotInvented
  <2> QED
    BY <1>1, <1>4, <2>2, <2>5, <2>8
<1>7. NotInvented(packager'.externals, stat'.externals, ExternalsOf(recorded'))
  <2>1. PICK keys : keys = TracedExternalErrors(r)
    OBVIOUS
  <2>2. PICK dict : dict = zone.externals
    OBVIOUS
  <2>3. \A key \in DOMAIN dict : /\ dict[key] \in Counts
                                 /\ dict[key].count <= Occurs(keys, key)
                                 /\ dict[key].item <= Occurs(keys, key)
    BY <1>5, <2>1, <2>2, ZoneCounts
  <2>4. PICK lists : lists = ExternalsOf(recorded)
    OBVIOUS
  <2>5. PICK more : more = ExternalsOf(Append(recorded, r))
    OBVIOUS
  <2>6. \A key : /\ Occurs(keys, key) \in Nat
                 /\ Occurrences(more, key) = Occurrences(lists, key) + Occurs(keys, key)
    BY <2>1, <2>4, <2>5, ListsGrow DEF ErrorsKept
  <2>7. NotInvented(packager.externals, stat.externals, lists)
    BY <2>4 DEF ErrorsKept
  <2>8. NotInvented(MergeDict(packager.externals, dict, MergeError), stat.externals, more)
    BY <2>3, <2>6, <2>7, MergedNotInvented
  <2> QED
    BY <1>1, <1>4, <2>2, <2>5, <2>8
<1> QED
  BY <1>2, <1>6, <1>7 DEF ErrorsKept

(* What the upload at hpc leaves.                                          *)
LEMMA BuiltErrors ==
    /\ Built.errors \in {stat.errors, EmptyDict}
    /\ Built.externals \in {stat.externals, EmptyDict}
BY DEF Built, Parts

LEMMA ErrorsNext == ErrorsKept /\ [StatNext]_statVars => ErrorsKept'
<1> SUFFICES ASSUME ErrorsKept, [StatNext]_statVars PROVE ErrorsKept'
  OBVIOUS
<1>1. CASE \E r \in Finished : Record(r)
  BY <1>1, RecordKeepsErrors
<1>2. CASE UNCHANGED statVars
  BY <1>2 DEF statVars, ErrorsKept
<1>3. CASE TakeSnapshot \/ Upload \/ EndHarvest \/ UploadFails \/ UploadRetry
  <2> DEFINE e == ErrorsOf(recorded)
             x == ExternalsOf(recorded)
  <2>1. recorded' = recorded
    BY <1>3 DEF TakeSnapshot, Upload, EndHarvest, UploadFails, UploadRetry
  <2>2. Empty.errors = EmptyDict /\ Empty.externals = EmptyDict
    BY DEF Empty, Parts
  <2>3. /\ NotInvented(packager.errors, stat.errors, e)
        /\ NotInvented(packager.errors, EmptyDict, e)
        /\ NotInvented(EmptyDict, packager.errors, e)
        /\ NotInvented(packager.externals, stat.externals, x)
        /\ NotInvented(packager.externals, EmptyDict, x)
        /\ NotInvented(EmptyDict, packager.externals, x)
    BY TakenNotInvented DEF ErrorsKept
  <2>4. CASE TakeSnapshot
    <3>1. packager' = Empty /\ stat' = packager
      BY <2>4 DEF TakeSnapshot
    <3> QED
      BY <2>1, <2>2, <2>3, <3>1 DEF ErrorsKept
  <2>5. CASE Upload
    <3>1. packager' = packager /\ stat' = Built
      BY <2>5 DEF Upload
    <3> QED
      BY <2>1, <2>3, <3>1, BuiltErrors DEF ErrorsKept
  <2>6. CASE EndHarvest \/ UploadFails
    <3>1. packager' = packager /\ stat' = Empty
      BY <2>6 DEF EndHarvest, UploadFails
    <3> QED
      BY <2>1, <2>2, <2>3, <3>1 DEF ErrorsKept
  <2>7. CASE UploadRetry
    <3>1. packager' = Rollback(packager, Built) /\ stat' = Empty
      BY <2>7 DEF UploadRetry
    <3>2. /\ packager'.errors = MergeDict(packager.errors, Built.errors, RollbackError)
          /\ packager'.externals = MergeDict(packager.externals, Built.externals, RollbackError)
      BY <3>1 DEF Rollback
    <3>3. PICK errors : errors = Built.errors
      OBVIOUS
    <3>4. PICK externals : externals = Built.externals
      OBVIOUS
    <3>5. NotInvented(packager.errors, errors, e) /\ NotInvented(packager.externals, externals, x)
      BY <2>3, <3>3, <3>4, BuiltErrors
    <3>6. NotInvented(MergeDict(packager.errors, errors, RollbackError), EmptyDict, e)
      BY <3>5, RolledBackNotInvented
    <3>7. NotInvented(MergeDict(packager.externals, externals, RollbackError), EmptyDict, x)
      BY <3>5, RolledBackNotInvented
    <3> QED
      BY <2>1, <2>2, <3>1, <3>2, <3>3, <3>4, <3>6, <3>7 DEF ErrorsKept
  <2> QED
    BY <1>3, <2>4, <2>5, <2>6, <2>7
<1> QED
  BY <1>1, <1>2, <1>3 DEF StatNext

(* Whatever fails and is rolled back, and however often, no error is       *)
(* counted more often by the packager and the snapshot together than it    *)
(* occurred.                                                               *)
THEOREM NoErrorInvented == StatSpec => []ErrorsNotInvented
<1>1. StatInit => ErrorsKept
  <2> SUFFICES ASSUME StatInit PROVE ErrorsKept
    OBVIOUS
  <2>1. /\ packager.errors = EmptyDict /\ stat.errors = EmptyDict
        /\ packager.externals = EmptyDict /\ stat.externals = EmptyDict
        /\ recorded = << >>
    BY DEF StatInit, Empty, Parts
  <2>2. recorded \in Seq(Finished)
    BY <2>1, EmptySeq
  <2>3. PICK x : x = << >>
    OBVIOUS
  <2>4. x \in Row(0)
    BY <2>3 DEF Row
  <2>5. Sum(x) = 0
    BY <2>4, SumOfNone
  <2>6. \A key : /\ Occurrences(ErrorsOf(recorded), key) = Sum(x)
                 /\ Occurrences(ExternalsOf(recorded), key) = Sum(x)
    BY <2>1, <2>3 DEF ErrorsOf, ExternalsOf, Occurrences
  <2> QED
    BY <2>1, <2>2, <2>5, <2>6, NoneNotInvented DEF ErrorsKept
<1>2. ErrorsKept => ErrorsNotInvented
  BY DEF ErrorsKept, NotInvented, ErrorsNotInvented
<1> QED
  BY <1>1, <1>2, ErrorsNext, PTL DEF StatSpec

-----------------------------------------------------------------------------
(* Packets of times.                                                       *)

Fields == {"count", "total", "exclusive", "squares"}

Vectors == [Fields -> Nat]
Zero == [f \in Fields |-> 0]
Plus(a, b) == [f \in Fields |-> a[f] + b[f]]

TimePackets == [count : Nat, total : Nat, exclusive : Nat, max : Nat, min : Nat, squares : Nat]

(* A packet has these numbers and, of these times, the greatest and the    *)
(* least.                                                                  *)
Shows(p, a, times) ==
    /\ p \in TimePackets /\ p.count >= 1
    /\ \A f \in Fields : p[f] = a[f]
    /\ p.max \in times /\ \A t \in times : t <= p.max
    /\ p.min \in times /\ (0 \notin times => \A t \in times : p.min <= t)

LEMMA PlusIs ==
    ASSUME NEW a \in Vectors, NEW b \in Vectors
    PROVE  /\ Plus(a, b) \in Vectors /\ Plus(a, Zero) = a /\ Plus(Zero, b) = b
           /\ Zero \in Vectors
           /\ \A f \in Fields : Plus(a, b)[f] = a[f] + b[f]
<1>1. Zero \in Vectors
  BY DEF Zero, Vectors
<1>2. Plus(a, b) \in Vectors /\ \A f \in Fields : Plus(a, b)[f] = a[f] + b[f]
  BY DEF Plus, Vectors
<1>3. Plus(a, Zero) = a
  BY DEF Plus, Vectors, Zero
<1>4. Plus(Zero, b) = b
  BY DEF Plus, Vectors, Zero
<1> QED
  BY <1>1, <1>2, <1>3, <1>4

(* The greatest and the least of both packets are those of all their times.*)
LEMMA MergeShows ==
    ASSUME NEW p, NEW a \in Vectors, NEW S \in SUBSET Nat, Shows(p, a, S),
           NEW q, NEW b \in Vectors, NEW T \in SUBSET Nat, Shows(q, b, T)
    PROVE  Shows(MergeTimes(p, q), Plus(a, b), S \cup T)
<1>1. p \in TimePackets /\ q \in TimePackets /\ p.count >= 1
  BY DEF Shows
<1>2. PICK m : m = MergeTimes(p, q)
  OBVIOUS
<1>3. /\ m.count = p.count + q.count /\ m.total = p.total + q.total
      /\ m.exclusive = p.exclusive + q.exclusive /\ m.squares = p.squares + q.squares
      /\ m.max = Greater(p.max, q.max) /\ m.min = Lower(p, q.min)
  BY <1>2 DEF MergeTimes
<1>4. m.max \in {p.max, q.max} /\ m.max >= p.max /\ m.max >= q.max
  BY <1>1, <1>3 DEF Greater, TimePackets
<1>5. m.min \in {p.min, q.min} /\ (p.min # 0 /\ q.min # 0 => m.min <= p.min /\ m.min <= q.min)
  BY <1>1, <1>3 DEF Lower, Smaller, TimePackets
<1>6. m \in TimePackets
  BY <1>1, <1>2, <1>3, <1>4, <1>5 DEF MergeTimes, TimePackets
<1>7. m.count >= 1
  BY <1>1, <1>3 DEF TimePackets
<1>8. ASSUME NEW f \in Fields PROVE m[f] = Plus(a, b)[f]
  <2>1. p[f] = a[f] /\ q[f] = b[f]
    BY DEF Shows
  <2>2. m[f] = p[f] + q[f]
    BY <1>3 DEF Fields
  <2> QED
    BY <2>1, <2>2, PlusIs
<1>9. m.max \in S \cup T /\ \A t \in S \cup T : t <= m.max
  <2>1. p.max \in S /\ q.max \in T /\ (\A t \in S : t <= p.max) /\ \A t \in T : t <= q.max
    BY DEF Shows
  <2>2. m.max \in S \cup T
    BY <1>4, <2>1
  <2>3. p.max \in Nat /\ q.max \in Nat /\ m.max \in Nat
    BY <1>1, <1>6 DEF TimePackets
  <2>4. ASSUME NEW t \in S \cup T PROVE t <= m.max
    <3>1. t \in Nat /\ (t <= p.max \/ t <= q.max)
      BY <2>1
    <3> QED
      BY <1>4, <2>3, <3>1
  <2> QED
    BY <2>2, <2>4
<1>10. m.min \in S \cup T
  BY <1>5 DEF Shows
<1>11. ASSUME 0 \notin S \cup T, NEW t \in S \cup T PROVE m.min <= t
  <2>1. /\ p.min \in S /\ q.min \in T
        /\ (\A u \in S : p.min <= u) /\ \A u \in T : q.min <= u
    BY <1>11 DEF Shows
  <2>2. p.min # 0 /\ q.min # 0
    BY <1>11, <2>1
  <2>3. m.min <= p.min /\ m.min <= q.min /\ m.min \in S \cup T
    BY <1>5, <1>10, <2>2
  <2>4. p.min \in Nat /\ q.min \in Nat /\ m.min \in Nat
    BY <1>1, <1>6 DEF TimePackets
  <2>5. t \in Nat /\ (p.min <= t \/ q.min <= t)
    BY <2>1
  <2> QED
    BY <2>3, <2>4, <2>5
<1>12. Shows(m, Plus(a, b), S \cup T)
  BY <1>6, <1>7, <1>8, <1>9, <1>10, <1>11 DEF Shows
<1> QED
  BY <1>2, <1>12

(* One metric on its own, and merged into a packet.                        *)
Timed(m) == m.duration \in Nat /\ m.exclusive \in Nat

LEMMA OneShows ==
    ASSUME NEW m, Timed(m)
    PROVE  /\ Numbers(m) \in Vectors
           /\ Shows(MergeTime(NoTime, m.duration, m.exclusive), Numbers(m), {m.duration})
           /\ \A p \in TimePackets : MergeTime(p, m.duration, m.exclusive)
                = MergeTimes(p, MergeTime(NoTime, m.duration, m.exclusive))
<1>1. PICK d \in Nat : d = m.duration
  BY DEF Timed
<1>2. PICK e \in Nat : e = m.exclusive
  BY DEF Timed
<1>3. PICK s \in Nat : s = d * d
  OBVIOUS
<1>4. PICK o : o = [count |-> 1, total |-> d, exclusive |-> e, max |-> d, min |-> d,
                    squares |-> s]
  OBVIOUS
<1>5. MergeTime(NoTime, d, e) = o
  <2>1. 0 + d = d /\ 0 + e = e /\ 0 + d * d = s /\ 0 + 1 = 1
    BY <1>3
  <2>2. Greater(0, d) = d
    BY DEF Greater
  <2>3. Lower(NoTime, d) = d
    BY DEF Lower, NoTime
  <2> QED
    BY <1>4, <2>1, <2>2, <2>3 DEF MergeTime, NoTime
<1>6. Numbers(m) = [count |-> 1, total |-> d, exclusive |-> e, squares |-> s]
  BY <1>1, <1>2, <1>3 DEF Numbers
<1>7. Numbers(m) \in Vectors /\ \A f \in Fields : o[f] = Numbers(m)[f]
  BY <1>4, <1>6 DEF Vectors, Fields
<1>8. Shows(o, Numbers(m), {d})
  BY <1>4, <1>7 DEF Shows, TimePackets
<1>9. ASSUME NEW p \in TimePackets PROVE MergeTime(p, d, e) = MergeTimes(p, o)
  BY <1>3, <1>4 DEF MergeTime, MergeTimes
<1> QED
  BY <1>1, <1>2, <1>5, <1>7, <1>8, <1>9

-----------------------------------------------------------------------------
(* Dictionaries of packets.                                                *)

(* What a dictionary has under a key, if anything.                         *)
Shown(dict, key, a, times) ==
    /\ key \in DOMAIN dict => Shows(dict[key], a, times)
    /\ key \notin DOMAIN dict => a = Zero /\ times = {}

LEMMA MergeShown ==
    ASSUME NEW mine, NEW theirs, NEW key,
           NEW a \in Vectors, NEW S \in SUBSET Nat, Shown(mine, key, a, S),
           NEW b \in Vectors, NEW T \in SUBSET Nat, Shown(theirs, key, b, T)
    PROVE  Shown(MergeDict(mine, theirs, MergeTimes), key, Plus(a, b), S \cup T)
<1>1. PICK new : new = MergeDict(mine, theirs, MergeTimes)
  OBVIOUS
<1>2. DOMAIN new = DOMAIN mine \cup DOMAIN theirs
  BY <1>1 DEF MergeDict
<1>3. CASE key \notin DOMAIN mine /\ key \notin DOMAIN theirs
  <2>1. key \notin DOMAIN new
    BY <1>2, <1>3
  <2>2. a = Zero /\ b = Zero /\ S = {} /\ T = {}
    BY <1>3 DEF Shown
  <2> QED
    BY <1>1, <2>1, <2>2, PlusIs DEF Shown
<1>4. CASE key \in DOMAIN mine /\ key \notin DOMAIN theirs
  <2>1. key \in DOMAIN new /\ new[key] = mine[key]
    BY <1>1, <1>2, <1>4 DEF MergeDict
  <2>2. Shows(mine[key], a, S) /\ b = Zero /\ T = {}
    BY <1>4 DEF Shown
  <2>3. Plus(a, b) = a /\ S \cup T = S
    BY <2>2, PlusIs
  <2> QED
    BY <1>1, <2>1, <2>2, <2>3 DEF Shown
<1>5. CASE key \notin DOMAIN mine /\ key \in DOMAIN theirs
  <2>1. key \in DOMAIN new /\ new[key] = theirs[key]
    BY <1>1, <1>2, <1>5 DEF MergeDict
  <2>2. Shows(theirs[key], b, T) /\ a = Zero /\ S = {}
    BY <1>5 DEF Shown
  <2>3. Plus(a, b) = b /\ S \cup T = T
    BY <2>2, PlusIs
  <2> QED
    BY <1>1, <2>1, <2>2, <2>3 DEF Shown
<1>6. CASE key \in DOMAIN mine /\ key \in DOMAIN theirs
  <2>1. key \in DOMAIN new /\ new[key] = MergeTimes(mine[key], theirs[key])
    BY <1>1, <1>2, <1>6 DEF MergeDict
  <2>2. Shows(mine[key], a, S) /\ Shows(theirs[key], b, T)
    BY <1>6 DEF Shown
  <2>3. PICK p : p = mine[key]
    OBVIOUS
  <2>4. PICK q : q = theirs[key]
    OBVIOUS
  <2>5. Shows(MergeTimes(p, q), Plus(a, b), S \cup T)
    BY <2>2, <2>3, <2>4, MergeShows
  <2> QED
    BY <1>1, <2>1, <2>3, <2>4, <2>5 DEF Shown
<1> QED
  BY <1>3, <1>4, <1>5, <1>6

(* The part and the key of a metric go together.                           *)
PartOf(key) == IF key[1][1] = "GENERAL" THEN "generals" ELSE "times"

LEMMA PartIsOfKey == \A m : Part(m) = PartOf(Key(m)) /\ Part(m) \in {"times", "generals"}
<1> TAKE m
<1>1. Key(m)[1] = m.name
  BY DEF Key
<1>2. Key(m)[1][1] = m.name[1]
  BY <1>1
<1> QED
  BY <1>2 DEF Part, PartOf

NumbersIf(m, key) == IF Key(m) = key THEN Numbers(m) ELSE Zero
TimesIf(m, key) == IF Key(m) = key THEN {m.duration} ELSE {}

LEMMA NumbersAre ==
    ASSUME NEW m, Timed(m), NEW key
    PROVE  /\ NumbersIf(m, key) \in Vectors /\ TimesIf(m, key) \in SUBSET Nat
           /\ \A f \in Fields : NumbersIf(m, key)[f] = IF Key(m) = key THEN Numbers(m)[f] ELSE 0
<1>1. Numbers(m) \in Vectors /\ Zero \in Vectors /\ \A f \in Fields : Zero[f] = 0
  BY OneShows DEF Zero, Vectors
<1> QED
  BY <1>1 DEF NumbersIf, TimesIf, Timed

LEMMA RecordShown ==
    ASSUME NEW dict, NEW key, NEW a \in Vectors, NEW S \in SUBSET Nat, Shown(dict, key, a, S),
           NEW m, Timed(m)
    PROVE  Shown(RecordTime(dict, m), key, Plus(a, NumbersIf(m, key)), S \cup TimesIf(m, key))
<1>1. PICK one : one = MergeTime(NoTime, m.duration, m.exclusive)
  OBVIOUS
<1>2. PICK new : new = RecordTime(dict, m)
  OBVIOUS
<1>3. PICK p : p = MergeTime(Get(dict, Key(m), NoTime), m.duration, m.exclusive)
  OBVIOUS
<1>4. /\ DOMAIN new = DOMAIN dict \cup {Key(m)}
      /\ \A k \in DOMAIN new : new[k] = IF k = Key(m) THEN p ELSE dict[k]
  BY <1>2, <1>3 DEF RecordTime, Put
<1>5. /\ Numbers(m) \in Vectors /\ Shows(one, Numbers(m), {m.duration})
      /\ {m.duration} \in SUBSET Nat
  BY <1>1, OneShows DEF Timed
<1>6. CASE key # Key(m)
  <2>1. NumbersIf(m, key) = Zero /\ TimesIf(m, key) = {}
    BY <1>6 DEF NumbersIf, TimesIf
  <2>2. Plus(a, NumbersIf(m, key)) = a /\ S \cup TimesIf(m, key) = S
    BY <2>1, PlusIs
  <2>3. /\ key \in DOMAIN new <=> key \in DOMAIN dict
        /\ key \in DOMAIN new => new[key] = dict[key]
    BY <1>4, <1>6
  <2> QED
    BY <1>2, <2>2, <2>3 DEF Shown
<1>7. CASE key = Key(m)
  <2>1. NumbersIf(m, key) = Numbers(m) /\ TimesIf(m, key) = {m.duration}
    BY <1>7 DEF NumbersIf, TimesIf
  <2>2. key \in DOMAIN new /\ new[key] = p
    BY <1>4, <1>7
  <2>3. CASE key \in DOMAIN dict
    <3>1. PICK old : old = dict[key]
      OBVIOUS
    <3>2. Shows(old, a, S)
      BY <2>3, <3>1 DEF Shown
    <3>3. p = MergeTime(old, m.duration, m.exclusive)
      BY <1>3, <1>7, <2>3, <3>1 DEF Get
    <3>4. p = MergeTimes(old, one)
      BY <1>1, <3>2, <3>3, OneShows DEF Shows
    <3>5. Shows(MergeTimes(old, one), Plus(a, Numbers(m)), S \cup {m.duration})
      BY <1>5, <3>2, MergeShows
    <3> QED
      BY <1>2, <2>1, <2>2, <3>4, <3>5 DEF Shown
  <2>4. CASE key \notin DOMAIN dict
    <3>1. p = one
      BY <1>1, <1>3, <1>7, <2>4 DEF Get
    <3>2. a = Zero /\ S = {}
      BY <2>4 DEF Shown
    <3>3. Plus(a, Numbers(m)) = Numbers(m) /\ S \cup {m.duration} = {m.duration}
      BY <1>5, <3>2, PlusIs
    <3> QED
      BY <1>2, <1>5, <2>1, <2>2, <3>1, <3>3 DEF Shown
  <2> QED
    BY <2>3, <2>4
<1> QED
  BY <1>6, <1>7

-----------------------------------------------------------------------------
(* The metrics of one request.                                             *)

TimedList(l) == IsList(l) /\ \A i \in DOMAIN l : Timed(l[i])

LEMMA TimedListIs ==
    ASSUME NEW l, TimedList(l)
    PROVE  /\ Len(l) \in Nat /\ DOMAIN l = 1 .. Len(l)
           /\ \A i \in 1 .. Len(l) : Timed(l[i])
BY LenProperties DEF TimedList, IsList

(* What RecordTimes makes of a dictionary with one more metric.            *)
RecordIn(dict, m, part) == IF Part(m) = part THEN RecordTime(dict, m) ELSE dict

(* The recursion of RecordTimes defines something.                         *)
LEMMA RecordTimesDefines ==
    ASSUME NEW metrics, TimedList(metrics), NEW part
    PROVE  \E d :
             /\ d \in [0 .. Len(metrics) ->
                          Dicts({Key(metrics[i]) : i \in DOMAIN metrics}, TimePackets)]
             /\ d[0] = EmptyDict
             /\ \A i \in 1 .. Len(metrics) : d[i] = RecordIn(d[i - 1], metrics[i], part)
             /\ RecordTimes(metrics, part) = d[Len(metrics)]
<1>1. PICK n \in Nat : n = Len(metrics)
  BY TimedListIs
<1>2. PICK V : V = Dicts({Key(metrics[i]) : i \in DOMAIN metrics}, TimePackets)
  OBVIOUS
<1>3. PICK first : first = EmptyDict
  OBVIOUS
<1>4. first \in V
  BY <1>2, <1>3, EmptyIsDict
<1>5. ASSUME NEW i \in 1 .. n, NEW v \in V PROVE RecordIn(v, metrics[i], part) \in V
  <2>1. PICK m : m = metrics[i]
    OBVIOUS
  <2>2. Timed(m) /\ i \in DOMAIN metrics
    BY <1>1, <2>1, TimedListIs
  <2>3. PICK K : K = {Key(metrics[j]) : j \in DOMAIN metrics}
    OBVIOUS
  <2>4. v \in Dicts(K, TimePackets) /\ V = Dicts(K, TimePackets) /\ Key(m) \in K
    BY <1>2, <2>1, <2>2, <2>3
  <2>5. PICK old : old = Get(v, Key(m), NoTime)
    OBVIOUS
  <2>6. old \in TimePackets
    <3>1. NoTime \in TimePackets
      BY DEF NoTime, TimePackets
    <3>2. Key(m) \in DOMAIN v => v[Key(m)] \in TimePackets
      BY <2>4, DictsAre
    <3> QED
      BY <2>5, <3>1, <3>2 DEF Get
  <2>7. PICK p : p = MergeTime(old, m.duration, m.exclusive)
    OBVIOUS
  <2>8. p \in TimePackets
    <3>1. m.duration * m.duration \in Nat
      BY <2>2 DEF Timed
    <3> QED
      BY <2>2, <2>6, <2>7, <3>1
         DEF MergeTime, TimePackets, Timed, Greater, Lower, Smaller
  <2>9. Put(v, Key(m), p) \in V
    BY <2>4, <2>8, PutIsDict
  <2> QED
    BY <2>1, <2>4, <2>5, <2>7, <2>9 DEF RecordIn, RecordTime
<1> DEFINE step == [i \in 1 .. n |-> [v \in V |-> RecordIn(v, metrics[i], part)]]
<1>6. step \in [1 .. n -> [V -> V]]
  BY <1>5
<1>7. PICK f : /\ f \in [0 .. n -> V]
               /\ f[0] = first /\ \A i \in 1 .. n : f[i] = step[i][f[i - 1]]
  <2>1. step \in Steps(n, V)
    BY <1>6 DEF Steps
  <2> HIDE DEF step
  <2>2. \E f : Unrolls(f, n, V, first, step)
    BY <1>4, <2>1, RecursionUnrolls
  <2> QED
    BY <2>2 DEF Unrolls
<1>8. \A i \in 1 .. n : f[i] = RecordIn(f[i - 1], metrics[i], part)
  <2> SUFFICES ASSUME NEW i \in 1 .. n PROVE f[i] = RecordIn(f[i - 1], metrics[i], part)
    OBVIOUS
  <2>1. i - 1 \in 0 .. n /\ f[i - 1] \in V
    BY <1>7
  <2> QED
    BY <1>7, <2>1
<1> DEFINE Unfold(h) ==
      [i \in 0 .. Len(metrics) |->
         IF i = 0 THEN EmptyDict ELSE RecordIn(h[i - 1], metrics[i], part)]
<1>9. f = Unfold(f)
  BY <1>1, <1>3, <1>7, <1>8
<1> DEFINE d == CHOOSE h : h = Unfold(h)
<1>10. d = Unfold(d)
  BY <1>9
<1>11. RecordTimes(metrics, part) = d[n]
  BY <1>1 DEF RecordTimes, RecordIn
<1> HIDE DEF d
<1>12. d[0] = first /\ \A i \in 1 .. n : d[i] = RecordIn(d[i - 1], metrics[i], part)
  BY <1>1, <1>3, <1>10
<1>13. \A i \in 0 .. n : d[i] = f[i]
  <2>1. d[0] = f[0]
    BY <1>7, <1>12
  <2>2. \A i \in 1 .. n : d[i - 1] = f[i - 1] => d[i] = f[i]
    BY <1>8, <1>12
  <2> QED
    BY <2>1, <2>2, RecursionAgrees
<1>14. d \in [0 .. n -> V]
  <2>1. d = [i \in 0 .. n |-> d[i]]
    BY <1>1, <1>10
  <2> QED
    BY <1>7, <1>13, <2>1
<1> QED
  BY <1>1, <1>2, <1>3, <1>11, <1>12, <1>14

(* What the first metrics of a list add up to.                             *)
Upto(l, i, key) == [f \in Fields |-> Sum([j \in 1 .. i |-> NumbersIf(l[j], key)[f]])]
TimesUpto(l, i, key) == UNION {TimesIf(l[j], key) : j \in 1 .. i}

LEMMA UptoNone ==
    ASSUME NEW l, NEW key
    PROVE  Upto(l, 0, key) = Zero /\ TimesUpto(l, 0, key) = {}
<1>1. ASSUME NEW f \in Fields PROVE Sum([j \in 1 .. 0 |-> NumbersIf(l[j], key)[f]]) = 0
  <2>1. PICK x : x = [j \in 1 .. 0 |-> NumbersIf(l[j], key)[f]]
    OBVIOUS
  <2>2. x \in Row(0)
    BY <2>1 DEF Row
  <2> QED
    BY <2>1, <2>2, SumOfNone
<1>2. TimesUpto(l, 0, key) = {}
  BY DEF TimesUpto
<1> QED
  BY <1>1, <1>2 DEF Upto, Zero

LEMMA UptoMore ==
    ASSUME NEW l, TimedList(l), NEW key, NEW i \in Nat, i + 1 <= Len(l)
    PROVE  /\ Upto(l, i, key) \in Vectors
           /\ TimesUpto(l, i, key) \in SUBSET Nat
           /\ Upto(l, i + 1, key) = Plus(Upto(l, i, key), NumbersIf(l[i + 1], key))
           /\ TimesUpto(l, i + 1, key) = TimesUpto(l, i, key) \cup TimesIf(l[i + 1], key)
<1>1. \A j \in 1 .. i + 1 : Timed(l[j])
  BY TimedListIs
<1>2. \A j \in 1 .. i + 1 : NumbersIf(l[j], key) \in Vectors /\ TimesIf(l[j], key) \in SUBSET Nat
  BY <1>1, NumbersAre
<1>3. ASSUME NEW f \in Fields
      PROVE  /\ Sum([j \in 1 .. i |-> NumbersIf(l[j], key)[f]]) \in Nat
             /\ Sum([j \in 1 .. i + 1 |-> NumbersIf(l[j], key)[f]])
                  = Sum([j \in 1 .. i |-> NumbersIf(l[j], key)[f]]) + NumbersIf(l[i + 1], key)[f]
  <2>1. PICK x : x = [j \in 1 .. i |-> NumbersIf(l[j], key)[f]]
    OBVIOUS
  <2>2. PICK y : y = [j \in 1 .. i + 1 |-> NumbersIf(l[j], key)[f]]
    OBVIOUS
  <2>3. \A j \in 1 .. i + 1 : NumbersIf(l[j], key)[f] \in Nat
    BY <1>2 DEF Vectors
  <2>4. x \in Row(i) /\ y \in Row(i + 1) /\ \A j \in 1 .. i : y[j] = x[j]
    BY <2>1, <2>2, <2>3 DEF Row
  <2>5. Sum(x) \in Nat /\ Sum(y) = Sum(x) + y[i + 1]
    BY <2>4, SumOfMore
  <2>6. y[i + 1] = NumbersIf(l[i + 1], key)[f]
    BY <2>2
  <2> QED
    BY <2>1, <2>2, <2>5, <2>6
<1>4. Upto(l, i, key) \in Vectors
  BY <1>3 DEF Upto, Vectors
<1>5. Upto(l, i + 1, key) = Plus(Upto(l, i, key), NumbersIf(l[i + 1], key))
  BY <1>3 DEF Upto, Plus
<1>6. TimesUpto(l, i, key) \in SUBSET Nat
  BY <1>2 DEF TimesUpto
<1>7. TimesUpto(l, i + 1, key) = TimesUpto(l, i, key) \cup TimesIf(l[i + 1], key)
  <2>1. \A j \in 1 .. i + 1 : j \in 1 .. i \/ j = i + 1
    OBVIOUS
  <2>2. i + 1 \in 1 .. i + 1 /\ \A j \in 1 .. i : j \in 1 .. i + 1
    OBVIOUS
  <2> QED
    BY <2>1, <2>2 DEF TimesUpto
<1> QED
  BY <1>4, <1>5, <1>6, <1>7

(* The zone of a request shows all its metrics, and no others.             *)
LEMMA RecordTimesShown ==
    ASSUME NEW l, TimedList(l), NEW part
    PROVE  /\ \A key \in DOMAIN RecordTimes(l, part) : PartOf(key) = part
           /\ \A key : PartOf(key) = part =>
                Shown(RecordTimes(l, part), key, Upto(l, Len(l), key), TimesUpto(l, Len(l), key))
<1>1. PICK n \in Nat : n = Len(l)
  BY TimedListIs
<1>2. PICK V : V = Dicts({Key(l[i]) : i \in DOMAIN l}, TimePackets)
  OBVIOUS
<1>3. PICK d :
          /\ d \in [0 .. n -> V]
          /\ d[0] = EmptyDict
          /\ \A i \in 1 .. n :
                d[i] = IF Part(l[i]) = part THEN RecordTime(d[i - 1], l[i]) ELSE d[i - 1]
          /\ RecordTimes(l, part) = d[n]
  BY <1>1, <1>2, RecordTimesDefines DEF RecordIn
<1> DEFINE Right(k) ==
      /\ \A key \in DOMAIN d[k] : PartOf(key) = part
      /\ \A key : PartOf(key) = part => Shown(d[k], key, Upto(l, k, key), TimesUpto(l, k, key))
<1> DEFINE T == {k \in Nat : k <= n => Right(k)}
<1>4. 0 \in T
  <2>1. DOMAIN d[0] = {}
    BY <1>3 DEF EmptyDict
  <2>2. Right(0)
    BY <2>1, UptoNone DEF Shown
  <2> QED
    BY <2>2
<1>5. ASSUME NEW k \in Nat, k \in T PROVE k + 1 \in T
  <2> SUFFICES ASSUME k + 1 <= n PROVE Right(k + 1)
    OBVIOUS
  <2>1. Right(k) /\ k + 1 \in 1 .. n /\ (k + 1) - 1 = k
    BY <1>5
  <2>2. PICK m : m = l[k + 1]
    OBVIOUS
  <2>3. Timed(m)
    BY <1>1, <2>1, <2>2, TimedListIs
  <2>4. PICK dict : dict = d[k]
    OBVIOUS
  <2>5. PICK new : new = d[k + 1]
    OBVIOUS
  <2>6. new = IF Part(m) = part THEN RecordTime(dict, m) ELSE dict
    BY <1>3, <2>1, <2>2, <2>4, <2>5
  <2>7. \A key \in DOMAIN new : PartOf(key) = part
    <3>1. Part(m) = part => DOMAIN new = DOMAIN dict \cup {Key(m)}
      BY <2>6 DEF RecordTime, Put
    <3>2. Part(m) # part => DOMAIN new = DOMAIN dict
      BY <2>6
    <3>3. \A key \in DOMAIN dict : PartOf(key) = part
      BY <2>1, <2>4
    <3> QED
      BY <3>1, <3>2, <3>3, PartIsOfKey
  <2>8. ASSUME NEW key, PartOf(key) = part
        PROVE  Shown(new, key, Upto(l, k + 1, key), TimesUpto(l, k + 1, key))
    <3>1. PICK a : a = Upto(l, k, key)
      OBVIOUS
    <3>2. PICK S : S = TimesUpto(l, k, key)
      OBVIOUS
    <3>3. /\ a \in Vectors /\ S \in SUBSET Nat
          /\ Upto(l, k + 1, key) = Plus(a, NumbersIf(m, key))
          /\ TimesUpto(l, k + 1, key) = S \cup TimesIf(m, key)
      BY <1>1, <2>2, <3>1, <3>2, UptoMore
    <3>4. Shown(dict, key, a, S)
      BY <2>1, <2>4, <2>8, <3>1, <3>2
    <3>5. CASE Part(m) = part
      <4>1. Shown(RecordTime(dict, m), key, Plus(a, NumbersIf(m, key)), S \cup TimesIf(m, key))
        BY <2>3, <3>3, <3>4, RecordShown
      <4> QED
        BY <2>6, <3>3, <3>5, <4>1
    <3>6. CASE Part(m) # part
      <4>1. Key(m) # key
        BY <2>8, <3>6, PartIsOfKey
      <4>2. NumbersIf(m, key) = Zero /\ TimesIf(m, key) = {}
        BY <4>1 DEF NumbersIf, TimesIf
      <4>3. Plus(a, NumbersIf(m, key)) = a /\ S \cup TimesIf(m, key) = S
        BY <3>3, <4>2, PlusIs
      <4> QED
        BY <2>6, <3>3, <3>4, <3>6, <4>3
    <3> QED
      BY <3>5, <3>6
  <2> QED
    BY <2>5, <2>7, <2>8
<1>6. n \in T
  <2> HIDE DEF T
  <2> QED
    BY <1>4, <1>5, SetInduction
<1>7. Right(n)
  BY <1>6
<1> QED
  BY <1>1, <1>3, <1>7

-----------------------------------------------------------------------------
(* The metrics of some requests.                                           *)

AllTotals(lists, key) == [f \in Fields |-> Amounts(lists, key, f)]
AllTimes(lists, key) ==
    UNION {TimesUpto(lists[j], Len(lists[j]), key) : j \in 1 .. Len(lists)}

TimedLists(lists, n) ==
    Len(lists) = n /\ DOMAIN lists = 1 .. n /\ \A j \in 1 .. n : TimedList(lists[j])

OneList(lists, more, n) ==
    /\ TimedLists(lists, n) /\ TimedLists(more, n + 1)
    /\ \A j \in 1 .. n : more[j] = lists[j]

(* A list has the amounts that its metrics add up to.                      *)
LEMMA AmountIs ==
    ASSUME NEW l, TimedList(l), NEW key
    PROVE  /\ Upto(l, Len(l), key) \in Vectors /\ TimesUpto(l, Len(l), key) \in SUBSET Nat
           /\ \A f \in Fields : Amount(l, key, f) = Upto(l, Len(l), key)[f]
<1>1. PICK n \in Nat : n = Len(l) /\ \A j \in 1 .. n : Timed(l[j])
  BY TimedListIs
<1>2. \A j \in 1 .. n : /\ NumbersIf(l[j], key) \in Vectors /\ TimesIf(l[j], key) \in SUBSET Nat
                        /\ \A f \in Fields : NumbersIf(l[j], key)[f]
                             = IF Key(l[j]) = key THEN Numbers(l[j])[f] ELSE 0
  BY <1>1, NumbersAre
<1>3. TimesUpto(l, n, key) \in SUBSET Nat
  BY <1>2 DEF TimesUpto
<1>4. ASSUME NEW f \in Fields
      PROVE  Upto(l, n, key)[f] \in Nat /\ Amount(l, key, f) = Upto(l, n, key)[f]
  <2>1. PICK x : x = [j \in 1 .. n |-> NumbersIf(l[j], key)[f]]
    OBVIOUS
  <2>2. x \in Row(n)
    BY <1>2, <2>1 DEF Row, Vectors
  <2>3. Sum(x) \in Nat
    BY <2>2, SumsAdd
  <2>4. Upto(l, n, key)[f] = Sum(x)
    BY <2>1 DEF Upto
  <2>5. x = [j \in 1 .. n |-> IF Key(l[j]) = key THEN Numbers(l[j])[f] ELSE 0]
    BY <1>2, <2>1
  <2>6. Amount(l, key, f) = Sum(x)
    BY <1>1, <2>5 DEF Amount
  <2> QED
    BY <2>3, <2>4, <2>6
<1>5. Upto(l, n, key) \in Vectors
  BY <1>4 DEF Upto, Vectors
<1> QED
  BY <1>1, <1>3, <1>4, <1>5

LEMMA AllTotalsAre ==
    ASSUME NEW n \in Nat, NEW lists, TimedLists(lists, n), NEW key
    PROVE  AllTotals(lists, key) \in Vectors /\ AllTimes(lists, key) \in SUBSET Nat
<1>1. Len(lists) = n /\ \A j \in 1 .. n : TimedList(lists[j])
  BY DEF TimedLists
<1>2. AllTimes(lists, key) \in SUBSET Nat
  BY <1>1, AmountIs DEF AllTimes
<1>3. ASSUME NEW f \in Fields PROVE Amounts(lists, key, f) \in Nat
  <2>1. PICK x : x = [j \in 1 .. n |-> Amount(lists[j], key, f)]
    OBVIOUS
  <2>2. ASSUME NEW j \in 1 .. n PROVE Amount(lists[j], key, f) \in Nat
    <3>1. PICK l : l = lists[j]
      OBVIOUS
    <3>2. TimedList(l)
      BY <1>1, <3>1
    <3>3. Upto(l, Len(l), key) \in Vectors /\ Amount(l, key, f) = Upto(l, Len(l), key)[f]
      BY <3>2, AmountIs
    <3> QED
      BY <3>1, <3>3 DEF Vectors
  <2>3. x \in Row(n)
    BY <2>1, <2>2 DEF Row
  <2>4. Sum(x) \in Nat
    BY <2>3, SumsAdd
  <2> QED
    BY <1>1, <2>1, <2>4 DEF Amounts
<1> QED
  BY <1>2, <1>3 DEF AllTotals, Vectors

LEMMA MoreTotals ==
    ASSUME NEW n \in Nat, NEW lists, NEW more, OneList(lists, more, n), NEW key
    PROVE  /\ AllTotals(more, key)
                = Plus(AllTotals(lists, key), Upto(more[n + 1], Len(more[n + 1]), key))
           /\ AllTimes(more, key)
                = AllTimes(lists, key) \cup TimesUpto(more[n + 1], Len(more[n + 1]), key)
<1>1. /\ Len(lists) = n /\ Len(more) = n + 1 /\ \A j \in 1 .. n : more[j] = lists[j]
      /\ \A j \in 1 .. n + 1 : TimedList(more[j])
  BY DEF OneList, TimedLists
<1>2. PICK last : last = more[n + 1]
  OBVIOUS
<1>3. ASSUME NEW f \in Fields
      PROVE  Amounts(more, key, f) = Amounts(lists, key, f) + Upto(last, Len(last), key)[f]
  <2>1. PICK x : x = [j \in 1 .. n |-> Amount(lists[j], key, f)]
    OBVIOUS
  <2>2. PICK y : y = [j \in 1 .. n + 1 |-> Amount(more[j], key, f)]
    OBVIOUS
  <2>3. \A j \in 1 .. n + 1 : /\ Amount(more[j], key, f) = Upto(more[j], Len(more[j]), key)[f]
                              /\ Amount(more[j], key, f) \in Nat
    <3> SUFFICES ASSUME NEW j \in 1 .. n + 1
                 PROVE  /\ Amount(more[j], key, f) = Upto(more[j], Len(more[j]), key)[f]
                        /\ Amount(more[j], key, f) \in Nat
      OBVIOUS
    <3>1. PICK l : l = more[j]
      OBVIOUS
    <3>2. TimedList(l)
      BY <1>1, <3>1
    <3>3. Upto(l, Len(l), key) \in Vectors /\ Amount(l, key, f) = Upto(l, Len(l), key)[f]
      BY <3>2, AmountIs
    <3> QED
      BY <3>1, <3>3 DEF Vectors
  <2>4. x \in Row(n) /\ y \in Row(n + 1) /\ \A j \in 1 .. n : y[j] = x[j]
    BY <1>1, <2>1, <2>2, <2>3 DEF Row
  <2>5. Sum(y) = Sum(x) + y[n + 1]
    BY <2>4, SumOfMore
  <2>6. Amounts(lists, key, f) = Sum(x) /\ Amounts(more, key, f) = Sum(y)
    BY <1>1, <2>1, <2>2 DEF Amounts
  <2>7. y[n + 1] = Upto(last, Len(last), key)[f]
    BY <1>2, <2>2, <2>3
  <2> QED
    BY <2>5, <2>6, <2>7
<1>4. AllTotals(more, key) = Plus(AllTotals(lists, key), Upto(last, Len(last), key))
  BY <1>3 DEF AllTotals, Plus
<1>5. AllTimes(more, key) = AllTimes(lists, key) \cup TimesUpto(last, Len(last), key)
  <2>1. \A j \in 1 .. n + 1 : j \in 1 .. n \/ j = n + 1
    OBVIOUS
  <2>2. n + 1 \in 1 .. n + 1 /\ \A j \in 1 .. n : j \in 1 .. n + 1
    OBVIOUS
  <2> QED
    BY <1>1, <1>2, <2>1, <2>2 DEF AllTimes
<1> QED
  BY <1>2, <1>4, <1>5

(* A dictionary has the part of all the metrics.                           *)
Stands(dict, part, lists) ==
    /\ \A key \in DOMAIN dict : PartOf(key) = part
    /\ \A key : PartOf(key) = part =>
         Shown(dict, key, AllTotals(lists, key), AllTimes(lists, key))

LEMMA StandsForMore ==
    ASSUME NEW n \in Nat, NEW lists, NEW more, OneList(lists, more, n),
           NEW dict, NEW part, Stands(dict, part, lists)
    PROVE  Stands(MergeDict(dict, RecordTimes(more[n + 1], part), MergeTimes), part, more)
<1>1. PICK last : last = more[n + 1]
  OBVIOUS
<1>2. PICK zone : zone = RecordTimes(last, part)
  OBVIOUS
<1>3. PICK new : new = MergeDict(dict, zone, MergeTimes)
  OBVIOUS
<1>4. TimedList(last)
  BY <1>1 DEF OneList, TimedLists
<1>5. \A key \in DOMAIN new : PartOf(key) = part
  <2>1. DOMAIN new = DOMAIN dict \cup DOMAIN zone
    BY <1>3 DEF MergeDict
  <2>2. \A key \in DOMAIN zone : PartOf(key) = part
    BY <1>2, <1>4, RecordTimesShown
  <2> QED
    BY <2>1, <2>2 DEF Stands
<1>6. ASSUME NEW key, PartOf(key) = part
      PROVE  Shown(new, key, AllTotals(more, key), AllTimes(more, key))
  <2>1. PICK a \in Vectors : a = AllTotals(lists, key)
    BY AllTotalsAre DEF OneList
  <2>2. PICK S \in SUBSET Nat : S = AllTimes(lists, key)
    BY AllTotalsAre DEF OneList
  <2>3. PICK b \in Vectors : b = Upto(last, Len(last), key)
    BY <1>4, AmountIs
  <2>4. PICK T \in SUBSET Nat : T = TimesUpto(last, Len(last), key)
    BY <1>4, AmountIs
  <2>5. Shown(dict, key, a, S)
    BY <1>6, <2>1, <2>2 DEF Stands
  <2>6. Shown(zone, key, b, T)
    BY <1>2, <1>4, <1>6, <2>3, <2>4, RecordTimesShown
  <2>7. Shown(MergeDict(dict, zone, MergeTimes), key, Plus(a, b), S \cup T)
    BY <2>5, <2>6, MergeShown
  <2>8. AllTotals(more, key) = Plus(a, b) /\ AllTimes(more, key) = S \cup T
    BY <1>1, <2>1, <2>2, <2>3, <2>4, MoreTotals
  <2> QED
    BY <1>3, <2>7, <2>8
<1>7. Stands(new, part, more)
  BY <1>5, <1>6 DEF Stands
<1> QED
  BY <1>1, <1>2, <1>3, <1>7

LEMMA NothingStands ==
    ASSUME NEW lists, Len(lists) = 0, NEW part
    PROVE  Stands(EmptyDict, part, lists)
<1>1. DOMAIN EmptyDict = {}
  BY DEF EmptyDict
<1>2. ASSUME NEW key PROVE AllTotals(lists, key) = Zero /\ AllTimes(lists, key) = {}
  <2>1. ASSUME NEW f \in Fields PROVE Amounts(lists, key, f) = 0
    <3>1. PICK x : x = [j \in 1 .. 0 |-> Amount(lists[j], key, f)]
      OBVIOUS
    <3>2. x \in Row(0)
      BY <3>1 DEF Row
    <3>3. Sum(x) = 0
      BY <3>2, SumOfNone
    <3> QED
      BY <3>1, <3>3 DEF Amounts
  <2>2. AllTimes(lists, key) = {}
    BY DEF AllTimes
  <2> QED
    BY <2>1, <2>2 DEF AllTotals, Zero
<1> QED
  BY <1>1, <1>2 DEF Stands, Shown

(* That is what the property asks for.                                     *)
LEMMA StandsIsExact ==
    ASSUME NEW n \in Nat, NEW lists, TimedLists(lists, n),
           NEW dict, NEW part, Stands(dict, part, lists)
    PROVE  AllExact(dict, lists, part)
<1>1. /\ Len(lists) = n /\ \A j \in 1 .. n : TimedList(lists[j])
  BY DEF TimedLists
<1>3. DOMAIN lists = 1 .. n
  BY DEF TimedLists
<1>4. ASSUME NEW key
      PROVE  AllTimes(lists, key)
               = {m.duration : m \in {m \in MetricsIn(lists) : Key(m) = key}}
  <2>1. ASSUME NEW j \in 1 .. n
        PROVE  TimesUpto(lists[j], Len(lists[j]), key)
                 = {lists[j][i].duration : i \in {i \in DOMAIN lists[j] : Key(lists[j][i]) = key}}
    <3>1. PICK l : l = lists[j]
      OBVIOUS
    <3>2. DOMAIN l = 1 .. Len(l)
      BY <1>1, <3>1, TimedListIs
    <3>3. TimesUpto(l, Len(l), key)
            = {l[i].duration : i \in {i \in DOMAIN l : Key(l[i]) = key}}
      BY <3>2 DEF TimesUpto, TimesIf
    <3> QED
      BY <3>1, <3>3
  <2>2. AllTimes(lists, key)
          = UNION {{lists[j][i].duration : i \in {i \in DOMAIN lists[j] : Key(lists[j][i]) = key}}
                     : j \in 1 .. n}
    BY <1>1, <2>1 DEF AllTimes
  <2> QED
    BY <1>3, <2>2 DEF MetricsIn
<1>5. DOMAIN dict = {Key(m) : m \in {m \in MetricsIn(lists) : Part(m) = part}}
  <2>1. ASSUME NEW key \in DOMAIN dict
        PROVE  \E m \in MetricsIn(lists) : Part(m) = part /\ Key(m) = key
    <3>1. PartOf(key) = part /\ Shows(dict[key], AllTotals(lists, key), AllTimes(lists, key))
      BY DEF Stands, Shown
    <3>2. dict[key].max \in AllTimes(lists, key)
      BY <3>1 DEF Shows
    <3>3. PICK m \in MetricsIn(lists) : Key(m) = key
      BY <1>4, <3>2
    <3> QED
      BY <3>1, <3>3, PartIsOfKey
  <2>2. ASSUME NEW m \in MetricsIn(lists), Part(m) = part PROVE Key(m) \in DOMAIN dict
    <3>1. PICK key : key = Key(m)
      OBVIOUS
    <3>2. PartOf(key) = part
      BY <2>2, <3>1, PartIsOfKey
    <3>3. m.duration \in AllTimes(lists, key)
      BY <1>4, <3>1
    <3>4. Shown(dict, key, AllTotals(lists, key), AllTimes(lists, key))
      BY <3>2 DEF Stands
    <3> QED
      BY <3>1, <3>3, <3>4 DEF Shown
  <2> QED
    BY <2>1, <2>2
<1>6. ASSUME NEW key \in DOMAIN dict PROVE Exact(dict[key], lists, key)
  <2>1. PICK times : times = AllTimes(lists, key)
    OBVIOUS
  <2>2. PICK p : p = dict[key]
    OBVIOUS
  <2>3. Shows(p, AllTotals(lists, key), times)
    BY <2>1, <2>2 DEF Stands, Shown
  <2>4. \A f \in Fields : p[f] = Amounts(lists, key, f)
    BY <2>3 DEF Shows, AllTotals
  <2>5. /\ p.max \in times /\ \A t \in times : t <= p.max
        /\ p.min \in times /\ (0 \notin times => \A t \in times : p.min <= t)
    BY <2>3 DEF Shows
  <2>6. times = {m.duration : m \in {m \in MetricsIn(lists) : Key(m) = key}}
    BY <1>4, <2>1
  <2>7. \A f \in {"count", "total", "exclusive", "squares"} : p[f] = Amounts(lists, key, f)
    BY <2>4 DEF Fields
  <2> QED
    BY <2>2, <2>5, <2>6, <2>7 DEF Exact
<1> QED
  BY <1>5, <1>6 DEF AllExact

-----------------------------------------------------------------------------
(* Sums over sets.                                                         *)

(* What is left of a finite set without an element.                        *)
LEMMA LeftOver ==
    ASSUME NEW set, IsFiniteSet(set)
    PROVE  /\ set \in SUBSET set /\ Cardinality(set) \in Nat
           /\ \A s \in SUBSET set :
                 /\ IsFiniteSet(s) /\ Cardinality(s) \in Nat /\ (Cardinality(s) = 0 <=> s = {})
                 /\ \A x \in s : s \ {x} \in SUBSET set /\ Cardinality(s \ {x}) = Cardinality(s) - 1
<1>1. Cardinality(set) \in Nat
  BY FS_CardinalityType
<1>2. ASSUME NEW s \in SUBSET set
      PROVE  /\ IsFiniteSet(s) /\ Cardinality(s) \in Nat /\ (Cardinality(s) = 0 <=> s = {})
             /\ \A x \in s : s \ {x} \in SUBSET set /\ Cardinality(s \ {x}) = Cardinality(s) - 1
  <2>1. IsFiniteSet(s)
    BY FS_Subset
  <2>2. Cardinality(s) \in Nat /\ (Cardinality(s) = 0 <=> s = {})
    BY <2>1, FS_CardinalityType, FS_EmptySet
  <2>3. \A x \in s : Cardinality(s \ {x}) = Cardinality(s) - 1
    BY <2>1, FS_RemoveElement
  <2> QED
    BY <2>1, <2>2, <2>3
<1> QED
  BY <1>1, <1>2

(* A sum over every subset: an element is added to what is left, whichever *)
(* is taken first.                                                         *)
AddsUp(sum, set, number) ==
    /\ \A s \in SUBSET set : sum[s] \in Nat
    /\ sum[{}] = 0
    /\ \A s \in SUBSET set : \A x \in s : sum[s] = number[x] + sum[s \ {x}]

Numbered(set, number) == IsFiniteSet(set) /\ \A x \in set : number[x] \in Nat

(* The recursion of SumOver takes an element that is chosen.               *)
SumsTo(sum, s, number) ==
    sum[s] = IF s = {} THEN 0 ELSE LET x == CHOOSE x \in s : TRUE IN number[x] + sum[s \ {x}]

LEMMA SumsExist ==
    ASSUME NEW set, NEW number, Numbered(set, number)
    PROVE  \E f \in [SUBSET set -> Nat] : \A s \in SUBSET set : SumsTo(f, s, number)
<1>1. /\ set \in SUBSET set /\ Cardinality(set) \in Nat
      /\ \A s \in SUBSET set :
            /\ IsFiniteSet(s) /\ Cardinality(s) \in Nat /\ (Cardinality(s) = 0 <=> s = {})
            /\ \A x \in s : s \ {x} \in SUBSET set /\ Cardinality(s \ {x}) = Cardinality(s) - 1
  BY LeftOver DEF Numbered
<1> DEFINE Good(f, n) ==
      /\ f \in [SUBSET set -> Nat]
      /\ \A s \in SUBSET set : Cardinality(s) <= n => SumsTo(f, s, number)
<1> DEFINE T == {n \in Nat : \E f : Good(f, n)}
<1>2. 0 \in T
  <2> DEFINE f == [s \in SUBSET set |-> 0]
  <2>1. f \in [SUBSET set -> Nat]
    OBVIOUS
  <2>2. ASSUME NEW s \in SUBSET set, Cardinality(s) <= 0 PROVE SumsTo(f, s, number)
    <3>1. s = {} /\ f[s] = 0
      BY <1>1, <2>2
    <3> QED
      BY <3>1 DEF SumsTo
  <2>3. Good(f, 0)
    BY <2>1, <2>2
  <2> QED
    BY <2>3
<1>3. ASSUME NEW n \in Nat, n \in T PROVE n + 1 \in T
  <2>1. PICK f : Good(f, n)
    BY <1>3
  <2> DEFINE pick(s) == CHOOSE x \in s : TRUE
             g == [s \in SUBSET set |->
                     IF Cardinality(s) = n + 1 THEN number[pick(s)] + f[s \ {pick(s)}] ELSE f[s]]
  <2>2. ASSUME NEW s \in SUBSET set, Cardinality(s) = n + 1
        PROVE  /\ pick(s) \in s /\ number[pick(s)] \in Nat
               /\ s \ {pick(s)} \in SUBSET set /\ Cardinality(s \ {pick(s)}) = n
    <3>1. s # {}
      BY <1>1, <2>2
    <3>2. PICK x \in s : x = pick(s)
      BY <3>1
    <3>3. x \in set /\ number[x] \in Nat
      BY <3>2 DEF Numbered
    <3>4. s \ {x} \in SUBSET set /\ Cardinality(s \ {x}) = Cardinality(s) - 1
      BY <1>1, <3>2
    <3>5. Cardinality(s \ {x}) = n
      BY <2>2, <3>4
    <3> HIDE DEF pick
    <3> QED
      BY <3>2, <3>3, <3>4, <3>5
  <2>3. g \in [SUBSET set -> Nat]
    BY <2>1, <2>2
  <2>4. ASSUME NEW s \in SUBSET set, Cardinality(s) <= n + 1 PROVE SumsTo(g, s, number)
    <3>1. CASE Cardinality(s) = n + 1
      <4>1. s # {} /\ g[s] = number[pick(s)] + f[s \ {pick(s)}]
        BY <1>1, <3>1
      <4>2. g[s \ {pick(s)}] = f[s \ {pick(s)}]
        BY <2>2, <3>1
      <4> QED
        BY <4>1, <4>2 DEF SumsTo
    <3>2. CASE Cardinality(s) # n + 1
      <4>1. Cardinality(s) \in Nat /\ Cardinality(s) <= n
        BY <1>1, <2>4, <3>2
      <4>2. g[s] = f[s] /\ SumsTo(f, s, number)
        BY <2>1, <3>2, <4>1
      <4>3. CASE s = {}
        BY <4>2, <4>3 DEF SumsTo
      <4>4. CASE s # {}
        <5>1. PICK x \in s : x = pick(s)
          BY <4>4
        <5>2. s \ {x} \in SUBSET set /\ Cardinality(s \ {x}) = Cardinality(s) - 1
          BY <1>1, <5>1
        <5>4. Cardinality(s \ {x}) # n + 1
          BY <4>1, <5>2
        <5>5. PICK r \in SUBSET set : r = s \ {x}
          BY <5>2
        <5>6. g[r] = f[r]
          BY <5>4, <5>5
        <5>3. g[s \ {pick(s)}] = f[s \ {pick(s)}]
          BY <5>1, <5>5, <5>6
        <5> QED
          BY <4>2, <4>4, <5>3 DEF SumsTo
      <4> QED
        BY <4>3, <4>4
    <3> QED
      BY <3>1, <3>2
  <2>5. Good(g, n + 1)
    BY <2>3, <2>4
  <2> HIDE DEF g, Good
  <2> QED
    BY <2>5
<1>4. Cardinality(set) \in T
  <2> HIDE DEF T
  <2> QED
    BY <1>1, <1>2, <1>3, SetInduction
<1>5. PICK f : Good(f, Cardinality(set))
  BY <1>4
<1>6. \A s \in SUBSET set : Cardinality(s) <= Cardinality(set)
  BY FS_Subset DEF Numbered
<1> QED
  BY <1>5, <1>6

LEMMA SumOverAddsUp ==
    ASSUME NEW set, NEW number, Numbered(set, number)
    PROVE  \E sum : AddsUp(sum, set, number) /\ SumOver(set, number) = sum[set]
<1>1. /\ set \in SUBSET set /\ Cardinality(set) \in Nat
      /\ \A s \in SUBSET set :
            /\ IsFiniteSet(s) /\ Cardinality(s) \in Nat /\ (Cardinality(s) = 0 <=> s = {})
            /\ \A x \in s : s \ {x} \in SUBSET set /\ Cardinality(s \ {x}) = Cardinality(s) - 1
  BY LeftOver DEF Numbered
<1>2. PICK f : /\ f \in [SUBSET set -> Nat]
               /\ \A s \in SUBSET set : SumsTo(f, s, number)
  BY SumsExist
<1> DEFINE Unfold(h) ==
      [s \in SUBSET set |->
         IF s = {} THEN 0 ELSE LET x == CHOOSE x \in s : TRUE IN number[x] + h[s \ {x}]]
<1>3. f = Unfold(f)
  BY <1>2 DEF SumsTo
<1> DEFINE sum == CHOOSE h : h = Unfold(h)
<1>4. sum = Unfold(sum)
  BY <1>3
<1>5. SumOver(set, number) = sum[set]
  BY DEF SumOver
<1> HIDE DEF sum
<1>6. \A s \in SUBSET set : SumsTo(sum, s, number)
  BY <1>4 DEF SumsTo
<1>7. sum[{}] = 0
  BY <1>6 DEF SumsTo
<1> DEFINE pick(s) == CHOOSE x \in s : TRUE
<1>8. ASSUME NEW s \in SUBSET set, s # {}
      PROVE  pick(s) \in s /\ sum[s] = number[pick(s)] + sum[s \ {pick(s)}]
  BY <1>6, <1>8 DEF SumsTo
<1> HIDE DEF pick
<1> DEFINE Right(s) == sum[s] \in Nat /\ \A x \in s : sum[s] = number[x] + sum[s \ {x}]
<1> DEFINE T == {n \in Nat : \A s \in SUBSET set : Cardinality(s) <= n => Right(s)}
<1>9. 0 \in T
  <2>1. Right({})
    BY <1>7
  <2>2. \A s \in SUBSET set : Cardinality(s) <= 0 => s = {}
    BY <1>1
  <2> QED
    BY <2>1, <2>2
<1>10. ASSUME NEW n \in Nat, n \in T PROVE n + 1 \in T
  <2> SUFFICES ASSUME NEW s \in SUBSET set, Cardinality(s) <= n + 1 PROVE Right(s)
    OBVIOUS
  <2>1. CASE s = {}
    BY <1>7, <2>1
  <2>2. CASE s # {}
    <3>1. PICK x \in s : sum[s] = number[x] + sum[s \ {x}]
      BY <1>8, <2>2
    <3>2. ASSUME NEW y \in s
          PROVE  s \ {y} \in SUBSET set /\ Right(s \ {y}) /\ number[y] \in Nat
      <4>1. PICK r \in SUBSET set : r = s \ {y} /\ Cardinality(r) = Cardinality(s) - 1
        BY <1>1
      <4>2. Cardinality(r) <= n
        BY <1>1, <4>1
      <4>3. Right(r)
        BY <1>10, <4>2
      <4>4. y \in set
        OBVIOUS
      <4>5. number[y] \in Nat
        BY <4>4 DEF Numbered
      <4> QED
        BY <4>1, <4>3, <4>5
    <3>3. sum[s \ {x}] \in Nat /\ number[x] \in Nat
      BY <3>2
    <3>4. sum[s] \in Nat
      BY <3>1, <3>3
    <3>5. ASSUME NEW y \in s, y # x PROVE sum[s] = number[y] + sum[s \ {y}]
      <4>1. PICK a \in SUBSET set : a = s \ {x} /\ Right(a) /\ y \in a
        BY <3>2, <3>5
      <4>2. PICK b \in SUBSET set : b = s \ {y} /\ Right(b) /\ x \in b
        BY <3>2, <3>5
      <4>3. PICK r \in SUBSET set : r = a \ {y} /\ r = b \ {x}
        BY <4>1, <4>2
      <4>4. Cardinality(a) = Cardinality(s) - 1 /\ Cardinality(r) = Cardinality(a) - 1
        BY <1>1, <4>1, <4>3
      <4>5. Cardinality(r) <= n
        BY <1>1, <4>4
      <4>6. Right(r)
        BY <1>10, <4>5
      <4>7. sum[a] = number[y] + sum[r] /\ sum[b] = number[x] + sum[r]
        BY <4>1, <4>2, <4>3
      <4>8. sum[r] \in Nat /\ number[x] \in Nat /\ number[y] \in Nat
        BY <3>2, <4>6
      <4> QED
        BY <3>1, <4>1, <4>2, <4>7, <4>8
    <3> QED
      BY <3>1, <3>4, <3>5
  <2> QED
    BY <2>1, <2>2
<1>11. \A n \in Nat : n \in T
  <2> HIDE DEF T
  <2> QED
    BY <1>9, <1>10, SetInduction
<1>12. ASSUME NEW s \in SUBSET set PROVE Right(s)
  <2>1. Cardinality(s) \in Nat /\ Cardinality(s) <= Cardinality(s)
    BY <1>1
  <2>2. Cardinality(s) \in T
    BY <1>11, <2>1
  <2> QED
    BY <2>1, <2>2
<1>13. AddsUp(sum, set, number)
  BY <1>7, <1>12 DEF AddsUp
<1> QED
  BY <1>5, <1>13

(* Sums over two sets are the sum over both, when the numbers of what is   *)
(* in both are added.                                                      *)
Both(A, f, B, g, h) ==
    /\ Numbered(A, f) /\ Numbered(B, g)
    /\ \A x \in A \cup B : h[x] = (IF x \in A THEN f[x] ELSE 0) + IF x \in B THEN g[x] ELSE 0

LEMMA SumOverBoth ==
    ASSUME NEW A, NEW f, NEW B, NEW g, NEW h, Both(A, f, B, g, h)
    PROVE  SumOver(A \cup B, h) = SumOver(A, f) + SumOver(B, g)
<1>1. Numbered(A, f) /\ Numbered(B, g)
  BY DEF Both
<1>2. PICK C : C = A \cup B
  OBVIOUS
<1>3. IsFiniteSet(C)
  BY <1>1, <1>2, FS_Union DEF Numbered
<1>4. ASSUME NEW x \in C
      PROVE  /\ h[x] \in Nat
             /\ x \in A => f[x] \in Nat
             /\ x \in B => g[x] \in Nat
             /\ h[x] = (IF x \in A THEN f[x] ELSE 0) + IF x \in B THEN g[x] ELSE 0
  BY <1>1, <1>2 DEF Numbered, Both
<1>5. Numbered(C, h)
  BY <1>3, <1>4 DEF Numbered
<1>6. PICK a : AddsUp(a, A, f) /\ SumOver(A, f) = a[A]
  BY <1>1, SumOverAddsUp
<1>7. PICK b : AddsUp(b, B, g) /\ SumOver(B, g) = b[B]
  BY <1>1, SumOverAddsUp
<1>8. PICK c : AddsUp(c, C, h) /\ SumOver(C, h) = c[C]
  BY <1>5, SumOverAddsUp
<1>9. /\ C \in SUBSET C /\ Cardinality(C) \in Nat
      /\ \A s \in SUBSET C :
            /\ IsFiniteSet(s) /\ Cardinality(s) \in Nat /\ (Cardinality(s) = 0 <=> s = {})
            /\ \A x \in s : s \ {x} \in SUBSET C /\ Cardinality(s \ {x}) = Cardinality(s) - 1
  BY <1>3, LeftOver
<1> DEFINE Right(s) == c[s] = a[s \cap A] + b[s \cap B]
<1> DEFINE T == {n \in Nat : \A s \in SUBSET C : Cardinality(s) = n => Right(s)}
<1>10. 0 \in T
  <2>1. {} \cap A = {} /\ {} \cap B = {} /\ c[{}] = 0 /\ a[{}] = 0 /\ b[{}] = 0
    BY <1>6, <1>7, <1>8 DEF AddsUp
  <2>2. Right({})
    BY <2>1
  <2> QED
    BY <1>9, <2>2
<1>11. ASSUME NEW n \in Nat, n \in T PROVE n + 1 \in T
  <2> SUFFICES ASSUME NEW s \in SUBSET C, Cardinality(s) = n + 1 PROVE Right(s)
    OBVIOUS
  <2>1. PICK x \in s : TRUE
    BY <1>9
  <2>2. PICK r \in SUBSET C : r = s \ {x} /\ Cardinality(r) = Cardinality(s) - 1
    BY <1>9, <2>1
  <2>3. Cardinality(r) = n
    BY <2>2
  <2>4. Right(r)
    BY <1>11, <2>3
  <2>5. c[s] = h[x] + c[r]
    BY <1>8, <2>1, <2>2 DEF AddsUp
  <2>6. PICK p \in SUBSET A : p = r \cap A
    OBVIOUS
  <2>7. PICK q \in SUBSET B : q = r \cap B
    OBVIOUS
  <2>8. a[p] \in Nat /\ b[q] \in Nat
    BY <1>6, <1>7 DEF AddsUp
  <2>9. a[s \cap A] = (IF x \in A THEN f[x] ELSE 0) + a[p]
    <3>1. CASE x \in A
      <4>1. PICK t \in SUBSET A : t = s \cap A
        OBVIOUS
      <4>2. x \in t /\ t \ {x} = p
        BY <2>1, <2>2, <2>6, <3>1, <4>1
      <4>3. a[t] = f[x] + a[p]
        BY <1>6, <4>2 DEF AddsUp
      <4> QED
        BY <3>1, <4>1, <4>3
    <3>2. CASE x \notin A
      <4>1. s \cap A = p
        BY <2>2, <2>6, <3>2
      <4> QED
        BY <2>8, <3>2, <4>1
    <3> QED
      BY <3>1, <3>2
  <2>10. b[s \cap B] = (IF x \in B THEN g[x] ELSE 0) + b[q]
    <3>1. CASE x \in B
      <4>1. PICK t \in SUBSET B : t = s \cap B
        OBVIOUS
      <4>2. x \in t /\ t \ {x} = q
        BY <2>1, <2>2, <2>7, <3>1, <4>1
      <4>3. b[t] = g[x] + b[q]
        BY <1>7, <4>2 DEF AddsUp
      <4> QED
        BY <3>1, <4>1, <4>3
    <3>2. CASE x \notin B
      <4>1. s \cap B = q
        BY <2>2, <2>7, <3>2
      <4> QED
        BY <2>8, <3>2, <4>1
    <3> QED
      BY <3>1, <3>2
  <2>11. c[r] = a[p] + b[q]
    BY <2>4, <2>6, <2>7
  <2>12. PICK u \in Nat : u = IF x \in A THEN f[x] ELSE 0
    BY <1>4, <2>1
  <2>13. PICK v \in Nat : v = IF x \in B THEN g[x] ELSE 0
    BY <1>4, <2>1
  <2>14. h[x] = u + v
    BY <1>4, <2>1, <2>12, <2>13
  <2> QED
    BY <2>5, <2>8, <2>9, <2>10, <2>11, <2>12, <2>13, <2>14
<1>12. Cardinality(C) \in T
  <2> HIDE DEF T
  <2> QED
    BY <1>9, <1>10, <1>11, SetInduction
<1>13. C \cap A = A /\ C \cap B = B
  BY <1>2
<1>14. c[C] = a[A] + b[B]
  BY <1>9, <1>12, <1>13
<1> QED
  BY <1>2, <1>6, <1>7, <1>8, <1>14

(* Sums of nothing, and of one number.                                     *)
LEMMA SumOverFew ==
    /\ \A f : Numbered({}, f) /\ SumOver({}, f) = 0
    /\ \A x, f : f[x] \in Nat => Numbered({x}, f) /\ SumOver({x}, f) = f[x]
<1>1. ASSUME NEW f PROVE Numbered({}, f) /\ SumOver({}, f) = 0
  <2>1. Numbered({}, f)
    BY FS_EmptySet DEF Numbered
  <2>2. PICK a : AddsUp(a, {}, f) /\ SumOver({}, f) = a[{}]
    BY <2>1, SumOverAddsUp
  <2> QED
    BY <2>1, <2>2 DEF AddsUp
<1>2. ASSUME NEW x, NEW f, f[x] \in Nat PROVE Numbered({x}, f) /\ SumOver({x}, f) = f[x]
  <2>1. Numbered({x}, f)
    BY <1>2, FS_Singleton DEF Numbered
  <2>2. PICK a : AddsUp(a, {x}, f) /\ SumOver({x}, f) = a[{x}]
    BY <2>1, SumOverAddsUp
  <2>3. a[{x}] = f[x] + a[{x} \ {x}] /\ {x} \ {x} = {} /\ a[{}] = 0
    BY <2>2 DEF AddsUp
  <2> QED
    BY <1>2, <2>1, <2>2, <2>3
<1> QED
  BY <1>1, <1>2

-----------------------------------------------------------------------------
(* The own times in a dictionary of packets.                               *)

PacketDict(dict) ==
    /\ IsFiniteSet(DOMAIN dict) /\ dict = [key \in DOMAIN dict |-> dict[key]]
    /\ \A key \in DOMAIN dict : dict[key] \in TimePackets

PartsOf(dict, path) == {key \in DOMAIN dict : key[2] = path}
OwnOf(dict, path) == [key \in PartsOf(dict, path) |-> dict[key].exclusive]
ShareOf(dict, path) == SumOver(PartsOf(dict, path), OwnOf(dict, path))

LEMMA OwnIsNumbered ==
    ASSUME NEW dict, PacketDict(dict), NEW path
    PROVE  /\ Numbered(PartsOf(dict, path), OwnOf(dict, path))
           /\ ShareOf(dict, path) \in Nat
<1>1. IsFiniteSet(PartsOf(dict, path))
  BY FS_Subset DEF PacketDict, PartsOf
<1>2. \A key \in PartsOf(dict, path) : OwnOf(dict, path)[key] \in Nat
  BY DEF PacketDict, PartsOf, OwnOf, TimePackets
<1>3. Numbered(PartsOf(dict, path), OwnOf(dict, path))
  BY <1>1, <1>2 DEF Numbered
<1>4. PICK a : /\ AddsUp(a, PartsOf(dict, path), OwnOf(dict, path))
               /\ SumOver(PartsOf(dict, path), OwnOf(dict, path)) = a[PartsOf(dict, path)]
  BY <1>3, SumOverAddsUp
<1> QED
  BY <1>3, <1>4 DEF AddsUp, ShareOf

LEMMA NoShare == PacketDict(EmptyDict) /\ \A path : ShareOf(EmptyDict, path) = 0
<1>1. DOMAIN EmptyDict = {} /\ EmptyDict = [key \in DOMAIN EmptyDict |-> EmptyDict[key]]
  BY DEF EmptyDict
<1>2. PacketDict(EmptyDict)
  BY <1>1, FS_EmptySet DEF PacketDict
<1>3. \A path : PartsOf(EmptyDict, path) = {}
  BY <1>1 DEF PartsOf
<1> QED
  BY <1>2, <1>3, SumOverFew DEF ShareOf

(* A packet merged, or a metric, adds its own time to its share.           *)
LEMMA MergeShares ==
    ASSUME NEW mine, PacketDict(mine), NEW theirs, PacketDict(theirs)
    PROVE  /\ PacketDict(MergeDict(mine, theirs, MergeTimes))
           /\ \A path : ShareOf(MergeDict(mine, theirs, MergeTimes), path)
                          = ShareOf(mine, path) + ShareOf(theirs, path)
<1>1. PICK new : new = MergeDict(mine, theirs, MergeTimes)
  OBVIOUS
<1>2. /\ DOMAIN new = DOMAIN mine \cup DOMAIN theirs
      /\ new = [key \in DOMAIN new |-> new[key]]
      /\ \A key \in DOMAIN new :
            new[key] = IF key \notin DOMAIN theirs THEN mine[key]
                       ELSE IF key \notin DOMAIN mine THEN theirs[key]
                       ELSE MergeTimes(mine[key], theirs[key])
  BY <1>1 DEF MergeDict
<1>3. ASSUME NEW p \in TimePackets, NEW q \in TimePackets
      PROVE  /\ MergeTimes(p, q) \in TimePackets
             /\ MergeTimes(p, q).exclusive = p.exclusive + q.exclusive
  BY DEF MergeTimes, TimePackets, Greater, Lower, Smaller
<1>4. ASSUME NEW key \in DOMAIN new
      PROVE  /\ new[key] \in TimePackets
             /\ new[key].exclusive = (IF key \in DOMAIN mine THEN mine[key].exclusive ELSE 0)
                                     + IF key \in DOMAIN theirs THEN theirs[key].exclusive ELSE 0
  <2>1. /\ key \in DOMAIN mine => mine[key] \in TimePackets /\ mine[key].exclusive \in Nat
        /\ key \in DOMAIN theirs => theirs[key] \in TimePackets /\ theirs[key].exclusive \in Nat
    BY DEF PacketDict, TimePackets
  <2>2. CASE key \in DOMAIN mine /\ key \in DOMAIN theirs
    <3>1. PICK p \in TimePackets : p = mine[key]
      BY <2>1, <2>2
    <3>2. PICK q \in TimePackets : q = theirs[key]
      BY <2>1, <2>2
    <3>3. new[key] = MergeTimes(p, q)
      BY <1>2, <2>2, <3>1, <3>2
    <3> QED
      BY <1>3, <2>2, <3>1, <3>2, <3>3
  <2>3. CASE key \in DOMAIN mine /\ key \notin DOMAIN theirs
    BY <1>2, <2>1, <2>3
  <2>4. CASE key \notin DOMAIN mine /\ key \in DOMAIN theirs
    BY <1>2, <2>1, <2>4
  <2> QED
    BY <1>2, <2>2, <2>3, <2>4
<1>5. IsFiniteSet(DOMAIN new)
  <2>1. PICK A : A = DOMAIN mine /\ IsFiniteSet(A)
    BY DEF PacketDict
  <2>2. PICK B : B = DOMAIN theirs /\ IsFiniteSet(B)
    BY DEF PacketDict
  <2>3. IsFiniteSet(A \cup B)
    BY <2>1, <2>2, FS_Union
  <2> QED
    BY <1>2, <2>1, <2>2, <2>3
<1>6. PacketDict(new)
  BY <1>2, <1>4, <1>5 DEF PacketDict
<1>7. ASSUME NEW path PROVE ShareOf(new, path) = ShareOf(mine, path) + ShareOf(theirs, path)
  <2>1. PICK A : A = PartsOf(mine, path)
    OBVIOUS
  <2>2. PICK B : B = PartsOf(theirs, path)
    OBVIOUS
  <2>3. PICK f : f = OwnOf(mine, path)
    OBVIOUS
  <2>4. PICK g : g = OwnOf(theirs, path)
    OBVIOUS
  <2>5. PICK h : h = OwnOf(new, path)
    OBVIOUS
  <2>6. PartsOf(new, path) = A \cup B
    BY <1>2, <2>1, <2>2 DEF PartsOf
  <2>7. ASSUME NEW x \in A \cup B
        PROVE  h[x] = (IF x \in A THEN f[x] ELSE 0) + IF x \in B THEN g[x] ELSE 0
    <3>1. /\ x \in DOMAIN new /\ x[2] = path
          /\ x \in A <=> x \in DOMAIN mine
          /\ x \in B <=> x \in DOMAIN theirs
      BY <1>2, <2>1, <2>2 DEF PartsOf
    <3>2. h[x] = new[x].exclusive
      BY <2>5, <2>6 DEF OwnOf
    <3>3. x \in A => f[x] = mine[x].exclusive
      BY <2>1, <2>3 DEF OwnOf
    <3>4. x \in B => g[x] = theirs[x].exclusive
      BY <2>2, <2>4 DEF OwnOf
    <3> QED
      BY <1>4, <3>1, <3>2, <3>3, <3>4
  <2>8. Numbered(A, f) /\ Numbered(B, g)
    BY <2>1, <2>2, <2>3, <2>4, OwnIsNumbered
  <2>9. Both(A, f, B, g, h)
    BY <2>7, <2>8 DEF Both
  <2>10. SumOver(A \cup B, h) = SumOver(A, f) + SumOver(B, g)
    BY <2>9, SumOverBoth
  <2> QED
    BY <2>1, <2>2, <2>3, <2>4, <2>5, <2>6, <2>10 DEF ShareOf
<1> QED
  BY <1>1, <1>6, <1>7

OwnIf(m, path) == IF Key(m)[2] = path THEN m.exclusive ELSE 0

LEMMA RecordShare ==
    ASSUME NEW dict, PacketDict(dict), NEW m, Timed(m)
    PROVE  /\ PacketDict(RecordTime(dict, m))
           /\ \A path : ShareOf(RecordTime(dict, m), path) = ShareOf(dict, path) + OwnIf(m, path)
<1>1. PICK one : one = MergeTime(NoTime, m.duration, m.exclusive)
  OBVIOUS
<1>2. PICK key : key = Key(m)
  OBVIOUS
<1>3. PICK new : new = RecordTime(dict, m)
  OBVIOUS
<1>4. PICK single : single = Put(EmptyDict, key, one)
  OBVIOUS
<1>5. /\ DOMAIN single = {key} /\ single = [k \in {key} |-> one] /\ single[key] = one
  <2>1. DOMAIN EmptyDict = {}
    BY DEF EmptyDict
  <2> QED
    BY <1>4, <2>1 DEF Put
<1>6. /\ one \in TimePackets /\ one.exclusive = m.exclusive
      /\ \A p \in TimePackets : MergeTime(p, m.duration, m.exclusive) = MergeTimes(p, one)
  <2>1. Shows(one, Numbers(m), {m.duration})
    BY <1>1, OneShows
  <2>2. one[ "exclusive" ] = Numbers(m)[ "exclusive" ]
    BY <2>1 DEF Shows, Fields
  <2>3. Numbers(m)[ "exclusive" ] = m.exclusive
    BY DEF Numbers
  <2> QED
    BY <1>1, <2>1, <2>2, <2>3, OneShows DEF Shows
<1>7. PacketDict(single)
  BY <1>5, <1>6, FS_Singleton DEF PacketDict
<1>8. new = MergeDict(dict, single, MergeTimes)
  <2>1. PICK p : p = MergeTime(Get(dict, key, NoTime), m.duration, m.exclusive)
    OBVIOUS
  <2>2. new = [k \in DOMAIN dict \cup {key} |-> IF k = key THEN p ELSE dict[k]]
    BY <1>2, <1>3, <2>1 DEF RecordTime, Put
  <2>3. key \in DOMAIN dict => p = MergeTimes(dict[key], one)
    BY <1>6, <2>1 DEF PacketDict, Get
  <2>4. key \notin DOMAIN dict => p = one
    BY <1>1, <2>1 DEF Get
  <2>5. ASSUME NEW k \in DOMAIN dict \cup {key}
        PROVE  (IF k = key THEN p ELSE dict[k])
                 = IF k \notin {key} THEN dict[k]
                   ELSE IF k \notin DOMAIN dict THEN single[k]
                   ELSE MergeTimes(dict[k], single[k])
    BY <1>5, <2>3, <2>4
  <2> QED
    BY <1>5, <2>2, <2>5 DEF MergeDict
<1>9. ASSUME NEW path PROVE ShareOf(single, path) = OwnIf(m, path)
  <2>1. CASE key[2] = path
    <3>1. PartsOf(single, path) = {key}
      BY <1>5, <2>1 DEF PartsOf
    <3>2. OwnOf(single, path)[key] = m.exclusive
      BY <1>5, <1>6, <3>1 DEF OwnOf
    <3>3. m.exclusive \in Nat
      BY DEF Timed
    <3>4. PICK f : f = OwnOf(single, path)
      OBVIOUS
    <3>5. SumOver({key}, f) = f[key]
      BY <3>2, <3>3, <3>4, SumOverFew
    <3> QED
      BY <1>2, <2>1, <3>1, <3>2, <3>4, <3>5 DEF ShareOf, OwnIf
  <2>2. CASE key[2] # path
    <3>1. PartsOf(single, path) = {}
      BY <1>5, <2>2 DEF PartsOf
    <3> QED
      BY <1>2, <2>2, <3>1, SumOverFew DEF ShareOf, OwnIf
  <2> QED
    BY <2>1, <2>2
<1>10. /\ PacketDict(new)
       /\ \A path : ShareOf(new, path) = ShareOf(dict, path) + ShareOf(single, path)
  BY <1>7, <1>8, MergeShares
<1> QED
  BY <1>3, <1>9, <1>10

(* The own times of the first metrics of a list.                           *)
OwnInPart(m, part, path) == IF Part(m) = part THEN OwnIf(m, path) ELSE 0

OwnUpto(l, i, part, path) == Sum([j \in 1 .. i |-> OwnInPart(l[j], part, path)])

LEMMA OwnUptoIs ==
    ASSUME NEW l, TimedList(l), NEW part, NEW path
    PROVE  /\ OwnUpto(l, 0, part, path) = 0
           /\ \A i \in 1 .. Len(l) :
                 OwnUpto(l, i, part, path)
                   = OwnUpto(l, i - 1, part, path) + OwnInPart(l[i], part, path)
<1>1. PICK n \in Nat : n = Len(l) /\ \A j \in 1 .. n : Timed(l[j])
  BY TimedListIs
<1>2. OwnUpto(l, 0, part, path) = 0
  <2>1. PICK x : x = [j \in 1 .. 0 |-> OwnInPart(l[j], part, path)]
    OBVIOUS
  <2>2. x \in Row(0)
    BY <2>1 DEF Row
  <2> QED
    BY <2>1, <2>2, SumOfNone DEF OwnUpto
<1>3. ASSUME NEW i \in 1 .. n
      PROVE  OwnUpto(l, i, part, path)
               = OwnUpto(l, i - 1, part, path) + OwnInPart(l[i], part, path)
  <2>1. PICK k \in Nat : k = i - 1 /\ k + 1 = i
    OBVIOUS
  <2>2. PICK x : x = [j \in 1 .. k |-> OwnInPart(l[j], part, path)]
    OBVIOUS
  <2>3. PICK y : y = [j \in 1 .. k + 1 |-> OwnInPart(l[j], part, path)]
    OBVIOUS
  <2>4. \A j \in 1 .. k + 1 : OwnInPart(l[j], part, path) \in Nat
    BY <1>1, <2>1 DEF Timed, OwnInPart, OwnIf
  <2>5. x \in Row(k) /\ y \in Row(k + 1) /\ \A j \in 1 .. k : y[j] = x[j]
    BY <2>2, <2>3, <2>4 DEF Row
  <2>6. Sum(y) = Sum(x) + y[k + 1]
    BY <2>5, SumOfMore
  <2>7. y[k + 1] = OwnInPart(l[i], part, path)
    BY <2>1, <2>3
  <2>8. Sum(x) = OwnUpto(l, i - 1, part, path) /\ Sum(y) = OwnUpto(l, i, part, path)
    BY <2>1, <2>2, <2>3 DEF OwnUpto
  <2> QED
    BY <2>6, <2>7, <2>8
<1> QED
  BY <1>1, <1>2, <1>3

LEMMA RecordTimesShares ==
    ASSUME NEW l, TimedList(l), NEW part
    PROVE  /\ PacketDict(RecordTimes(l, part))
           /\ \A path : ShareOf(RecordTimes(l, part), path) = OwnUpto(l, Len(l), part, path)
<1>1. PICK n \in Nat : n = Len(l) /\ \A j \in 1 .. n : Timed(l[j])
  BY TimedListIs
<1>2. PICK V : V = Dicts({Key(l[i]) : i \in DOMAIN l}, TimePackets)
  OBVIOUS
<1>3. PICK d :
          /\ d[0] = EmptyDict
          /\ \A i \in 1 .. n :
                d[i] = IF Part(l[i]) = part THEN RecordTime(d[i - 1], l[i]) ELSE d[i - 1]
          /\ RecordTimes(l, part) = d[n]
  BY <1>1, <1>2, RecordTimesDefines DEF RecordIn
<1> DEFINE Right(i) == /\ PacketDict(d[i])
                       /\ \A path : ShareOf(d[i], path) = OwnUpto(l, i, part, path)
<1> DEFINE T == {i \in Nat : i <= n => Right(i)}
<1>4. 0 \in T
  <2>1. Right(0)
    BY <1>3, NoShare, OwnUptoIs
  <2> QED
    BY <2>1
<1>5. ASSUME NEW k \in Nat, k \in T PROVE k + 1 \in T
  <2> SUFFICES ASSUME k + 1 <= n PROVE Right(k + 1)
    OBVIOUS
  <2>1. PICK i \in 1 .. n : i = k + 1 /\ i - 1 = k
    OBVIOUS
  <2>2. PICK m : m = l[i] /\ Timed(m)
    BY <1>1
  <2>3. PICK dict : dict = d[k] /\ PacketDict(dict)
    BY <1>5
  <2>4. \A path : ShareOf(dict, path) = OwnUpto(l, k, part, path)
    BY <1>5, <2>3
  <2>5. d[i] = IF Part(m) = part THEN RecordTime(dict, m) ELSE dict
    BY <1>3, <2>1, <2>2, <2>3
  <2>6. \A path : OwnUpto(l, i, part, path)
                    = OwnUpto(l, k, part, path) + OwnInPart(m, part, path)
    BY <1>1, <2>1, <2>2, OwnUptoIs
  <2>7. CASE Part(m) = part
    <3>1. /\ PacketDict(RecordTime(dict, m))
          /\ \A path : ShareOf(RecordTime(dict, m), path) = ShareOf(dict, path) + OwnIf(m, path)
      BY <2>2, <2>3, RecordShare
    <3> QED
      BY <2>1, <2>4, <2>5, <2>6, <2>7, <3>1 DEF OwnInPart
  <2>8. CASE Part(m) # part
    <3>1. \A path : ShareOf(dict, path) \in Nat
      BY <2>3, OwnIsNumbered
    <3>2. \A path : OwnUpto(l, i, part, path) = ShareOf(dict, path)
      BY <2>4, <2>6, <2>8, <3>1 DEF OwnInPart
    <3> QED
      BY <2>1, <2>3, <2>5, <2>8, <3>2
  <2> QED
    BY <2>7, <2>8
<1>6. n \in T
  <2> HIDE DEF T
  <2> QED
    BY <1>4, <1>5, SetInduction
<1> QED
  BY <1>1, <1>3, <1>6

(* The share of a request is its duration.                                 *)
LEMMA SumOfZeros ==
    ASSUME NEW n \in Nat, NEW x \in Row(n), \A i \in 1 .. n : x[i] = 0
    PROVE  Sum(x) = 0
<1>1. Sum(x) \in Nat /\ Sum([i \in 1 .. n |-> x[i] + x[i]]) = Sum(x) + Sum(x)
  BY SumsAdd
<1>2. [i \in 1 .. n |-> x[i] + x[i]] = x
  BY DEF Row
<1> QED
  BY <1>1, <1>2

LEMMA ShareOfRequest ==
    ASSUME TreesAddUp, NEW r \in Finished, NEW path
    PROVE  ShareOf(RecordTimes(r.times, "times"), path) = IF r.path = path THEN r.duration ELSE 0
<1>1. PICK l : l = r.times /\ TimedList(l)
  BY FinishedAssumption DEF TimedList, Timed
<1>2. PICK n \in Nat : n = Len(l) /\ DOMAIN l = 1 .. n /\ \A j \in 1 .. n : Timed(l[j])
  BY <1>1, TimedListIs
<1>3. \A i \in 1 .. n : Part(l[i]) = "times" => Key(l[i])[2] = r.path
  BY <1>1, <1>2 DEF TreesAddUp, Key
<1>4. PICK x : x = [j \in 1 .. n |-> OwnInPart(l[j], "times", path)]
  OBVIOUS
<1>5. x \in Row(n)
  BY <1>2, <1>4 DEF Row, OwnInPart, OwnIf, Timed
<1>6. ShareOf(RecordTimes(l, "times"), path) = Sum(x)
  BY <1>1, <1>2, <1>4, RecordTimesShares DEF OwnUpto
<1>7. CASE r.path = path
  <2>1. x = [j \in 1 .. n |-> IF Part(l[j]) = "times" THEN l[j].exclusive ELSE 0]
    BY <1>3, <1>4, <1>7 DEF OwnInPart, OwnIf
  <2>2. Sum(x) = r.duration
    BY <1>1, <1>2, <2>1 DEF TreesAddUp
  <2> QED
    BY <1>1, <1>6, <1>7, <2>2
<1>8. CASE r.path # path
  <2>1. \A i \in 1 .. n : x[i] = 0
    BY <1>3, <1>4, <1>8 DEF OwnInPart, OwnIf
  <2>2. Sum(x) = 0
    BY <1>5, <2>1, SumOfZeros
  <2> QED
    BY <1>1, <1>6, <1>8, <2>2
<1> QED
  BY <1>7, <1>8

-----------------------------------------------------------------------------
(* The requests since a snapshot.                                          *)

LEMMA PieceIs ==
    ASSUME NEW S, NEW s, NEW n \in Nat, NEW k \in 0 .. n, \A i \in k + 1 .. n : s[i] \in S
    PROVE  /\ SubSeq(s, k + 1, n) \in Seq(S) /\ Len(SubSeq(s, k + 1, n)) = n - k
           /\ \A i \in 1 .. n - k : SubSeq(s, k + 1, n)[i] = s[k + i]
<1>1. PICK m \in Int : m = k + 1
  OBVIOUS
<1>2. \A i \in m .. n : s[i] \in S
  BY <1>1
<1>3. PICK t : t = SubSeq(s, m, n)
  OBVIOUS
<1>4. /\ t \in Seq(S) /\ Len(t) = (IF m <= n THEN n - m + 1 ELSE 0)
      /\ \A i \in 1 .. n - m + 1 : t[i] = s[m + i - 1]
  BY <1>2, <1>3, SubSeqProperties
<1>5. Len(t) = n - k
  BY <1>1, <1>4
<1>6. ASSUME NEW i \in 1 .. n - k PROVE t[i] = s[k + i]
  <2>1. i \in 1 .. n - m + 1 /\ m + i - 1 = k + i
    BY <1>1
  <2> QED
    BY <1>4, <2>1
<1> QED
  BY <1>1, <1>3, <1>4, <1>5, <1>6

(* A request more is one of those since the snapshot, and none in it.      *)
LEMMA RequestsSince ==
    ASSUME NEW S, NEW all \in Seq(S), NEW k \in 0 .. Len(all)
    PROVE  /\ SubSeq(all, k + 1, Len(all)) \in Seq(S)
           /\ SubSeq(all, Len(all) + 1, Len(all)) = << >>
           /\ \A j \in 0 .. k : SubSeq(all, j + 1, k) \in Seq(S)
           /\ \A r \in S :
                 /\ Len(Append(all, r)) = Len(all) + 1
                 /\ SubSeq(Append(all, r), k + 1, Len(all) + 1)
                      = Append(SubSeq(all, k + 1, Len(all)), r)
                 /\ \A j \in 0 .. k : SubSeq(Append(all, r), j + 1, k) = SubSeq(all, j + 1, k)
<1>1. PICK n \in Nat : n = Len(all) /\ k \in 0 .. n /\ \A i \in 1 .. n : all[i] \in S
  BY LenProperties, ElementOfSeq
<1>7. PICK since : since = SubSeq(all, k + 1, n)
  OBVIOUS
<1>2. /\ since \in Seq(S) /\ Len(since) = n - k
      /\ \A i \in 1 .. n - k : since[i] = all[k + i]
  <2>1. \A i \in k + 1 .. n : all[i] \in S
    BY <1>1
  <2> QED
    BY <1>1, <1>7, <2>1, PieceIs
<1>3. SubSeq(all, n + 1, n) = << >>
  BY <1>1, SubSeqEmpty
<1>4. ASSUME NEW j \in 0 .. k, NEW s, \A i \in 1 .. n : s[i] = all[i]
      PROVE  /\ SubSeq(s, j + 1, k) \in Seq(S) /\ Len(SubSeq(s, j + 1, k)) = k - j
             /\ \A i \in 1 .. k - j : SubSeq(s, j + 1, k)[i] = all[j + i]
  <2>1. \A i \in j + 1 .. k : s[i] \in S /\ s[i] = all[i]
    BY <1>1, <1>4
  <2>2. k \in Nat
    BY <1>1
  <2>3. /\ SubSeq(s, j + 1, k) \in Seq(S) /\ Len(SubSeq(s, j + 1, k)) = k - j
        /\ \A i \in 1 .. k - j : SubSeq(s, j + 1, k)[i] = s[j + i]
    BY <2>1, <2>2, PieceIs
  <2>4. \A i \in 1 .. k - j : j + i \in j + 1 .. k
    BY <2>2
  <2> QED
    BY <2>1, <2>3, <2>4
<1>5. ASSUME NEW r \in S
      PROVE  /\ Len(Append(all, r)) = n + 1
             /\ SubSeq(Append(all, r), k + 1, n + 1) = Append(since, r)
             /\ \A j \in 0 .. k : SubSeq(Append(all, r), j + 1, k) = SubSeq(all, j + 1, k)
  <2>1. PICK more : more = Append(all, r)
    OBVIOUS
  <2>2. Len(more) = n + 1 /\ more[n + 1] = r /\ \A i \in 1 .. n : more[i] = all[i]
    BY <1>1, <2>1, AppendProperties
  <2>3. \A i \in k + 1 .. n + 1 : more[i] \in S
    <3>1. ASSUME NEW i \in k + 1 .. n + 1 PROVE more[i] \in S
      <4>1. i \in 1 .. n \/ i = n + 1
        BY <1>1
      <4> QED
        BY <1>1, <2>2, <4>1
    <3> QED
      BY <3>1
  <2>4. PICK m \in Nat : m = n + 1 /\ k \in 0 .. m
    BY <1>1
  <2>12. PICK longer : longer = SubSeq(more, k + 1, m)
    OBVIOUS
  <2>5. /\ longer \in Seq(S) /\ Len(longer) = m - k
        /\ \A i \in 1 .. m - k : longer[i] = more[k + i]
    BY <2>3, <2>4, <2>12, PieceIs
  <2>6. PICK t : t = Append(since, r)
    OBVIOUS
  <2>7. /\ t \in Seq(S) /\ Len(t) = Len(since) + 1
        /\ \A i \in 1 .. Len(since) : t[i] = since[i]
        /\ t[Len(since) + 1] = r
    BY <1>2, <2>6, AppendProperties
  <2>8. Len(t) = m - k /\ Len(since) = n - k /\ m - k = (n - k) + 1
    BY <1>1, <1>2, <2>4, <2>7
  <2>9. ASSUME NEW i \in 1 .. m - k PROVE longer[i] = t[i]
    <3>1. CASE i = (n - k) + 1
      <4>1. k + i = n + 1
        BY <1>1, <3>1
      <4> QED
        BY <2>2, <2>5, <2>7, <2>8, <3>1, <4>1
    <3>2. CASE i # (n - k) + 1
      <4>1. i \in 1 .. n - k /\ k + i \in 1 .. n
        BY <1>1, <2>4, <3>2
      <4> QED
        BY <1>2, <2>2, <2>5, <2>7, <2>8, <4>1
    <3> QED
      BY <3>1, <3>2
  <2>10. longer = t
    BY <2>5, <2>7, <2>8, <2>9, SeqEqual
  <2>11. ASSUME NEW j \in 0 .. k PROVE SubSeq(more, j + 1, k) = SubSeq(all, j + 1, k)
    <3>1. PICK a : a = SubSeq(more, j + 1, k)
      OBVIOUS
    <3>2. PICK b : b = SubSeq(all, j + 1, k)
      OBVIOUS
    <3>3. a \in Seq(S) /\ Len(a) = k - j /\ \A i \in 1 .. k - j : a[i] = all[j + i]
      BY <1>4, <2>2, <3>1
    <3>4. b \in Seq(S) /\ Len(b) = k - j /\ \A i \in 1 .. k - j : b[i] = all[j + i]
      BY <1>4, <3>2
    <3>5. a = b
      BY <3>3, <3>4, SeqEqual
    <3> QED
      BY <3>1, <3>2, <3>5
  <2> QED
    BY <2>1, <2>2, <2>4, <2>6, <2>10, <2>11, <2>12
<1>6. \A j \in 0 .. k : SubSeq(all, j + 1, k) \in Seq(S)
  BY <1>4
<1> QED
  BY <1>1, <1>2, <1>3, <1>5, <1>6, <1>7

-----------------------------------------------------------------------------
(* What is known of requests.                                              *)

LEMMA MetricsAreTimed ==
    ASSUME NEW r \in Finished
    PROVE  TimedList(r.times) /\ TimedList(ActionMetrics(r))
<1>1. TimedList(r.times)
  BY FinishedAssumption DEF TimedList, Timed
<1>2. r.duration \in Nat /\ r.exclusive \in Nat
  BY FinishedAssumption
<1>3. PICK m : m = TimeMetric(<<"root", r.path>>, "", r.duration, r.exclusive)
  OBVIOUS
<1>4. Timed(m)
  BY <1>2, <1>3 DEF Timed, TimeMetric
<1>5. \A x : TimedList(<<x>>) <=> Timed(x)
  BY DEF TimedList, IsList
<1>6. TimedList(<< >>)
  BY DEF TimedList, IsList
<1>7. ActionMetrics(r) \in {<<m>>, << >>}
  BY <1>3 DEF ActionMetrics
<1> QED
  BY <1>1, <1>4, <1>5, <1>6, <1>7

LEMMA ListsOfRequests ==
    ASSUME NEW requests \in Seq(Finished)
    PROVE  /\ TimedLists(TimesOf(requests), Len(requests))
           /\ TimedLists(ActionsOf(requests), Len(requests))
<1>1. PICK n \in Nat : n = Len(requests) /\ \A i \in 1 .. n : requests[i] \in Finished
  BY LenProperties, ElementOfSeq
<1>2. PICK a : a = TimesOf(requests)
  OBVIOUS
<1>3. PICK b : b = ActionsOf(requests)
  OBVIOUS
<1>4. a = [j \in 1 .. n |-> requests[j].times] /\ b = [j \in 1 .. n |-> ActionMetrics(requests[j])]
  BY <1>1, <1>2, <1>3 DEF TimesOf, ActionsOf
<1>5. Len(a) = n /\ Len(b) = n /\ DOMAIN a = 1 .. n /\ DOMAIN b = 1 .. n
  BY <1>4
<1>6. \A j \in 1 .. n : TimedList(a[j]) /\ TimedList(b[j])
  BY <1>1, <1>4, MetricsAreTimed
<1> QED
  BY <1>1, <1>2, <1>3, <1>5, <1>6 DEF TimedLists

LEMMA OneRequestMore ==
    ASSUME NEW requests \in Seq(Finished), NEW r \in Finished
    PROVE  /\ Append(requests, r) \in Seq(Finished)
           /\ Len(Append(requests, r)) = Len(requests) + 1 /\ Len(requests) \in Nat
           /\ \A j \in 1 .. Len(requests) : Append(requests, r)[j] = requests[j]
           /\ Append(requests, r)[Len(requests) + 1] = r
           /\ OneList(TimesOf(requests), TimesOf(Append(requests, r)), Len(requests))
           /\ TimesOf(Append(requests, r))[Len(requests) + 1] = r.times
           /\ OneList(ActionsOf(requests), ActionsOf(Append(requests, r)), Len(requests))
           /\ ActionsOf(Append(requests, r))[Len(requests) + 1] = ActionMetrics(r)
<1>1. PICK n \in Nat : n = Len(requests)
  BY LenProperties
<1>2. PICK more \in Seq(Finished) : more = Append(requests, r)
  BY AppendProperties
<1>3. Len(more) = n + 1 /\ more[n + 1] = r /\ \A j \in 1 .. n : more[j] = requests[j]
  BY <1>1, <1>2, AppendProperties
<1>4. /\ TimesOf(requests) = [j \in 1 .. n |-> requests[j].times]
      /\ TimesOf(more) = [j \in 1 .. n + 1 |-> more[j].times]
      /\ ActionsOf(requests) = [j \in 1 .. n |-> ActionMetrics(requests[j])]
      /\ ActionsOf(more) = [j \in 1 .. n + 1 |-> ActionMetrics(more[j])]
  BY <1>1, <1>3 DEF TimesOf, ActionsOf
<1>5. /\ TimedLists(TimesOf(requests), n) /\ TimedLists(TimesOf(more), n + 1)
      /\ TimedLists(ActionsOf(requests), n) /\ TimedLists(ActionsOf(more), n + 1)
  BY <1>1, <1>3, ListsOfRequests
<1>6. \A j \in 1 .. n : j \in 1 .. n + 1
  OBVIOUS
<1>7. /\ \A j \in 1 .. n : TimesOf(more)[j] = TimesOf(requests)[j]
      /\ \A j \in 1 .. n : ActionsOf(more)[j] = ActionsOf(requests)[j]
      /\ TimesOf(more)[n + 1] = r.times /\ ActionsOf(more)[n + 1] = ActionMetrics(r)
  BY <1>3, <1>4, <1>6
<1>8. /\ OneList(TimesOf(requests), TimesOf(more), n)
      /\ OneList(ActionsOf(requests), ActionsOf(more), n)
  BY <1>5, <1>7 DEF OneList
<1> QED
  BY <1>1, <1>2, <1>3, <1>7, <1>8

(* The durations of the requests of an action.                             *)
AllDurations(requests, path) ==
    LET mine == {j \in DOMAIN requests : requests[j].path = path}
    IN  Sum([j \in 1 .. Len(requests) |-> IF j \in mine THEN requests[j].duration ELSE 0])

DurationIf(r, path) == IF r.path = path THEN r.duration ELSE 0

LEMMA DurationsAre ==
    /\ \A path : AllDurations(<< >>, path) = 0
    /\ \A requests \in Seq(Finished), r \in Finished : \A path :
          AllDurations(Append(requests, r), path)
            = AllDurations(requests, path) + DurationIf(r, path)
<1>1. ASSUME NEW requests \in Seq(Finished), NEW path
      PROVE  /\ AllDurations(requests, path)
                  = Sum([j \in 1 .. Len(requests) |-> DurationIf(requests[j], path)])
             /\ [j \in 1 .. Len(requests) |-> DurationIf(requests[j], path)] \in Row(Len(requests))
  <2>1. PICK n \in Nat : n = Len(requests) /\ DOMAIN requests = 1 .. n
                         /\ \A i \in 1 .. n : requests[i] \in Finished
    BY LenProperties, ElementOfSeq
  <2>2. PICK x : x = [j \in 1 .. n |-> DurationIf(requests[j], path)]
    OBVIOUS
  <2>3. x = [j \in 1 .. n |-> IF j \in {i \in DOMAIN requests : requests[i].path = path}
                                THEN requests[j].duration ELSE 0]
    BY <2>1, <2>2 DEF DurationIf
  <2>4. \A j \in 1 .. n : DurationIf(requests[j], path) \in Nat
    BY <2>1, FinishedAssumption DEF DurationIf
  <2>5. x \in Row(n)
    BY <2>2, <2>4 DEF Row
  <2> QED
    BY <2>1, <2>2, <2>3, <2>5 DEF AllDurations
<1>2. ASSUME NEW path PROVE AllDurations(<< >>, path) = 0
  <2>1. PICK requests : requests = << >>
    OBVIOUS
  <2>2. requests \in Seq(Finished) /\ Len(requests) = 0
    BY <2>1, EmptySeq
  <2>3. PICK x : x = [j \in 1 .. Len(requests) |-> DurationIf(requests[j], path)]
    OBVIOUS
  <2>4. x \in Row(0) /\ AllDurations(requests, path) = Sum(x)
    BY <1>1, <2>2, <2>3
  <2> QED
    BY <2>1, <2>4, SumOfNone
<1>3. ASSUME NEW requests \in Seq(Finished), NEW r \in Finished, NEW path
      PROVE  AllDurations(Append(requests, r), path)
               = AllDurations(requests, path) + DurationIf(r, path)
  <2>1. PICK n \in Nat : n = Len(requests)
    BY LenProperties
  <2>2. PICK more \in Seq(Finished) : more = Append(requests, r)
    BY OneRequestMore
  <2>3. Len(more) = n + 1 /\ more[n + 1] = r /\ \A j \in 1 .. n : more[j] = requests[j]
    BY <2>1, <2>2, OneRequestMore
  <2>4. PICK x : x = [j \in 1 .. n |-> DurationIf(requests[j], path)]
    OBVIOUS
  <2>5. PICK y : y = [j \in 1 .. n + 1 |-> DurationIf(more[j], path)]
    OBVIOUS
  <2>6. x \in Row(n) /\ y \in Row(n + 1)
    BY <1>1, <2>1, <2>3, <2>4, <2>5
  <2>7. AllDurations(requests, path) = Sum(x) /\ AllDurations(more, path) = Sum(y)
    BY <1>1, <2>1, <2>3, <2>4, <2>5
  <2>8. \A j \in 1 .. n : y[j] = x[j]
    <3>1. \A j \in 1 .. n : j \in 1 .. n + 1
      OBVIOUS
    <3> QED
      BY <2>3, <2>4, <2>5, <3>1
  <2>9. y[n + 1] = DurationIf(r, path)
    BY <2>3, <2>5
  <2>10. Sum(y) = Sum(x) + y[n + 1]
    BY <2>6, <2>8, SumOfMore
  <2> QED
    BY <2>2, <2>7, <2>9, <2>10
<1> QED
  BY <1>2, <1>3

(* How many of the requests are of a kind, a set of them.                  *)
Those(requests, S) == {j \in DOMAIN requests : requests[j] \in S}
Count(requests, S) == Cardinality(Those(requests, S))
OneIf(r, S) == IF r \in S THEN 1 ELSE 0

LEMMA CountsAre ==
    /\ \A S : Count(<< >>, S) = 0
    /\ \A requests \in Seq(Finished) : \A S :
          IsFiniteSet(Those(requests, S)) /\ Count(requests, S) \in Nat
    /\ \A requests \in Seq(Finished), r \in Finished : \A S :
          Count(Append(requests, r), S) = Count(requests, S) + OneIf(r, S)
<1>1. ASSUME NEW S PROVE Count(<< >>, S) = 0
  <2>1. Those(<< >>, S) = {}
    BY DEF Those
  <2> QED
    BY <2>1, FS_EmptySet DEF Count
<1>2. ASSUME NEW requests \in Seq(Finished), NEW S
      PROVE  IsFiniteSet(Those(requests, S)) /\ Count(requests, S) \in Nat
  <2>1. PICK n \in Nat : DOMAIN requests = 1 .. n
    BY LenProperties
  <2>2. IsFiniteSet(1 .. n)
    BY FS_Interval
  <2>3. Those(requests, S) \in SUBSET (1 .. n)
    BY <2>1 DEF Those
  <2>4. IsFiniteSet(Those(requests, S))
    BY <2>2, <2>3, FS_Subset
  <2> QED
    BY <2>4, FS_CardinalityType DEF Count
<1>3. ASSUME NEW requests \in Seq(Finished), NEW r \in Finished, NEW S
      PROVE  Count(Append(requests, r), S) = Count(requests, S) + OneIf(r, S)
  <2>1. PICK n \in Nat : n = Len(requests) /\ DOMAIN requests = 1 .. n
    BY LenProperties
  <2>2. PICK more \in Seq(Finished) : more = Append(requests, r)
    BY OneRequestMore
  <2>3. Len(more) = n + 1 /\ more[n + 1] = r /\ \A j \in 1 .. n : more[j] = requests[j]
    BY <2>1, <2>2, OneRequestMore
  <2>4. DOMAIN more = 1 .. n + 1
    BY <2>3, LenProperties
  <2>5. PICK A : A = Those(requests, S) /\ IsFiniteSet(A) /\ Cardinality(A) \in Nat
    BY <1>2 DEF Count
  <2>6. n + 1 \notin A
    BY <2>1, <2>5 DEF Those
  <2>7. CASE r \in S
    <3>1. Those(more, S) = A \cup {n + 1}
      <4>1. \A j \in 1 .. n + 1 : j \in 1 .. n \/ j = n + 1
        OBVIOUS
      <4>2. \A j \in 1 .. n : j \in 1 .. n + 1
        OBVIOUS
      <4> QED
        BY <2>1, <2>3, <2>4, <2>5, <2>7, <4>1, <4>2 DEF Those
    <3>2. Cardinality(A \cup {n + 1}) = Cardinality(A) + 1
      BY <2>5, <2>6, FS_AddElement
    <3> QED
      BY <2>2, <2>5, <2>7, <3>1, <3>2 DEF Count, OneIf
  <2>8. CASE r \notin S
    <3>1. Those(more, S) = A
      <4>1. \A j \in 1 .. n + 1 : j \in 1 .. n \/ j = n + 1
        OBVIOUS
      <4>2. \A j \in 1 .. n : j \in 1 .. n + 1
        OBVIOUS
      <4> QED
        BY <2>1, <2>3, <2>4, <2>5, <2>8, <4>1, <4>2 DEF Those
    <3> QED
      BY <2>2, <2>5, <2>8, <3>1 DEF Count, OneIf
  <2> QED
    BY <2>7, <2>8
<1> QED
  BY <1>1, <1>2, <1>3

-----------------------------------------------------------------------------
(* The apdex.                                                              *)

Apdexes == [satisfying : Nat, tolerating : Nat, frustrating : Nat]

Graded(path, grade) ==
    {r \in Finished : r.web /\ r.path = path /\ Grade(r, ApdexT) = grade}

ApdexFor(requests, path) ==
    [satisfying  |-> Count(requests, Graded(path, "satisfying")),
     tolerating  |-> Count(requests, Graded(path, "tolerating")),
     frustrating |-> Count(requests, Graded(path, "frustrating"))]

ApdexOf(r, path) ==
    [satisfying  |-> OneIf(r, Graded(path, "satisfying")),
     tolerating  |-> OneIf(r, Graded(path, "tolerating")),
     frustrating |-> OneIf(r, Graded(path, "frustrating"))]

(* A dictionary has the grades of these requests.                          *)
ApdexRight(dict, requests) ==
    /\ dict = [key \in DOMAIN dict |-> dict[key]]
    /\ \A path : Get(dict, path, NoApdex) = ApdexFor(requests, path)

LEMMA NoApdexRight == ApdexRight(EmptyDict, << >>)
<1>1. DOMAIN EmptyDict = {} /\ EmptyDict = [key \in DOMAIN EmptyDict |-> EmptyDict[key]]
  BY DEF EmptyDict
<1>2. ASSUME NEW path PROVE Get(EmptyDict, path, NoApdex) = ApdexFor(<< >>, path)
  BY <1>1, CountsAre DEF Get, NoApdex, ApdexFor
<1> QED
  BY <1>1, <1>2 DEF ApdexRight

LEMMA ApdexOfRequest ==
    ASSUME NEW r \in Finished, NEW path
    PROVE  /\ ApdexOf(r, path) \in Apdexes
           /\ Get(RecordApdex(ApdexMetrics(r, ApdexT)), path, NoApdex) = ApdexOf(r, path)
<1>1. ApdexOf(r, path) \in Apdexes
  BY DEF ApdexOf, Apdexes, OneIf
<1>2. DOMAIN EmptyDict = {}
  BY DEF EmptyDict
<1>3. r.web \in BOOLEAN /\ Grade(r, ApdexT) \in {"satisfying", "tolerating", "frustrating"}
  BY FinishedAssumption DEF Grade
<1>4. PICK dict : dict = RecordApdex(ApdexMetrics(r, ApdexT))
  OBVIOUS
<1>5. CASE ~r.web
  <2>1. dict = EmptyDict
    BY <1>4, <1>5 DEF RecordApdex, ApdexMetrics
  <2>2. Get(dict, path, NoApdex) = NoApdex
    BY <1>2, <2>1 DEF Get
  <2>3. ApdexOf(r, path) = NoApdex
    BY <1>5 DEF ApdexOf, NoApdex, OneIf, Graded
  <2> QED
    BY <1>1, <1>4, <2>2, <2>3
<1>6. CASE r.web
  <2>1. PICK g : g = Grade(r, ApdexT)
    OBVIOUS
  <2>2. PICK m : m = [name |-> r.path,
                      satisfying  |-> IF g = "satisfying"  THEN 1 ELSE 0,
                      tolerating  |-> IF g = "tolerating"  THEN 1 ELSE 0,
                      frustrating |-> IF g = "frustrating" THEN 1 ELSE 0]
    OBVIOUS
  <2>3. ApdexMetrics(r, ApdexT) = <<m>>
    BY <1>6, <2>1, <2>2 DEF ApdexMetrics
  <2>4. PICK p : p = MergeApdex(NoApdex, m)
    OBVIOUS
  <2>5. p = [satisfying  |-> IF g = "satisfying"  THEN 1 ELSE 0,
             tolerating  |-> IF g = "tolerating"  THEN 1 ELSE 0,
             frustrating |-> IF g = "frustrating" THEN 1 ELSE 0]
    BY <2>2, <2>4 DEF MergeApdex, NoApdex
  <2>6. dict = Put(EmptyDict, r.path, p)
    <3>1. <<m>> # << >> /\ <<m>>[1] = m /\ m.name = r.path
      BY <2>2
    <3> QED
      BY <1>4, <2>3, <2>4, <3>1 DEF RecordApdex
  <2>7. Get(dict, path, NoApdex) = IF path = r.path THEN p ELSE NoApdex
    BY <1>2, <2>6 DEF Get, Put
  <2>8. CASE path = r.path
    <3>1. \A grade : r \in Graded(path, grade) <=> g = grade
      BY <1>6, <2>1, <2>8 DEF Graded
    <3>2. ApdexOf(r, path) = p
      BY <2>5, <3>1 DEF ApdexOf, OneIf
    <3> QED
      BY <1>1, <1>4, <2>7, <2>8, <3>2
  <2>9. CASE path # r.path
    <3>1. \A grade : r \notin Graded(path, grade)
      BY <2>9 DEF Graded
    <3>2. ApdexOf(r, path) = NoApdex
      BY <3>1 DEF ApdexOf, OneIf, NoApdex
    <3> QED
      BY <1>1, <1>4, <2>7, <2>9, <3>2
  <2> QED
    BY <2>8, <2>9
<1> QED
  BY <1>3, <1>5, <1>6

LEMMA ApdexMerges ==
    ASSUME NEW requests \in Seq(Finished), NEW r \in Finished,
           NEW dict, ApdexRight(dict, requests)
    PROVE  ApdexRight(MergeDict(dict, RecordApdex(ApdexMetrics(r, ApdexT)), MergeApdex),
                      Append(requests, r))
<1>1. PICK zone : zone = RecordApdex(ApdexMetrics(r, ApdexT))
  OBVIOUS
<1>2. PICK new : new = MergeDict(dict, zone, MergeApdex)
  OBVIOUS
<1>3. PICK more \in Seq(Finished) : more = Append(requests, r)
  BY OneRequestMore
<1>4. /\ DOMAIN new = DOMAIN dict \cup DOMAIN zone
      /\ new = [key \in DOMAIN new |-> new[key]]
      /\ \A key \in DOMAIN new :
            new[key] = IF key \notin DOMAIN zone THEN dict[key]
                       ELSE IF key \notin DOMAIN dict THEN zone[key]
                       ELSE MergeApdex(dict[key], zone[key])
  BY <1>2 DEF MergeDict
<1>5. \A a \in Apdexes : MergeApdex(a, NoApdex) = a /\ MergeApdex(NoApdex, a) = a
  BY DEF Apdexes, MergeApdex, NoApdex
<1>6. ASSUME NEW path PROVE Get(new, path, NoApdex) = ApdexFor(more, path)
  <2>1. PICK a \in Apdexes : a = ApdexFor(requests, path) /\ a = Get(dict, path, NoApdex)
    BY CountsAre DEF ApdexRight, ApdexFor, Apdexes
  <2>2. PICK b \in Apdexes : b = ApdexOf(r, path) /\ b = Get(zone, path, NoApdex)
    BY <1>1, ApdexOfRequest
  <2>3. ApdexFor(more, path) = MergeApdex(a, b)
    BY <1>3, <2>1, <2>2, CountsAre DEF ApdexFor, ApdexOf, MergeApdex
  <2>4. Get(new, path, NoApdex) = MergeApdex(a, b)
    <3>1. CASE path \in DOMAIN dict /\ path \in DOMAIN zone
      BY <1>4, <2>1, <2>2, <3>1 DEF Get
    <3>2. CASE path \in DOMAIN dict /\ path \notin DOMAIN zone
      <4>1. Get(new, path, NoApdex) = a /\ b = NoApdex
        BY <1>4, <2>1, <2>2, <3>2 DEF Get
      <4> QED
        BY <1>5, <4>1
    <3>3. CASE path \notin DOMAIN dict /\ path \in DOMAIN zone
      <4>1. Get(new, path, NoApdex) = b /\ a = NoApdex
        BY <1>4, <2>1, <2>2, <3>3 DEF Get
      <4> QED
        BY <1>5, <4>1
    <3>4. CASE path \notin DOMAIN dict /\ path \notin DOMAIN zone
      <4>1. Get(new, path, NoApdex) = NoApdex /\ a = NoApdex /\ b = NoApdex
        BY <1>4, <2>1, <2>2, <3>4 DEF Get
      <4> QED
        BY <1>5, <4>1
    <3> QED
      BY <3>1, <3>2, <3>3, <3>4
  <2> QED
    BY <2>3, <2>4
<1>7. ApdexRight(new, more)
  BY <1>4, <1>6 DEF ApdexRight
<1> QED
  BY <1>1, <1>2, <1>3, <1>7

-----------------------------------------------------------------------------
(* The statistics of actions.                                              *)

Root(path) == <<<<"root", path>>, "">>
Answered(path) == {r \in Finished : r.web /\ r.path = path /\ r.status <= 400}

(* They count the answers.                                                 *)
ActionsRight(requests) ==
    \A path : AllTotals(ActionsOf(requests), Root(path))["count"] = Count(requests, Answered(path))

LEMMA ActionOfRequest ==
    ASSUME NEW r \in Finished, NEW path
    PROVE  Upto(ActionMetrics(r), Len(ActionMetrics(r)), Root(path))["count"]
             = OneIf(r, Answered(path))
<1>1. PICK l : l = ActionMetrics(r) /\ TimedList(l)
  BY MetricsAreTimed
<1>2. PICK key : key = Root(path)
  OBVIOUS
<1>3. Zero["count"] = 0 /\ "count" \in Fields
  BY DEF Zero, Fields
<1>4. r.web \in BOOLEAN
  BY FinishedAssumption
<1>5. CASE ~(r.web /\ r.status <= 400)
  <2>1. l = << >> /\ Len(l) = 0
    BY <1>1, <1>5 DEF ActionMetrics
  <2>2. Upto(l, Len(l), key) = Zero
    BY <2>1, UptoNone
  <2>3. r \notin Answered(path)
    BY <1>5 DEF Answered
  <2> QED
    BY <1>1, <1>2, <1>3, <2>2, <2>3 DEF OneIf
<1>6. CASE r.web /\ r.status <= 400
  <2>1. PICK m : m = TimeMetric(<<"root", r.path>>, "", r.duration, r.exclusive)
    OBVIOUS
  <2>2. l = <<m>>
    BY <1>1, <1>6, <2>1 DEF ActionMetrics
  <2>3. PICK i \in Nat : i = 0 /\ i + 1 = 1
    OBVIOUS
  <2>4. Len(l) = 1 /\ l[1] = m /\ i + 1 <= Len(l) /\ Timed(l[1])
    BY <1>1, <2>2, <2>3, TimedListIs
  <2>5. /\ Upto(l, i + 1, key) = Plus(Upto(l, i, key), NumbersIf(l[i + 1], key))
    BY <1>1, <2>4, UptoMore
  <2>6. Upto(l, 1, key) = Plus(Zero, NumbersIf(m, key)) /\ NumbersIf(m, key) \in Vectors
    BY <2>3, <2>4, <2>5, UptoNone, NumbersAre
  <2>7. Upto(l, 1, key) = NumbersIf(m, key)
    BY <2>6, PlusIs
  <2>8. Part(m) = "times" /\ Key(m) = <<<<"root", r.path>>, "">>
    BY <2>1 DEF Part, Key, TimeMetric
  <2>9. Key(m) = key <=> r.path = path
    <3>1. PICK mine : mine = <<"root", r.path>>
      OBVIOUS
    <3>2. PICK theirs : theirs = <<"root", path>>
      OBVIOUS
    <3>3. mine = theirs <=> r.path = path
      BY <3>1, <3>2
    <3>4. Key(m) = <<mine, "">> /\ key = <<theirs, "">>
      BY <1>2, <2>8, <3>1, <3>2 DEF Root
    <3>5. \A x, y : <<x, "">> = <<y, "">> <=> x = y
      OBVIOUS
    <3> QED
      BY <3>3, <3>4, <3>5, Zenon
  <2>10. Numbers(m)["count"] = 1
    BY DEF Numbers
  <2>11. NumbersIf(m, key)["count"] = IF r.path = path THEN 1 ELSE 0
    BY <1>3, <2>9, <2>10 DEF NumbersIf
  <2>12. r \in Answered(path) <=> r.path = path
    BY <1>6 DEF Answered
  <2> QED
    BY <1>1, <1>2, <2>4, <2>7, <2>11, <2>12 DEF OneIf
<1> QED
  BY <1>5, <1>6

LEMMA ActionsAreRight ==
    /\ ActionsRight(<< >>)
    /\ \A requests \in Seq(Finished), r \in Finished :
          ActionsRight(requests) => ActionsRight(Append(requests, r))
<1>1. ActionsRight(<< >>)
  <2>1. PICK lists : lists = ActionsOf(<< >>)
    OBVIOUS
  <2>2. ASSUME NEW path PROVE AllTotals(lists, Root(path))["count"] = 0
    <3>1. PICK x : x = [j \in 1 .. 0 |-> Amount(lists[j], Root(path), "count")]
      OBVIOUS
    <3>2. x \in Row(0)
      BY <3>1 DEF Row
    <3>3. Sum(x) = 0
      BY <3>2, SumOfNone
    <3>4. Len(lists) = 0
      BY <2>1 DEF ActionsOf
    <3>5. Amounts(lists, Root(path), "count") = Sum(x)
      BY <3>1, <3>4 DEF Amounts
    <3> QED
      BY <3>3, <3>5 DEF AllTotals, Fields
  <2> QED
    BY <2>1, <2>2, CountsAre DEF ActionsRight
<1>2. ASSUME NEW requests \in Seq(Finished), NEW r \in Finished, ActionsRight(requests)
      PROVE  ActionsRight(Append(requests, r))
  <2>1. PICK n \in Nat : n = Len(requests)
    BY LenProperties
  <2>2. PICK a : a = ActionsOf(requests)
    OBVIOUS
  <2>3. PICK b : b = ActionsOf(Append(requests, r))
    OBVIOUS
  <2>4. OneList(a, b, n) /\ b[n + 1] = ActionMetrics(r)
    BY <2>1, <2>2, <2>3, OneRequestMore
  <2>5. ASSUME NEW path
        PROVE  AllTotals(b, Root(path))["count"] = Count(Append(requests, r), Answered(path))
    <3>1. PICK key : key = Root(path)
      OBVIOUS
    <3>2. PICK l : l = ActionMetrics(r) /\ TimedList(l)
      BY MetricsAreTimed
    <3>3. AllTotals(b, key) = Plus(AllTotals(a, key), Upto(l, Len(l), key))
      BY <2>4, <3>2, MoreTotals
    <3>4. AllTotals(b, key)["count"] = AllTotals(a, key)["count"] + Upto(l, Len(l), key)["count"]
      BY <3>3 DEF Plus, Fields
    <3>5. Upto(l, Len(l), key)["count"] = OneIf(r, Answered(path))
      BY <3>1, <3>2, ActionOfRequest
    <3>6. AllTotals(a, key)["count"] = Count(requests, Answered(path))
      BY <1>2, <2>2, <3>1 DEF ActionsRight
    <3> QED
      BY <3>1, <3>4, <3>5, <3>6, CountsAre
  <2> QED
    BY <2>3, <2>5 DEF ActionsRight
<1> QED
  BY <1>1, <1>2

-----------------------------------------------------------------------------
(* The packets of the packager and of the snapshot.                        *)

(* Packets have everything of these requests.                              *)
Correct(packets, requests) ==
    /\ Stands(packets.times, "times", TimesOf(requests))
    /\ Stands(packets.generals, "generals", TimesOf(requests))
    /\ Stands(packets.actions, "times", ActionsOf(requests))
    /\ ActionsRight(requests)
    /\ ApdexRight(packets.apdex, requests)
    /\ packets.generals = [key \in DOMAIN packets.generals |-> packets.generals[key]]
    /\ packets.actions = [key \in DOMAIN packets.actions |-> packets.actions[key]]
    /\ PacketDict(packets.times)
    /\ TreesAddUp => \A path : ShareOf(packets.times, path) = AllDurations(requests, path)

(* They are merged with the zone of a request.                             *)
MergedWith(new, packets, r) ==
    /\ new.times = MergeDict(packets.times, RecordTimes(r.times, "times"), MergeTimes)
    /\ new.generals = MergeDict(packets.generals, RecordTimes(r.times, "generals"), MergeTimes)
    /\ new.actions
         = MergeDict(packets.actions, RecordTimes(ActionMetrics(r), "times"), MergeTimes)
    /\ new.apdex = MergeDict(packets.apdex, RecordApdex(ApdexMetrics(r, ApdexT)), MergeApdex)

LEMMA CorrectMore ==
    ASSUME NEW requests \in Seq(Finished), NEW r \in Finished,
           NEW packets, Correct(packets, requests),
           NEW new, MergedWith(new, packets, r)
    PROVE  Correct(new, Append(requests, r))
<1>1. PICK n \in Nat : n = Len(requests)
  BY LenProperties
<1>2. PICK more \in Seq(Finished) : more = Append(requests, r)
  BY OneRequestMore
<1>3. TimedList(r.times) /\ TimedList(ActionMetrics(r))
  BY MetricsAreTimed
<1>4. /\ OneList(TimesOf(requests), TimesOf(more), n)
      /\ TimesOf(more)[n + 1] = r.times
      /\ OneList(ActionsOf(requests), ActionsOf(more), n)
      /\ ActionsOf(more)[n + 1] = ActionMetrics(r)
  BY <1>1, <1>2, OneRequestMore
<1>5. Stands(new.times, "times", TimesOf(more))
  <2>1. PICK dict : dict = packets.times /\ Stands(dict, "times", TimesOf(requests))
    BY DEF Correct
  <2>2. Stands(MergeDict(dict, RecordTimes(TimesOf(more)[n + 1], "times"), MergeTimes),
               "times", TimesOf(more))
    BY <1>4, <2>1, StandsForMore
  <2> QED
    BY <1>4, <2>1, <2>2 DEF MergedWith
<1>6. Stands(new.generals, "generals", TimesOf(more))
  <2>1. PICK dict : dict = packets.generals /\ Stands(dict, "generals", TimesOf(requests))
    BY DEF Correct
  <2>2. Stands(MergeDict(dict, RecordTimes(TimesOf(more)[n + 1], "generals"), MergeTimes),
               "generals", TimesOf(more))
    BY <1>4, <2>1, StandsForMore
  <2> QED
    BY <1>4, <2>1, <2>2 DEF MergedWith
<1>7. Stands(new.actions, "times", ActionsOf(more))
  <2>1. PICK dict : dict = packets.actions /\ Stands(dict, "times", ActionsOf(requests))
    BY DEF Correct
  <2>2. Stands(MergeDict(dict, RecordTimes(ActionsOf(more)[n + 1], "times"), MergeTimes),
               "times", ActionsOf(more))
    BY <1>4, <2>1, StandsForMore
  <2> QED
    BY <1>4, <2>1, <2>2 DEF MergedWith
<1>8. ActionsRight(more)
  BY <1>2, ActionsAreRight DEF Correct
<1>9. ApdexRight(new.apdex, more)
  BY <1>2, ApdexMerges DEF Correct, MergedWith
<1>10. /\ new.generals = [key \in DOMAIN new.generals |-> new.generals[key]]
       /\ new.actions = [key \in DOMAIN new.actions |-> new.actions[key]]
  BY DEF MergedWith, MergeDict
<1>11. PICK mine : mine = packets.times /\ PacketDict(mine)
  BY DEF Correct
<1>12. PICK zone : zone = RecordTimes(r.times, "times") /\ PacketDict(zone)
  BY <1>3, RecordTimesShares
<1>13. new.times = MergeDict(mine, zone, MergeTimes)
  BY <1>11, <1>12 DEF MergedWith
<1>14. PacketDict(new.times)
  BY <1>11, <1>12, <1>13, MergeShares
<1>15. ASSUME TreesAddUp, NEW path PROVE ShareOf(new.times, path) = AllDurations(more, path)
  <2>1. ShareOf(new.times, path) = ShareOf(mine, path) + ShareOf(zone, path)
    BY <1>11, <1>12, <1>13, MergeShares
  <2>2. ShareOf(mine, path) = AllDurations(requests, path)
    BY <1>11, <1>15 DEF Correct
  <2>3. ShareOf(zone, path) = DurationIf(r, path)
    BY <1>12, <1>15, ShareOfRequest DEF DurationIf
  <2>4. AllDurations(more, path) = AllDurations(requests, path) + DurationIf(r, path)
    BY <1>2, DurationsAre
  <2> QED
    BY <2>1, <2>2, <2>3, <2>4
<1>16. Correct(new, more)
  BY <1>5, <1>6, <1>7, <1>8, <1>9, <1>10, <1>14, <1>15 DEF Correct
<1> QED
  BY <1>2, <1>16

LEMMA CorrectNone ==
    ASSUME NEW packets, packets.times = EmptyDict, packets.generals = EmptyDict,
           packets.actions = EmptyDict, packets.apdex = EmptyDict
    PROVE  Correct(packets, << >>)
<1>1. EmptyDict = [key \in DOMAIN EmptyDict |-> EmptyDict[key]]
  BY DEF EmptyDict
<1>2. Len(TimesOf(<< >>)) = 0 /\ Len(ActionsOf(<< >>)) = 0
  BY DEF TimesOf, ActionsOf
<1>3. /\ Stands(EmptyDict, "times", TimesOf(<< >>))
      /\ Stands(EmptyDict, "generals", TimesOf(<< >>))
      /\ Stands(EmptyDict, "times", ActionsOf(<< >>))
  BY <1>2, NothingStands
<1> QED
  BY <1>1, <1>3, ActionsAreRight, NoApdexRight, NoShare, DurationsAre DEF Correct

(* Nothing is merged when there is nothing to merge.                       *)
LEMMA CorrectSame ==
    ASSUME NEW requests, NEW packets, Correct(packets, requests), NEW new,
           new.times = MergeDict(packets.times, EmptyDict, MergeTimes),
           new.generals = MergeDict(packets.generals, EmptyDict, MergeTimes),
           new.actions = MergeDict(packets.actions, EmptyDict, MergeTimes),
           new.apdex = MergeDict(packets.apdex, EmptyDict, MergeApdex)
    PROVE  Correct(new, requests)
<1>1. DOMAIN EmptyDict = {}
  BY DEF EmptyDict
<1>2. ASSUME NEW dict, dict = [key \in DOMAIN dict |-> dict[key]]
      PROVE  /\ MergeDict(dict, EmptyDict, MergeTimes) = dict
             /\ MergeDict(dict, EmptyDict, MergeApdex) = dict
  <2>1. DOMAIN dict \cup DOMAIN EmptyDict = DOMAIN dict
    BY <1>1
  <2>2. /\ MergeDict(dict, EmptyDict, MergeTimes) = [key \in DOMAIN dict |-> dict[key]]
        /\ MergeDict(dict, EmptyDict, MergeApdex) = [key \in DOMAIN dict |-> dict[key]]
    BY <1>1, <2>1 DEF MergeDict
  <2> QED
    BY <1>2, <2>2
<1>3. /\ new.times = packets.times /\ new.generals = packets.generals
      /\ new.actions = packets.actions /\ new.apdex = packets.apdex
  BY <1>2 DEF Correct, PacketDict, ApdexRight
<1> QED
  BY <1>3 DEF Correct

(* That is what the properties ask for.                                    *)
LEMMA CorrectIsExact ==
    ASSUME NEW requests \in Seq(Finished), NEW packets, Correct(packets, requests)
    PROVE  StandsFor(packets, requests)
<1>1. PICK n \in Nat : n = Len(requests)
  BY LenProperties
<1>2. TimedLists(TimesOf(requests), n) /\ TimedLists(ActionsOf(requests), n)
  BY <1>1, ListsOfRequests
<1>3. AllExact(packets.times, TimesOf(requests), "times")
  BY <1>2, StandsIsExact DEF Correct
<1>4. AllExact(packets.generals, TimesOf(requests), "generals")
  BY <1>2, StandsIsExact DEF Correct
<1>5. AllExact(packets.actions, ActionsOf(requests), "times")
  BY <1>2, StandsIsExact DEF Correct
<1> QED
  BY <1>3, <1>4, <1>5 DEF StandsFor

-----------------------------------------------------------------------------
(* Of a snapshot, these are all sent or none.                              *)
Sent(packets) ==
    /\ packets.times = EmptyDict /\ packets.generals = EmptyDict
    /\ packets.actions = EmptyDict /\ packets.apdex = EmptyDict

PacketsKept ==
    /\ recorded \in Seq(Finished) /\ upto \in 0 .. Len(recorded) /\ from \in 0 .. upto
    /\ Correct(packager, Held)
    /\ hpc = "metrics" => Correct(stat, Taken)
    /\ hpc # "metrics" => Sent(stat)

LEMMA EmptyIsSent == Sent(Empty)
BY DEF Sent, Empty, Parts

(* The first upload has them all.                                          *)
LEMMA BuiltIsSent ==
    ASSUME PacketsKept
    PROVE  Sent(Built)
<1>1. CASE hpc = "metrics"
  <2>1. Emptied = Metered
    BY <1>1 DEF Emptied
  <2> QED
    BY <2>1 DEF Built, Parts, Metered, Sent
<1>2. CASE hpc # "metrics"
  BY <1>2 DEF PacketsKept, Built, Parts, Sent
<1> QED
  BY <1>1, <1>2

LEMMA RecordKeepsPackets ==
    ASSUME PacketsKept, NEW r \in Finished, Record(r)
    PROVE  PacketsKept'
<1>1. /\ recorded' = Append(recorded, r)
      /\ stat' = stat /\ hpc' = hpc /\ from' = from /\ upto' = upto
  BY DEF Record
<1>2. PICK n \in Nat : n = Len(recorded)
  BY LenProperties DEF PacketsKept
<1>3. recorded \in Seq(Finished) /\ upto \in 0 .. n /\ from \in 0 .. upto
  BY <1>2 DEF PacketsKept
<1>4. recorded' \in Seq(Finished) /\ Len(recorded') = n + 1
  BY <1>1, <1>2, <1>3, OneRequestMore
<1>5. /\ Held \in Seq(Finished)
      /\ SubSeq(recorded', upto + 1, n + 1) = Append(Held, r)
      /\ SubSeq(recorded', from + 1, upto) = Taken
  <2>1. PICK all \in Seq(Finished) : all = recorded
    BY <1>3
  <2>2. Len(all) = n /\ upto \in 0 .. Len(all)
    BY <1>2, <1>3, <2>1
  <2>3. /\ SubSeq(all, upto + 1, Len(all)) \in Seq(Finished)
        /\ SubSeq(Append(all, r), upto + 1, Len(all) + 1)
             = Append(SubSeq(all, upto + 1, Len(all)), r)
        /\ SubSeq(Append(all, r), from + 1, upto) = SubSeq(all, from + 1, upto)
    BY <1>3, <2>2, RequestsSince
  <2> QED
    BY <1>1, <2>1, <2>2, <2>3 DEF Held, Taken
<1>6. Held' = Append(Held, r) /\ Taken' = Taken
  BY <1>1, <1>4, <1>5 DEF Held, Taken
<1>7. MergedWith(packager', packager, r)
  <2>1. PICK zone : zone = RecordTracker(r)
    OBVIOUS
  <2>2. /\ packager'.times = MergeDict(packager.times, zone.times, MergeTimes)
        /\ packager'.generals = MergeDict(packager.generals, zone.generals, MergeTimes)
        /\ packager'.actions = MergeDict(packager.actions, zone.actions, MergeTimes)
        /\ packager'.apdex = MergeDict(packager.apdex, zone.apdex, MergeApdex)
    BY <2>1 DEF Record, MergeMetricPackets
  <2>3. /\ zone.times = RecordTimes(r.times, "times")
        /\ zone.generals = RecordTimes(r.times, "generals")
        /\ zone.actions = RecordTimes(ActionMetrics(r), "times")
        /\ zone.apdex = RecordApdex(ApdexMetrics(r, ApdexT))
    BY <2>1 DEF RecordTracker
  <2> QED
    BY <2>2, <2>3 DEF MergedWith
<1>8. Correct(packager', Append(Held, r))
  <2>1. Correct(packager, Held)
    BY DEF PacketsKept
  <2> QED
    BY <1>5, <1>7, <2>1, CorrectMore
<1>9. upto' \in 0 .. Len(recorded') /\ from' \in 0 .. upto'
  BY <1>1, <1>2, <1>3, <1>4
<1>10. /\ Correct(packager, Held)'
       /\ (hpc = "metrics" => Correct(stat, Taken))'
       /\ (hpc # "metrics" => Sent(stat))'
  <2>1. Correct(packager', Held')
    BY <1>6, <1>8
  <2>2. hpc' = "metrics" => Correct(stat', Taken')
    BY <1>1, <1>6 DEF PacketsKept
  <2>3. hpc' # "metrics" => Sent(stat')
    BY <1>1 DEF PacketsKept
  <2> QED
    BY <2>1, <2>2, <2>3 DEF Correct, Sent
<1> QED
  BY <1>4, <1>9, <1>10 DEF PacketsKept

LEMMA PacketsNext == PacketsKept /\ [StatNext]_statVars => PacketsKept'
<1> SUFFICES ASSUME PacketsKept, [StatNext]_statVars PROVE PacketsKept'
  OBVIOUS
<1>1. CASE \E r \in Finished : Record(r)
  BY <1>1, RecordKeepsPackets
<1>2. CASE TakeSnapshot
  <2>1. /\ stat' = packager /\ packager' = Empty /\ hpc' = "metrics"
        /\ from' = upto /\ upto' = Len(recorded) /\ recorded' = recorded
    BY <1>2 DEF TakeSnapshot
  <2>2. PICK n \in Nat : n = Len(recorded) /\ upto \in 0 .. n /\ recorded \in Seq(Finished)
    BY LenProperties DEF PacketsKept
  <2>3. Held' = << >> /\ Taken' = Held
    BY <2>1, <2>2, RequestsSince DEF Held, Taken
  <2>4. Correct(packager', Held')
    BY <2>1, <2>3, EmptyIsSent, CorrectNone DEF Sent
  <2>5. Correct(stat', Taken')
    BY <2>1, <2>3 DEF PacketsKept
  <2>6. recorded' \in Seq(Finished) /\ upto' \in 0 .. Len(recorded') /\ from' \in 0 .. upto'
    BY <2>1, <2>2
  <2> QED
    BY <2>1, <2>4, <2>5, <2>6 DEF PacketsKept
<1>3. CASE Upload \/ EndHarvest \/ UploadFails
  <2>1. /\ packager' = packager /\ recorded' = recorded /\ from' = from /\ upto' = upto
        /\ hpc' # "metrics" /\ stat' \in {Built, Empty}
    BY <1>3 DEF Upload, EndHarvest, UploadFails, Following
  <2>2. Sent(stat')
    BY <2>1, BuiltIsSent, EmptyIsSent
  <2>3. Held' = Held
    BY <2>1 DEF Held
  <2> QED
    BY <2>1, <2>2, <2>3 DEF PacketsKept
<1>4. CASE UploadRetry
  <2>1. /\ packager' = Rollback(packager, Built) /\ stat' = Empty /\ hpc' = "idle"
        /\ recorded' = recorded /\ from' = from /\ upto' = upto
    BY <1>4 DEF UploadRetry
  <2>2. PICK new : new = Rollback(packager, Built)
    OBVIOUS
  <2>3. /\ new.times = MergeDict(packager.times, EmptyDict, MergeTimes)
        /\ new.generals = MergeDict(packager.generals, EmptyDict, MergeTimes)
        /\ new.actions = MergeDict(packager.actions, EmptyDict, MergeTimes)
        /\ new.apdex = MergeDict(packager.apdex, EmptyDict, MergeApdex)
    BY <2>2, BuiltIsSent DEF Rollback, Sent
  <2>4. Correct(packager, Held)
    BY DEF PacketsKept
  <2>5. Correct(new, Held)
    BY <2>3, <2>4, CorrectSame
  <2>6. Held' = Held
    BY <2>1 DEF Held
  <2>7. Correct(packager', Held')
    BY <2>1, <2>2, <2>5, <2>6
  <2>8. Sent(stat') /\ hpc' # "metrics"
    BY <2>1, EmptyIsSent
  <2> QED
    BY <2>1, <2>7, <2>8 DEF PacketsKept
<1>5. CASE UNCHANGED statVars
  BY <1>5 DEF statVars, PacketsKept, Held, Taken
<1> QED
  BY <1>1, <1>2, <1>3, <1>4, <1>5 DEF StatNext

LEMMA PacketsInit == StatInit => PacketsKept
<1> SUFFICES ASSUME StatInit PROVE PacketsKept
  OBVIOUS
<1>1. /\ packager = Empty /\ stat = Empty /\ hpc = "idle"
      /\ recorded = << >> /\ from = 0 /\ upto = 0
  BY DEF StatInit
<1>2. recorded \in Seq(Finished) /\ Len(recorded) = 0
  BY <1>1, EmptySeq
<1>3. Held = << >>
  BY <1>1, <1>2, SubSeqEmpty DEF Held
<1>4. Correct(packager, Held)
  BY <1>1, <1>3, EmptyIsSent, CorrectNone DEF Sent
<1> QED
  BY <1>1, <1>2, <1>4, EmptyIsSent DEF PacketsKept

LEMMA RequestsAreFinished ==
    ASSUME PacketsKept
    PROVE  Held \in Seq(Finished) /\ Taken \in Seq(Finished)
BY RequestsSince DEF PacketsKept, Held, Taken

(* Whatever is merged, in whatever order, and rolled back, the packets of  *)
(* times have the count, the sums, the greatest and the least of the times *)
(* of exactly the requests they stand for.                                 *)
THEOREM PacketsAreExact == StatSpec => []PacketsExact
<1>1. PacketsKept => PacketsExact
  BY RequestsAreFinished, CorrectIsExact DEF PacketsKept, PacketsExact
<1> QED
  BY <1>1, PacketsInit, PacketsNext, PTL DEF StatSpec

-----------------------------------------------------------------------------
(* The shares of an action.                                                *)

(* The web requests of an action are graded, each once.                    *)
LEMMA GradesAddUp ==
    ASSUME NEW requests \in Seq(Finished), NEW path
    PROVE  LET a    == ApdexFor(requests, path)
               mine == {j \in DOMAIN requests : requests[j].path = path}
               web  == {j \in mine : requests[j].web}
               bad  == {j \in web : requests[j].errors # << >> \/ requests[j].status > 401}
               good == {j \in web : requests[j].status <= 400}
           IN  /\ a.satisfying + a.tolerating + a.frustrating = Cardinality(web)
               /\ a.frustrating >= Cardinality(bad)
               /\ Count(requests, Answered(path)) = Cardinality(good)
<1> DEFINE mine == {j \in DOMAIN requests : requests[j].path = path}
           web  == {j \in mine : requests[j].web}
           bad  == {j \in web : requests[j].errors # << >> \/ requests[j].status > 401}
           good == {j \in web : requests[j].status <= 400}
<1>1. \A j \in DOMAIN requests : requests[j] \in Finished
  BY LenProperties, ElementOfSeq
<1>2. PICK S : S = Those(requests, Graded(path, "satisfying")) /\ IsFiniteSet(S)
  BY CountsAre
<1>3. PICK T : T = Those(requests, Graded(path, "tolerating")) /\ IsFiniteSet(T)
  BY CountsAre
<1>4. PICK F : F = Those(requests, Graded(path, "frustrating")) /\ IsFiniteSet(F)
  BY CountsAre
<1>5. \A j \in DOMAIN requests :
         Grade(requests[j], ApdexT) \in {"satisfying", "tolerating", "frustrating"}
  BY DEF Grade
<1>6. /\ S = {j \in web : Grade(requests[j], ApdexT) = "satisfying"}
      /\ T = {j \in web : Grade(requests[j], ApdexT) = "tolerating"}
      /\ F = {j \in web : Grade(requests[j], ApdexT) = "frustrating"}
  BY <1>1, <1>2, <1>3, <1>4 DEF Those, Graded
<1>7. web = (S \cup T) \cup F /\ S \cap T = {} /\ (S \cup T) \cap F = {}
  BY <1>5, <1>6
<1>8. /\ Cardinality(S) \in Nat /\ Cardinality(T) \in Nat /\ Cardinality(F) \in Nat
      /\ IsFiniteSet(S \cup T) /\ Cardinality({}) = 0
  BY <1>2, <1>3, <1>4, FS_CardinalityType, FS_Union, FS_EmptySet
<1>9. Cardinality(S \cup T) = Cardinality(S) + Cardinality(T)
  <2>1. Cardinality(S \cup T) = Cardinality(S) + Cardinality(T) - Cardinality(S \cap T)
    BY <1>2, <1>3, FS_Union
  <2>2. S \cap T = {}
    BY <1>7
  <2>3. Cardinality(S \cap T) = 0
    BY <1>8, <2>2
  <2> QED
    BY <1>8, <2>1, <2>3
<1>10. Cardinality(web) = Cardinality(S) + Cardinality(T) + Cardinality(F)
  <2>1. PICK U : U = S \cup T /\ IsFiniteSet(U)
    BY <1>8
  <2>2. Cardinality(U \cup F) = Cardinality(U) + Cardinality(F) - Cardinality(U \cap F)
    BY <1>4, <2>1, FS_Union
  <2> HIDE DEF web
  <2>3. U \cap F = {} /\ web = U \cup F
    BY <1>7, <2>1
  <2>4. Cardinality(U \cap F) = 0
    BY <1>8, <2>3
  <2> QED
    BY <1>8, <1>9, <2>1, <2>2, <2>3, <2>4
<1>11. Cardinality(bad) <= Cardinality(F)
  <2>1. bad \subseteq F
    <3>1. ASSUME NEW j \in bad PROVE Grade(requests[j], ApdexT) = "frustrating"
      <4>1. PICK r \in Finished : r = requests[j]
        BY <1>1
      <4>2. r.errors # << >> \/ r.status > 401
        BY <4>1
      <4>3. r.status \in Nat
        BY FinishedAssumption
      <4> QED
        BY <4>1, <4>2, <4>3 DEF Grade
    <3> QED
      BY <1>6, <3>1
  <2> HIDE DEF bad
  <2> QED
    BY <1>4, <2>1, FS_Subset
<1>12. Those(requests, Answered(path)) = good
  BY <1>1 DEF Those, Answered
<1>13. /\ ApdexFor(requests, path).satisfying = Cardinality(S)
       /\ ApdexFor(requests, path).tolerating = Cardinality(T)
       /\ ApdexFor(requests, path).frustrating = Cardinality(F)
  BY <1>2, <1>3, <1>4 DEF ApdexFor, Count
<1>14. Cardinality(bad) \in Nat
  <2>1. bad \in SUBSET web /\ IsFiniteSet(web)
    <3>1. IsFiniteSet((S \cup T) \cup F)
      BY <1>4, <1>8, FS_Union
    <3> HIDE DEF web
    <3>2. IsFiniteSet(web)
      BY <1>7, <3>1
    <3> QED
      BY <3>2
  <2> HIDE DEF bad, web
  <2> QED
    BY <2>1, FS_Subset, FS_CardinalityType
<1> HIDE DEF web, bad, good
<1>15. /\ ApdexFor(requests, path).satisfying + ApdexFor(requests, path).tolerating
            + ApdexFor(requests, path).frustrating = Cardinality(web)
       /\ ApdexFor(requests, path).frustrating >= Cardinality(bad)
       /\ Count(requests, Answered(path)) = Cardinality(good)
  BY <1>8, <1>10, <1>11, <1>12, <1>13, <1>14 DEF Count
<1> QED
  BY <1>15 DEF web, bad, good

LEMMA CorrectAddsUp ==
    ASSUME TreesAddUp, NEW requests \in Seq(Finished), NEW packets, Correct(packets, requests)
    PROVE  SharesOf(packets, requests)
<1> SUFFICES ASSUME NEW path
             PROVE  LET mine   == {j \in DOMAIN requests : requests[j].path = path}
                        parts  == {key \in DOMAIN packets.times : key[2] = path}
                        apdex  == Get(packets.apdex, path, NoApdex)
                        action == Get(packets.actions, <<<<"root", path>>, "">>, NoTime)
                        web    == {j \in mine : requests[j].web}
                        bad    == {j \in web : \/ requests[j].errors # << >>
                                               \/ requests[j].status > 401}
                        good   == {j \in web : requests[j].status <= 400}
                    IN  /\ SumOver(parts, [key \in parts |-> packets.times[key].exclusive])
                             = Sum([j \in 1 .. Len(requests) |->
                                       IF j \in mine THEN requests[j].duration ELSE 0])
                        /\ apdex.satisfying + apdex.tolerating + apdex.frustrating
                             = Cardinality(web)
                        /\ apdex.frustrating >= Cardinality(bad)
                        /\ action.count = Cardinality(good)
  BY DEF SharesOf
<1>1. ShareOf(packets.times, path) = AllDurations(requests, path)
  BY DEF Correct
<1>2. Get(packets.apdex, path, NoApdex) = ApdexFor(requests, path)
  BY DEF Correct, ApdexRight
<1>3. Get(packets.actions, Root(path), NoTime).count = Count(requests, Answered(path))
  <2>1. PICK key : key = Root(path)
    OBVIOUS
  <2>2. PICK dict : dict = packets.actions
    OBVIOUS
  <2>3. PICK all : all = AllTotals(ActionsOf(requests), key)
    OBVIOUS
  <2>4. all["count"] = Count(requests, Answered(path))
    BY <2>1, <2>3 DEF Correct, ActionsRight
  <2>5. PartOf(key) = "times"
    BY <2>1 DEF PartOf, Root
  <2>6. Shown(dict, key, all, AllTimes(ActionsOf(requests), key))
    BY <2>2, <2>3, <2>5 DEF Correct, Stands
  <2>7. CASE key \in DOMAIN dict
    <3>1. dict[key]["count"] = all["count"]
      BY <2>6, <2>7 DEF Shown, Shows, Fields
    <3> QED
      BY <2>1, <2>2, <2>4, <2>7, <3>1 DEF Get
  <2>8. CASE key \notin DOMAIN dict
    <3>1. all["count"] = 0
      BY <2>6, <2>8 DEF Shown, Zero, Fields
    <3> QED
      BY <2>1, <2>2, <2>4, <2>8, <3>1 DEF Get, NoTime
  <2> QED
    BY <2>7, <2>8
<1> QED
  BY <1>1, <1>2, <1>3, GradesAddUp DEF ShareOf, PartsOf, OwnOf, AllDurations, Root

(* When the trees of the requests add up, the own times of all components  *)
(* of an action in the packets add up to the durations of its requests;    *)
(* each web request is in the apdex once, and with an error or a bad       *)
(* answer as frustrating; and the statistics of the action count those     *)
(* that were answered.                                                     *)
THEOREM AllSharesAddUp ==
    ASSUME TreesAddUp
    PROVE  StatSpec => []SharesAddUp
<1>1. PacketsKept => SharesAddUp
  BY RequestsAreFinished, CorrectAddsUp DEF PacketsKept, SharesAddUp
<1> QED
  BY <1>1, PacketsInit, PacketsNext, PTL DEF StatSpec
=============================================================================
