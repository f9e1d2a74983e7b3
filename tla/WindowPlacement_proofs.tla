---------------------- MODULE WindowPlacement_proofs ----------------------
(***************************************************************************)
(* Proofs about WindowPlacement, for any screens, any rectangles the owner *)
(* chooses and any number of processes.                                    *)
(*                                                                         *)
(* First the geometry: what the bounds policy returns lies in a work area, *)
(* and a rectangle that lies in one is returned as it is.  Then the file:  *)
(* an inductive invariant tells which inodes a directory may name as the   *)
(* preference, and which the writes under way still own.                   *)
(***************************************************************************)
EXTENDS WindowPlacement, FiniteSetTheorems, WellFoundedInduction, TLAPS

-----------------------------------------------------------------------------
(* Geometry.                                                               *)

\* Clamp stays between its limits, and keeps what is between them.
LEMMA ClampRange ==
  ASSUME NEW v \in Int, NEW low \in Int, NEW high \in Int, low <= high
  PROVE  /\ Clamp(v, low, high) \in Int
         /\ low <= Clamp(v, low, high) /\ Clamp(v, low, high) <= high
         /\ low <= v /\ v <= high => Clamp(v, low, high) = v
  BY DEF Clamp, Least, Greatest

\* What ClampSizeToWorkArea returns fits, and a size that fits is kept.
LEMMA SizeFits ==
  ASSUME NEW s, s.width \in Positive, s.height \in Positive,
         NEW area \in Rect, NEW minimum \in Size
  PROVE  LET c == ClampSizeToWorkArea(s, area, minimum)
         IN /\ c \in Size
            /\ MinimumFitsWorkArea(c, area)
            /\ MinimumFitsWorkArea(minimum, s) /\ MinimumFitsWorkArea(s, area)
               => c = [width |-> s.width, height |-> s.height]
<1> DEFINE lowW == Least(minimum.width, area.width)
           lowH == Least(minimum.height, area.height)
           w == Clamp(s.width, lowW, area.width)
           h == Clamp(s.height, lowH, area.height)
<1>1. /\ area.width \in Positive /\ area.height \in Positive
      /\ minimum.width \in Positive /\ minimum.height \in Positive
  BY DEF Rect, Size
<1>2. /\ lowW \in Positive /\ lowW <= area.width
      /\ lowH \in Positive /\ lowH <= area.height
  BY <1>1 DEF Least, Positive
<1>a. /\ lowW \in Int /\ area.width \in Int /\ s.width \in Int
      /\ lowH \in Int /\ area.height \in Int /\ s.height \in Int
  BY <1>1, <1>2 DEF Positive
<1> HIDE DEF lowW, lowH
<1>3. /\ w \in Int /\ lowW <= w /\ w <= area.width
      /\ lowW <= s.width /\ s.width <= area.width => w = s.width
  BY <1>2, <1>a, ClampRange
<1>4. /\ h \in Int /\ lowH <= h /\ h <= area.height
      /\ lowH <= s.height /\ s.height <= area.height => h = s.height
  BY <1>2, <1>a, ClampRange
<1>5. w \in Positive /\ h \in Positive
  BY <1>2, <1>3, <1>4 DEF Positive
<1>6. ClampSizeToWorkArea(s, area, minimum) = [width |-> w, height |-> h]
  BY DEF ClampSizeToWorkArea, lowW, lowH
<1>7. minimum.width <= s.width => lowW <= s.width
  BY <1>1 DEF Least, Positive, lowW
<1>8. minimum.height <= s.height => lowH <= s.height
  BY <1>1 DEF Least, Positive, lowH
<1> HIDE DEF w, h
<1> QED
  BY <1>3, <1>4, <1>5, <1>6, <1>7, <1>8 DEF Size, MinimumFitsWorkArea

\* A rectangle moved into a work area its size fits is inside, and one that
\* was inside has not moved.
LEMMA FittedInside ==
  ASSUME NEW b \in Rect, NEW s \in Size, NEW area \in Rect,
         MinimumFitsWorkArea(s, area)
  PROVE  /\ Fitted(b, s, area) \in Rect
         /\ IsWindowContainedInWorkArea(Fitted(b, s, area), area)
         /\ /\ s = [width |-> b.width, height |-> b.height]
            /\ IsWindowContainedInWorkArea(b, area)
            => Fitted(b, s, area) = b
<1> DEFINE x == Clamp(b.x, area.x, area.x + area.width - s.width)
           y == Clamp(b.y, area.y, area.y + area.height - s.height)
<1>1. /\ b.x \in Int /\ b.y \in Int /\ b.width \in Nat /\ b.height \in Nat
      /\ area.x \in Int /\ area.y \in Int /\ area.width \in Nat /\ area.height \in Nat
      /\ s.width \in Positive /\ s.height \in Positive
      /\ s.width \in Nat /\ s.height \in Nat
      /\ b = [x |-> b.x, y |-> b.y, width |-> b.width, height |-> b.height]
  BY DEF Rect, Size, Positive
<1>2. s.width <= area.width /\ s.height <= area.height
  BY DEF MinimumFitsWorkArea
<1>3. /\ x \in Int /\ area.x <= x /\ x <= area.x + area.width - s.width
      /\ area.x <= b.x /\ b.x <= area.x + area.width - s.width => x = b.x
  <2>1. area.x <= area.x + area.width - s.width
    BY <1>1, <1>2
  <2> DEFINE high == area.x + area.width - s.width
  <2>2. high \in Int /\ area.x \in Int /\ b.x \in Int
    BY <1>1
  <2>3. area.x <= high
    BY <2>1
  <2> HIDE DEF high
  <2>4. /\ Clamp(b.x, area.x, high) \in Int
        /\ area.x <= Clamp(b.x, area.x, high) /\ Clamp(b.x, area.x, high) <= high
        /\ area.x <= b.x /\ b.x <= high => Clamp(b.x, area.x, high) = b.x
    BY <2>2, <2>3, ClampRange
  <2> QED
    BY <2>4 DEF high
<1>4. /\ y \in Int /\ area.y <= y /\ y <= area.y + area.height - s.height
      /\ area.y <= b.y /\ b.y <= area.y + area.height - s.height => y = b.y
  <2>1. area.y <= area.y + area.height - s.height
    BY <1>1, <1>2
  <2> DEFINE high == area.y + area.height - s.height
  <2>2. high \in Int /\ area.y \in Int /\ b.y \in Int
    BY <1>1
  <2>3. area.y <= high
    BY <2>1
  <2> HIDE DEF high
  <2>4. /\ Clamp(b.y, area.y, high) \in Int
        /\ area.y <= Clamp(b.y, area.y, high) /\ Clamp(b.y, area.y, high) <= high
        /\ area.y <= b.y /\ b.y <= high => Clamp(b.y, area.y, high) = b.y
    BY <2>2, <2>3, ClampRange
  <2> QED
    BY <2>4 DEF high
<1>5. Fitted(b, s, area) = [x |-> x, y |-> y, width |-> s.width, height |-> s.height]
  BY DEF Fitted
<1> HIDE DEF x, y
<1>6. Fitted(b, s, area) \in Rect
  BY <1>1, <1>3, <1>4, <1>5 DEF Rect
<1>7. IsWindowContainedInWorkArea(Fitted(b, s, area), area)
  BY <1>1, <1>3, <1>4, <1>5 DEF IsWindowContainedInWorkArea
<1>8. ASSUME s = [width |-> b.width, height |-> b.height],
             IsWindowContainedInWorkArea(b, area)
      PROVE  Fitted(b, s, area) = b
  <2>1. s.width = b.width /\ s.height = b.height
    BY <1>8
  <2>2. x = b.x /\ y = b.y
    BY <1>1, <1>3, <1>4, <1>8, <2>1 DEF IsWindowContainedInWorkArea
  <2> QED
    BY <1>1, <1>5, <2>1, <2>2
<1> QED
  BY <1>6, <1>7, <1>8

\* A window centred in a work area its size fits is inside.
LEMMA CenteredInside ==
  ASSUME NEW s \in Size, NEW area \in Rect, MinimumFitsWorkArea(s, area)
  PROVE  /\ Centered(s, area) \in Rect
         /\ IsWindowContainedInWorkArea(Centered(s, area), area)
<1>1. /\ area.x \in Int /\ area.y \in Int /\ area.width \in Nat /\ area.height \in Nat
      /\ s.width \in Positive /\ s.height \in Positive
      /\ s.width \in Nat /\ s.height \in Nat
  BY DEF Rect, Size, Positive
<1>2. s.width <= area.width /\ s.height <= area.height
  BY DEF MinimumFitsWorkArea
<1>3. \A n \in Nat : Half(n) \in Nat /\ Half(n) <= n
  BY DEF Half
<1>4. /\ Half(area.width - s.width) \in Nat
      /\ Half(area.width - s.width) <= area.width - s.width
      /\ Half(area.height - s.height) \in Nat
      /\ Half(area.height - s.height) <= area.height - s.height
  BY <1>1, <1>2, <1>3
<1> QED
  BY <1>1, <1>4 DEF Centered, Rect, IsWindowContainedInWorkArea

LEMMA CenteredBoundsInside ==
  ASSUME NEW s \in Size, NEW area \in Rect, NEW minimum \in Size
  PROVE  /\ CenteredBounds(s, area, minimum) \in Rect
         /\ IsWindowContainedInWorkArea(CenteredBounds(s, area, minimum), area)
<1>1. s.width \in Positive /\ s.height \in Positive
  BY DEF Size
<1> QED
  BY <1>1, SizeFits, CenteredInside DEF CenteredBounds

LEMMA PreservedInside ==
  ASSUME NEW b \in Rect, NEW s, s.width \in Positive, s.height \in Positive,
         NEW area \in Rect, NEW minimum \in Size
  PROVE  /\ PreserveWindowSizeAcrossDisplay(b, s, area, minimum) \in Rect
         /\ IsWindowContainedInWorkArea(
              PreserveWindowSizeAcrossDisplay(b, s, area, minimum), area)
  BY SizeFits, FittedInside DEF PreserveWindowSizeAcrossDisplay

\* A window that is no smaller than the minimum and lies in the work area is
\* preserved to the pixel.
LEMMA PreservedAsItIs ==
  ASSUME NEW b \in Rect, NEW area \in Rect, NEW minimum \in Size,
         MinimumFitsWorkArea(minimum, b), IsWindowContainedInWorkArea(b, area)
  PROVE  PreserveWindowSizeAcrossDisplay(b, b, area, minimum) = b
<1>1. /\ b.x \in Int /\ b.y \in Int /\ b.width \in Positive /\ b.height \in Positive
      /\ area.x \in Int /\ area.y \in Int /\ area.width \in Nat /\ area.height \in Nat
  BY DEF Rect, Positive
<1>2. MinimumFitsWorkArea(b, area)
  BY <1>1 DEF MinimumFitsWorkArea, IsWindowContainedInWorkArea, Positive
<1> DEFINE c == ClampSizeToWorkArea(b, area, minimum)
<1>3. c \in Size /\ MinimumFitsWorkArea(c, area)
      /\ c = [width |-> b.width, height |-> b.height]
  BY <1>1, <1>2, SizeFits
<1> HIDE DEF c
<1>4. Fitted(b, c, area) = b
  BY <1>3, FittedInside
<1> QED
  BY <1>4 DEF PreserveWindowSizeAcrossDisplay, c

\* What the program chooses for itself is a rectangle.
LEMMA ChosenIsRect ==
  ASSUME NEW target \in Size, NEW area \in Rect, NEW minimum \in Size,
         NEW wide \in BOOLEAN
  PROVE  ChooseMacosWindowBounds(target, area, minimum, wide) \in Rect
<1> DEFINE limit == [width  |-> (86 * area.width) \div 100,
                     height |-> (86 * area.height) \div 100]
           fit == IF wide THEN WideSize(target, limit) ELSE PlainSize(target, limit)
           w == Greatest(fit.width, Least(minimum.width, area.width))
           h == Greatest(fit.height, Least(minimum.height, area.height))
<1>1. /\ area.x \in Int /\ area.y \in Int
      /\ area.width \in Nat /\ area.width > 0 /\ area.height \in Nat /\ area.height > 0
      /\ minimum.width \in Nat /\ minimum.width > 0
      /\ minimum.height \in Nat /\ minimum.height > 0
      /\ target.width \in Nat /\ target.height \in Nat
  BY DEF Rect, Size, Positive
<1>2. limit.width \in Int /\ limit.height \in Int
  BY <1>1
<1> HIDE DEF limit
<1>3. fit.width \in Int /\ fit.height \in Int
  BY <1>1, <1>2 DEF WideSize, PlainSize, Least
<1> HIDE DEF fit
<1>4. w \in Positive /\ h \in Positive
  BY <1>1, <1>3 DEF Greatest, Least, Positive
<1>5. ChooseMacosWindowBounds(target, area, minimum, wide)
        = Centered([width |-> w, height |-> h], area)
  BY DEF ChooseMacosWindowBounds, fit, limit
<1> HIDE DEF w, h
<1>6. Half(area.width - w) \in Int /\ Half(area.height - h) \in Int
  BY <1>1, <1>4 DEF Half, Positive
<1> QED
  BY <1>1, <1>4, <1>5, <1>6 DEF Centered, Rect

-----------------------------------------------------------------------------
(* The selection of a display.                                             *)

\* A set of numbers that is not empty has a least member.
LEMMA LeastNumber ==
  ASSUME NEW T \in SUBSET Nat, T /= {}
  PROVE  \E m \in T : \A n \in T : m <= n
<1> DEFINE below(n) == 0 .. (n - 1)
           U == {below(n) : n \in T}
<1>1. U \subseteq FiniteSubsetsOf(Nat)
  <2>1. \A n \in T : below(n) \subseteq Nat /\ IsFiniteSet(below(n))
    BY FS_Interval
  <2> QED
    BY <2>1 DEF FiniteSubsetsOf
<1>2. U /= {}
  OBVIOUS
<1>3. PICK u \in U : \A v \in U : <<v, u>> \notin StrictSubsetOrdering(Nat)
  BY <1>1, <1>2, FS_StrictSubsetOrderingWellFounded, WFMin
<1>4. PICK m \in T : u = below(m)
  OBVIOUS
<1>5. ASSUME NEW n \in T, n < m
      PROVE  FALSE
  <2>1. below(n) \subseteq below(m) /\ n \notin below(n) /\ n \in below(m)
    BY <1>5
  <2>2. <<below(n), below(m)>> \in StrictSubsetOrdering(Nat)
    BY <2>1 DEF StrictSubsetOrdering
  <2> QED
    BY <1>3, <1>4, <2>2
<1> QED
  BY <1>5

\* An intersection is no larger than the window.
LEMMA AreaBounded ==
  ASSUME NEW b \in Rect, NEW area \in Rect
  PROVE  /\ IntersectionArea(b, area) \in Nat
         /\ b.width * b.height \in Nat
         /\ IntersectionArea(b, area) <= b.width * b.height
<1> DEFINE w == Overlap(b.x, b.width, area.x, area.width)
           h == Overlap(b.y, b.height, area.y, area.height)
<1>1. /\ b.x \in Int /\ b.y \in Int /\ b.width \in Nat /\ b.height \in Nat
      /\ area.x \in Int /\ area.y \in Int /\ area.width \in Nat /\ area.height \in Nat
  BY DEF Rect, Positive
<1>2. w \in Nat /\ w <= b.width
  BY <1>1 DEF Overlap, Greatest, Least
<1>3. h \in Nat /\ h <= b.height
  BY <1>1 DEF Overlap, Greatest, Least
<1> HIDE DEF w, h
<1>4. w * h <= b.width * h
  BY <1>1, <1>2, <1>3
<1>5. b.width * h <= b.width * b.height
  BY <1>1, <1>3
<1>6. w * h \in Nat /\ b.width * h \in Nat /\ b.width * b.height \in Nat
  BY <1>1, <1>2, <1>3
<1>7. w * h <= b.width * b.height
  <2> DEFINE p == w * h
             q == b.width * h
             r == b.width * b.height
  <2>1. p <= q /\ q <= r /\ p \in Nat /\ q \in Nat /\ r \in Nat
    BY <1>4, <1>5, <1>6
  <2> HIDE DEF p, q, r
  <2>2. p <= r
    BY <2>1
  <2> QED
    BY <2>2 DEF p, r
<1>8. IntersectionArea(b, area) = w * h
  BY DEF IntersectionArea, w, h
<1> QED
  BY <1>6, <1>7, <1>8

\* What is selected for a window is the display it overlaps most.
LEMMA SelectIsBest ==
  ASSUME NEW b \in Rect, NEW D \in SUBSET Display, Overlapping(b, D) /= {}
  PROVE  LET s == SelectDisplayForPlacement(b, D)
         IN /\ s \in Overlapping(b, D)
            /\ \A e \in Overlapping(b, D) :
                 \/ IntersectionArea(b, e.workArea) < IntersectionArea(b, s.workArea)
                 \/ /\ IntersectionArea(b, e.workArea) = IntersectionArea(b, s.workArea)
                    /\ s.id <= e.id
<1> DEFINE O == Overlapping(b, D)
           area(d) == IntersectionArea(b, d.workArea)
           K == b.width * b.height
<1>1. O \subseteq D
  BY DEF Overlapping
<1>2. \A d \in O : d.id \in Nat /\ area(d) \in Nat /\ area(d) <= K
  <2>1. \A d \in O : d.id \in Nat /\ d.workArea \in Rect
    BY <1>1 DEF Display
  <2> QED
    BY <2>1, AreaBounded
<1>3. K \in Nat
  BY DEF Rect, Positive
<1> HIDE DEF O, area, K
<1>4. O /= {}
  BY DEF O
<1>5. PICK d0 \in O : \A e \in O : area(e) <= area(d0)
  <2> DEFINE T == {K - area(d) : d \in O}
  <2>1. T \in SUBSET Nat /\ T /= {}
    BY <1>2, <1>3, <1>4
  <2>2. PICK m \in T : \A n \in T : m <= n
    BY <2>1, LeastNumber
  <2>3. PICK d \in O : m = K - area(d)
    BY <2>2
  <2>4. \A e \in O : K - area(d) <= K - area(e)
    BY <2>2, <2>3
  <2>5. \A e \in O : area(e) <= area(d)
    BY <2>4, <1>2, <1>3
  <2> QED
    BY <2>5
<1>6. PICK d1 \in O : /\ area(d1) = area(d0)
                      /\ \A e \in O : area(e) = area(d0) => d1.id <= e.id
  <2> DEFINE T == {d.id : d \in {e \in O : area(e) = area(d0)}}
  <2>1. T \in SUBSET Nat /\ T /= {}
    BY <1>2
  <2>2. PICK m \in T : \A n \in T : m <= n
    BY <2>1, LeastNumber
  <2> QED
    BY <2>2
<1>7. \A e \in O : area(e) < area(d1) \/ (area(e) = area(d1) /\ d1.id <= e.id)
  BY <1>2, <1>5, <1>6
<1> DEFINE best(d) == \A e \in O : area(e) < area(d) \/ (area(e) = area(d) /\ d.id <= e.id)
<1>8. SelectDisplayForPlacement(b, D) = CHOOSE d \in O : best(d)
  BY <1>4 DEF SelectDisplayForPlacement, O, area
<1>9. \E d \in O : best(d)
  BY <1>7
<1> HIDE DEF best
<1>10. /\ (CHOOSE d \in O : best(d)) \in O
       /\ best(CHOOSE d \in O : best(d))
  BY <1>9
<1> QED
  BY <1>8, <1>10 DEF best, O, area

LEMMA SelectIs ==
  ASSUME NEW b \in Rect, NEW D \in SUBSET Display
  PROVE  \/ SelectDisplayForPlacement(b, D) = None
         \/ SelectDisplayForPlacement(b, D) \in D
<1>1. CASE Overlapping(b, D) = {}
  BY <1>1 DEF SelectDisplayForPlacement
<1>2. CASE Overlapping(b, D) /= {}
  BY <1>2, SelectIsBest DEF Overlapping
<1> QED
  BY <1>1, <1>2

LEMMA TheDisplayIs ==
  ASSUME NEW id, NEW D
  PROVE  TheDisplay(id, D) = None \/ TheDisplay(id, D) \in D
<1> SUFFICES ASSUME \E d \in D : \A e \in D : e.id = id <=> e = d
             PROVE  (CHOOSE d \in D : d.id = id) \in D
  BY DEF TheDisplay
<1>1. PICK d \in D : \A e \in D : e.id = id <=> e = d
  OBVIOUS
<1>2. d.id = id
  BY <1>1
<1> QED
  BY <1>2

\* A window that lies in a work area is in the one it overlaps most.
LEMMA FullOverlap ==
  ASSUME NEW b \in Rect, NEW area \in Rect
  PROVE  IsWindowContainedInWorkArea(b, area)
           <=> IntersectionArea(b, area) >= b.width * b.height
<1> DEFINE w == Overlap(b.x, b.width, area.x, area.width)
           h == Overlap(b.y, b.height, area.y, area.height)
<1>1. /\ b.x \in Int /\ b.y \in Int /\ b.width \in Nat /\ b.height \in Nat
      /\ b.width > 0 /\ b.height > 0
      /\ area.x \in Int /\ area.y \in Int /\ area.width \in Nat /\ area.height \in Nat
      /\ area.width > 0 /\ area.height > 0
  BY DEF Rect, Positive
<1>2. /\ w \in Nat /\ w <= b.width
      /\ w = b.width <=> area.x <= b.x /\ b.x + b.width <= area.x + area.width
  BY <1>1 DEF Overlap, Greatest, Least
<1>3. /\ h \in Nat /\ h <= b.height
      /\ h = b.height <=> area.y <= b.y /\ b.y + b.height <= area.y + area.height
  BY <1>1 DEF Overlap, Greatest, Least
<1>4. IntersectionArea(b, area) = w * h
  BY DEF IntersectionArea
<1> DEFINE bw == b.width
           bh == b.height
<1>5. IsWindowContainedInWorkArea(b, area) <=> w = bw /\ h = bh
  BY <1>2, <1>3 DEF IsWindowContainedInWorkArea
<1>6. bw \in Nat /\ bh \in Nat /\ bw > 0 /\ bh > 0 /\ w <= bw /\ h <= bh
  BY <1>1, <1>2, <1>3
<1> HIDE DEF w, h, bw, bh
<1>7. w * h >= bw * bh => w = bw /\ h = bh
  <2>1. ASSUME w < bw
        PROVE  w * h < bw * bh
    <3>1. w * h <= w * bh
      BY <1>2, <1>3, <1>6
    <3>2. w * bh < bw * bh
      BY <1>2, <1>6, <2>1
    <3>3. w * h \in Nat /\ w * bh \in Nat /\ bw * bh \in Nat
      BY <1>2, <1>3, <1>6
    <3> QED
      BY <3>1, <3>2, <3>3
  <2>2. ASSUME h < bh
        PROVE  w * h < bw * bh
    <3>1. w * h <= bw * h
      BY <1>2, <1>3, <1>6
    <3>2. bw * h < bw * bh
      BY <1>3, <1>6, <2>2
    <3>3. w * h \in Nat /\ bw * h \in Nat /\ bw * bh \in Nat
      BY <1>2, <1>3, <1>6
    <3> QED
      BY <3>1, <3>2, <3>3
  <2> DEFINE p == w * h
             q == bw * bh
  <2>3. p \in Nat /\ q \in Nat /\ (w < bw => p < q) /\ (h < bh => p < q)
    BY <1>2, <1>3, <1>6, <2>1, <2>2
  <2> HIDE DEF p, q
  <2>4. p >= q => w = bw /\ h = bh
    BY <1>2, <1>3, <1>6, <2>3
  <2> QED
    BY <2>4 DEF p, q
<1>8. w = bw /\ h = bh => w * h >= bw * bh
  <2>1. bw * bh \in Nat
    BY <1>6
  <2> QED
    BY <2>1
<1>9. bw = b.width /\ bh = b.height
  BY DEF bw, bh
<1> QED
  BY <1>4, <1>5, <1>7, <1>8, <1>9

LEMMA SelectedContains ==
  ASSUME NEW b \in Rect, NEW D \in SUBSET Display, NEW home \in D,
         IsWindowContainedInWorkArea(b, home.workArea)
  PROVE  /\ SelectDisplayForPlacement(b, D) \in D
         /\ IsWindowContainedInWorkArea(b, SelectDisplayForPlacement(b, D).workArea)
<1> DEFINE s == SelectDisplayForPlacement(b, D)
           area(d) == IntersectionArea(b, d.workArea)
           K == b.width * b.height
<1>1. \A d \in D : d.workArea \in Rect /\ d.id \in Nat
  BY DEF Display
<1>2. \A d \in D : /\ area(d) \in Nat /\ area(d) <= K
                   /\ IsWindowContainedInWorkArea(b, d.workArea) <=> area(d) >= K
  BY <1>1, AreaBounded, FullOverlap
<1>3. K \in Nat /\ K > 0
  BY DEF Rect, Positive
<1> HIDE DEF K
<1>4. area(home) = K
  BY <1>2, <1>3
<1>5. home \in Overlapping(b, D)
  BY <1>3, <1>4 DEF Overlapping
<1>6. s \in Overlapping(b, D) /\ \A e \in Overlapping(b, D) :
        area(e) < area(s) \/ (area(e) = area(s) /\ s.id <= e.id)
  BY <1>5, SelectIsBest
<1>7. s \in D
  BY <1>6 DEF Overlapping
<1> HIDE DEF s
<1>8. area(s) >= area(home)
  BY <1>2, <1>5, <1>6, <1>7
<1> QED
  BY <1>2, <1>4, <1>7, <1>8 DEF s

-----------------------------------------------------------------------------
(* What a launch is given.                                                 *)

MaybeRecord == Record \cup {Missing, Malformed}

LEMMA RecordsAreRecords ==
  ASSUME NEW r \in Record
  PROVE  r /= Missing /\ r /= Malformed /\ r /= None
<1>1. "bounds" \in DOMAIN r
  BY DEF Record
<1>2. /\ "bounds" \notin DOMAIN Missing
      /\ "bounds" \notin DOMAIN Malformed
      /\ "bounds" \notin DOMAIN None
  BY DEF Missing, Malformed, None
<1> QED
  BY <1>1, <1>2

\* A launch that is not rejected begins inside one of the screens.
LEMMA NormalIsOnScreen ==
  ASSUME NEW stored \in MaybeRecord, NEW D \in SUBSET Display, NEW primary,
         NEW size \in Size, NEW minimum \in Size,
         ResolveNormalLaunchPlacement(stored, D, primary, size, minimum).status
           /= "rejected"
  PROVE  LET r == ResolveNormalLaunchPlacement(stored, D, primary, size, minimum)
         IN /\ r.bounds \in Rect
            /\ \E d \in D : IsWindowContainedInWorkArea(r.bounds, d.workArea)
<1> DEFINE home == TheDisplay(primary, D)
           display == SelectDisplayForPlacement(stored.bounds, D)
           r == ResolveNormalLaunchPlacement(stored, D, primary, size, minimum)
<1>1. home /= None /\ MinimumFitsWorkArea(minimum, home.workArea)
  BY DEF ResolveNormalLaunchPlacement, Rejected
<1>2. home \in D
  BY <1>1, TheDisplayIs
<1>a. \A d \in D : d.workArea \in Rect
  BY DEF Display
<1>3. CASE r = PrimaryFallback(home, size, minimum)
  BY <1>2, <1>3, <1>a, CenteredBoundsInside DEF PrimaryFallback
<1>4. CASE /\ stored \in Record /\ display /= None
           /\ r = RestoredIn(display, stored, minimum)
  <2>1. stored.bounds \in Rect
    BY <1>4 DEF Record
  <2>2. display \in D
    BY <1>4, <2>1, SelectIs
  <2>3. stored.bounds.width \in Positive /\ stored.bounds.height \in Positive
    BY <2>1 DEF Rect
  <2>4. display.workArea \in Rect
    BY <2>2, <1>a
  <2> HIDE DEF display
  <2>5. r.bounds = PreserveWindowSizeAcrossDisplay(stored.bounds, stored.bounds,
                                              display.workArea, minimum)
    BY <1>4 DEF RestoredIn
  <2> QED
    BY <2>1, <2>2, <2>3, <2>4, <2>5, PreservedInside
<1>5. \/ r = PrimaryFallback(home, size, minimum)
      \/ /\ stored \in Record /\ display /= None
         /\ r = RestoredIn(display, stored, minimum)
  BY <1>1 DEF ResolveNormalLaunchPlacement, MaybeRecord
<1> QED
  BY <1>3, <1>4, <1>5

\* A record that is large enough and lies in a screen is restored as it is.
LEMMA NormalRestores ==
  ASSUME NEW stored \in Record, NEW D \in SUBSET Display, NEW primary,
         NEW size \in Size, NEW minimum \in Size, NEW d \in D,
         MinimumFitsWorkArea(minimum, stored.bounds),
         IsWindowContainedInWorkArea(stored.bounds, d.workArea),
         ResolveNormalLaunchPlacement(stored, D, primary, size, minimum).status
           /= "rejected"
  PROVE  ResolveNormalLaunchPlacement(stored, D, primary, size, minimum).bounds
           = stored.bounds
<1> DEFINE b == stored.bounds
           display == SelectDisplayForPlacement(b, D)
<1>1. b \in Rect
  BY DEF Record
<1>2. display \in D /\ IsWindowContainedInWorkArea(b, display.workArea)
  BY <1>1, SelectedContains
<1>3. display.workArea \in Rect /\ display /= None
  <2>1. display \in Display
    BY <1>2
  <2> HIDE DEF display
  <2>2. "id" \in DOMAIN display /\ "id" \notin DOMAIN None
    BY <2>1 DEF Display, None
  <2> QED
    BY <2>1, <2>2 DEF Display
<1>4. MinimumFitsWorkArea(minimum, display.workArea)
  <2> DEFINE area == display.workArea
  <2>1. area \in Rect /\ IsWindowContainedInWorkArea(b, area)
    BY <1>2, <1>3
  <2> HIDE DEF area
  <2>2. MinimumFitsWorkArea(minimum, b)
    OBVIOUS
  <2>3. MinimumFitsWorkArea(minimum, area)
    BY <1>1, <2>1, <2>2
    DEF MinimumFitsWorkArea, IsWindowContainedInWorkArea, Rect, Size, Positive
  <2> QED
    BY <2>3 DEF area
<1>5. stored \notin {Missing, Malformed}
  BY RecordsAreRecords
<1>6. ResolveNormalLaunchPlacement(stored, D, primary, size, minimum)
        = RestoredIn(display, stored, minimum)
  BY <1>3, <1>4, <1>5 DEF ResolveNormalLaunchPlacement, Rejected
<1>7. RestoredIn(display, stored, minimum).bounds
        = PreserveWindowSizeAcrossDisplay(b, b, display.workArea, minimum)
  BY DEF RestoredIn
<1> HIDE DEF display
<1>8. PreserveWindowSizeAcrossDisplay(b, b, display.workArea, minimum) = b
  BY <1>1, <1>2, <1>3, PreservedAsItIs
<1> QED
  BY <1>6, <1>7, <1>8

\* An acceptance placement, and the displays it was made for.
Plan == [status : {"accepted"}, displayId : Nat, displays : SUBSET Display,
         bounds : Rect]

\* What an acceptance run is given is a plan inside the display it names.
LEMMA AcceptanceIsPlan ==
  ASSUME NEW id \in Nat, NEW D \in SUBSET Display,
         NEW size \in Size, NEW minimum \in Size,
         ResolveAcceptanceLaunchPlacement(id, D, size, minimum).status /= "rejected"
  PROVE  ResolveAcceptanceLaunchPlacement(id, D, size, minimum) \in Plan
<1> DEFINE display == TheDisplay(id, D)
<1>1. display /= None
  BY DEF ResolveAcceptanceLaunchPlacement, Rejected
<1>2. display \in D /\ display.workArea \in Rect
  BY <1>1, TheDisplayIs DEF Display
<1>3. ResolveAcceptanceLaunchPlacement(id, D, size, minimum)
        = [status |-> "accepted", displayId |-> id, displays |-> D,
           bounds |-> CenteredBounds(size, display.workArea, minimum)]
  BY DEF ResolveAcceptanceLaunchPlacement, Rejected
<1> HIDE DEF display
<1>4. CenteredBounds(size, display.workArea, minimum) \in Rect
  BY <1>2, CenteredBoundsInside
<1> QED
  BY <1>3, <1>4 DEF Plan

\* A plan that passes the second look lies in a screen that is still there.
LEMMA RevalidatedIsOnScreen ==
  ASSUME NEW a, NEW D, NEW minimum,
         RevalidateAcceptanceLaunchPlacement(a, D, minimum).status /= "rejected"
  PROVE  /\ RevalidateAcceptanceLaunchPlacement(a, D, minimum) = a
         /\ \E d \in D : IsWindowContainedInWorkArea(a.bounds, d.workArea)
<1> DEFINE display == TheDisplay(a.displayId, D)
<1>1. /\ RevalidateAcceptanceLaunchPlacement(a, D, minimum) = a
      /\ display /= None
      /\ IsWindowContainedInWorkArea(a.bounds, display.workArea)
  BY DEF RevalidateAcceptanceLaunchPlacement, Rejected
<1>2. display \in D
  BY <1>1, TheDisplayIs
<1> QED
  BY <1>1, <1>2

-----------------------------------------------------------------------------
(* Type correctness.                                                       *)

LaunchTypes ==
  /\ process \in [Procs -> Running \cup {"down"}]
  /\ bounds \in [Procs -> Rect \cup {None}]
  /\ \A p \in Procs : process[p] \in Running => bounds[p] \in Rect

WindowTypes ==
  /\ mode \in [Procs -> {"launch", "workbench"}]
  /\ launchSize \in [Procs -> Size]
  /\ ordinary \in [Procs -> BOOLEAN]
  /\ held \in [Procs -> BOOLEAN]
  /\ applying \in [Procs -> BOOLEAN]
  /\ settling \in [Procs -> BOOLEAN]
  /\ dirty \in [Procs -> BOOLEAN]
  /\ saving \in [Procs -> BOOLEAN]

WriteTypes ==
  /\ closing \in [Procs -> BOOLEAN]
  /\ step \in [Procs -> Steps]
  /\ seen \in [Procs -> 0 .. MaxWrites]
  /\ own \in [Procs -> 0 .. MaxWrites]
  /\ writes \in [Procs -> Record \cup {None}]
  /\ \A p \in Procs : step[p] /= "idle" => writes[p] \in Record

Directory == [target : 0 .. MaxWrites, temps : SUBSET Files]

DiskTypes ==
  /\ past \subseteq Directory
  /\ names \in past
  /\ made \in 0 .. MaxWrites
  /\ file \in [Files -> [state : {"none", "partial", "written", "synced"},
                         record : Record \cup {None}]]
  /\ orphans \subseteq Files

CountTypes ==
  /\ screen \in Screens
  /\ gestures \in 0 .. MaxGestures
  /\ stops \in 0 .. MaxStops

LEMMA TypeParts ==
  /\ TypeOK <=> LaunchTypes /\ WindowTypes /\ WriteTypes /\ DiskTypes /\ CountTypes
  /\ TypeOK' <=> LaunchTypes' /\ WindowTypes' /\ WriteTypes' /\ DiskTypes' /\ CountTypes'
<1>1. TypeOK <=> LaunchTypes /\ WindowTypes /\ WriteTypes /\ DiskTypes /\ CountTypes
  BY DEF TypeOK, LaunchTypes, WindowTypes, WriteTypes, DiskTypes, CountTypes, Directory
<1>2. TypeOK' <=> LaunchTypes' /\ WindowTypes' /\ WriteTypes' /\ DiskTypes' /\ CountTypes'
  BY DEF TypeOK, LaunchTypes, WindowTypes, WriteTypes, DiskTypes, CountTypes, Directory
<1> QED
  BY <1>1, <1>2

LEMMA SizesAreSizes ==
  /\ LaunchSize \in Size /\ MinimumLaunch \in Size
  /\ WorkbenchSize \in Size /\ MinimumSupported \in Size
BY DEF LaunchSize, MinimumLaunch, WorkbenchSize, MinimumSupported, Size, Positive

LEMMA InitTypes == Init => TypeOK
<1> SUFFICES ASSUME Init
             PROVE  TypeOK
  OBVIOUS
<1>1. LaunchTypes
  BY DEF Init, LaunchTypes, Running
<1>2. WindowTypes
  BY SizesAreSizes DEF Init, WindowTypes
<1>3. WriteTypes
  BY ParametersAssumption DEF Init, WriteTypes, Steps
<1>4. DiskTypes
  BY ParametersAssumption DEF Init, DiskTypes, Directory, Nowhere, Files
<1>5. CountTypes
  BY ParametersAssumption DEF Init, CountTypes
<1> QED
  BY <1>1, <1>2, <1>3, <1>4, <1>5, TypeParts

LEMMA DisplaysAreDisplays ==
  ASSUME TypeOK
  PROVE  /\ screen.displays \subseteq Display
         /\ TheDisplay(screen.primary, screen.displays) \in screen.displays
  BY ParametersAssumption DEF TypeOK

\* The work area a window is fitted to.
LEMMA WorkAreaIsRect ==
  ASSUME TypeOK, NEW p \in Procs, process[p] \in Running
  PROVE  WorkAreaForWindow(p) \in Rect
<1> DEFINE over == SelectDisplayForPlacement(bounds[p], screen.displays)
           home == TheDisplay(screen.primary, screen.displays)
<1>1. bounds[p] \in Rect
  BY DEF TypeOK
<1>2. over = None \/ over \in screen.displays
  BY <1>1, DisplaysAreDisplays, SelectIs
<1>3. home \in screen.displays
  BY DisplaysAreDisplays
<1>4. \A d \in screen.displays : d.workArea \in Rect
  BY DisplaysAreDisplays DEF Display
<1>5. WorkAreaForWindow(p) = IF over = None THEN home.workArea ELSE over.workArea
  BY DEF WorkAreaForWindow
<1> HIDE DEF over, home
<1> QED
  BY <1>2, <1>3, <1>4, <1>5

LEMMA PreservedIsRect ==
  ASSUME TypeOK, NEW p \in Procs, process[p] \in Running
  PROVE  Preserved(p) \in Rect
<1>1. bounds[p] \in Rect /\ launchSize[p] \in Size
  BY DEF TypeOK
<1>2. launchSize[p].width \in Positive /\ launchSize[p].height \in Positive
  BY <1>1 DEF Size
<1> QED
  BY <1>1, <1>2, WorkAreaIsRect, SizesAreSizes, PreservedInside DEF Preserved

\* What persistOwnerWindowPlacement writes: the place of a window inside one
\* of the screens.
LEMMA PlacementIsSound ==
  ASSUME TypeOK, NEW p \in Procs, process[p] \in Running,
         Placement(p) /= Malformed
  PROVE  Placement(p) \in Record /\ Sound(Placement(p))
<1> DEFINE d == DisplayOf(p)
<1>1. d /= None /\ Placement(p) = [displayId |-> d.id, bounds |-> bounds[p]]
      /\ IsWindowContainedInWorkArea(bounds[p], d.workArea)
  BY DEF Placement, WindowPlacementRecordFromBounds
<1>2. bounds[p] \in Rect
  BY DEF TypeOK
<1>3. d \in screen.displays
  BY <1>1, <1>2, DisplaysAreDisplays, SelectIs DEF DisplayOf
<1>4. d.id \in Nat
  BY <1>3, DisplaysAreDisplays DEF Display
<1>5. screen \in Screens
  BY DEF TypeOK
<1> HIDE DEF d
<1>6. Placement(p) \in Record
  BY <1>1, <1>2, <1>4 DEF Record
<1>7. Sound(Placement(p))
  BY <1>1, <1>3, <1>5 DEF Sound
<1> QED
  BY <1>6, <1>7

-----------------------------------------------------------------------------
(* The inductive invariant.                                                *)

\* A write belongs to a running process and keeps the place of a window that
\* was inside a screen.
Writers ==
  \A p \in Procs : step[p] /= "idle" =>
    process[p] \in Running /\ Sound(writes[p])

\* Each write has a temporary file of its own.
Owners ==
  \A p \in Writing :
    /\ own[p] \in 1 .. made
    /\ file[own[p]].record \in Record /\ Sound(file[own[p]].record)
    /\ \A q \in Writing : own[p] = own[q] => p = q

\* It is flushed before it is published, and until then no directory that a
\* power loss may leave names it as the preference.
Flushed ==
  \A p \in Writing : step[p] /= "fill" => file[own[p]].state = "synced"

Unpublished ==
  \A p \in Writing : step[p] \in {"fill", "recheck", "publish"} =>
    \A d \in past : d.target /= own[p]

Withdrawn ==
  \A p \in Writing : step[p] \in {"sync", "check"} => own[p] \notin names.temps

Targets ==
  \A d \in past :
    d.target <= made /\ (d.target /= 0 => file[d.target].record \in Record)

IInv ==
  /\ TypeOK
  /\ Writers
  /\ Owners
  /\ Flushed
  /\ Unpublished
  /\ Withdrawn
  /\ Targets
  /\ StoredIsSound
  /\ TempsAccounted

LEMMA StoredIsMaybe ==
  ASSUME TypeOK, Targets, NEW stored \in ReadWindowPlacementPreference
  PROVE  stored \in MaybeRecord
<1>1. Stored(names) \in MaybeRecord
  <2>1. names \in past
    BY DEF TypeOK
  <2>2. CASE names.target = 0
    BY <2>2 DEF Stored, MaybeRecord
  <2>3. CASE names.target /= 0
    BY <2>1, <2>3 DEF Targets, Stored, MaybeRecord
  <2> QED
    BY <2>2, <2>3
<1> QED
  BY <1>1 DEF ReadWindowPlacementPreference, MaybeRecord

\* A window constructed at b.
LEMMA ConstructTypes ==
  ASSUME TypeOK, NEW p \in Procs, NEW how \in Running, NEW b \in Rect,
         ConstructWindow(p, how, b)
  PROVE  TypeOK'
<1>1. LaunchTypes'
  BY TypeParts DEF ConstructWindow, LaunchTypes, Running
<1>2. WindowTypes' /\ WriteTypes'
  BY TypeParts DEF ConstructWindow, windowVars, saveVars, writeVars, WindowTypes, WriteTypes
<1>3. DiskTypes' /\ CountTypes'
  BY TypeParts DEF ConstructWindow, diskVars, screenVars, DiskTypes, CountTypes
<1> QED
  BY <1>1, <1>2, <1>3, TypeParts

LEMMA NoWritesTypes ==
  ASSUME TypeOK, NEW P \in SUBSET Procs, NoWrites(P)
  PROVE  WriteTypes'
<1>1. MaxWrites \in Nat /\ 0 \in 0 .. MaxWrites
  BY ParametersAssumption
<1>2. /\ step \in [Procs -> Steps] /\ closing \in [Procs -> BOOLEAN]
      /\ seen \in [Procs -> 0 .. MaxWrites] /\ own \in [Procs -> 0 .. MaxWrites]
      /\ writes \in [Procs -> Record \cup {None}]
      /\ \A p \in Procs : step[p] /= "idle" => writes[p] \in Record
  BY DEF TypeOK
<1>3. closing' \in [Procs -> BOOLEAN] /\ step' \in [Procs -> Steps]
  BY <1>2 DEF NoWrites, Fresh, Steps
<1> DEFINE upTo == 0 .. MaxWrites
           some == Record \cup {None}
<1>4. seen' \in [Procs -> upTo] /\ own' \in [Procs -> upTo]
  <2>1. 0 \in upTo /\ seen \in [Procs -> upTo] /\ own \in [Procs -> upTo]
    BY <1>1, <1>2
  <2> HIDE DEF upTo
  <2> QED
    BY <2>1 DEF NoWrites, Fresh
<1>5. writes' \in [Procs -> some]
  <2>1. None \in some /\ writes \in [Procs -> some]
    BY <1>2
  <2> HIDE DEF some
  <2> QED
    BY <2>1 DEF NoWrites, Fresh
<1>6. \A p \in Procs : step'[p] /= "idle" => writes'[p] \in Record
  BY <1>2 DEF NoWrites, Fresh
<1> QED
  BY <1>3, <1>4, <1>5, <1>6 DEF WriteTypes

LEMMA GoneTypes ==
  ASSUME TypeOK, NEW P \in SUBSET Procs, Gone(P)
  PROVE  LaunchTypes' /\ WindowTypes' /\ WriteTypes'
<1>1. LaunchTypes'
  BY TypeParts DEF Gone, Fresh, LaunchTypes, Running
<1>2. WindowTypes'
  BY TypeParts, SizesAreSizes DEF Gone, Fresh, WindowTypes
<1>3. WriteTypes'
  BY NoWritesTypes DEF Gone
<1> QED
  BY <1>1, <1>2, <1>3

LEMMA LaunchesTypes ==
  ASSUME TypeOK, Targets, NEW p \in Procs, Launches(p)
  PROVE  TypeOK'
<1>1. CASE LaunchNormal(p)
  <2> DEFINE r(s) == ResolveNormalLaunchPlacement(s, screen.displays,
                          screen.primary, LaunchSize, MinimumLaunch)
  <2>1. PICK stored \in ReadWindowPlacementPreference :
          /\ r(stored).status /= "rejected"
          /\ ConstructWindow(p, "normal", r(stored).bounds)
    BY <1>1 DEF LaunchNormal
  <2>2. r(stored).bounds \in Rect
    BY <2>1, StoredIsMaybe, DisplaysAreDisplays, SizesAreSizes, NormalIsOnScreen
  <2> HIDE DEF r
  <2> QED
    BY <2>1, <2>2, ConstructTypes DEF Running
<1>2. CASE \E id \in Acceptance : LaunchAcceptance(p, id)
  <2>1. PICK id \in Acceptance : LaunchAcceptance(p, id)
    BY <1>2
  <2> DEFINE first == ResolveAcceptanceLaunchPlacement(id, screen.displays,
                        LaunchSize, MinimumLaunch)
             again == RevalidateAcceptanceLaunchPlacement(first,
                        screen.displays, MinimumLaunch)
  <2>2. /\ first.status /= "rejected"
        /\ again.status /= "rejected"
        /\ ConstructWindow(p, "acceptance", again.bounds)
    BY <2>1 DEF LaunchAcceptance
  <2>3. id \in Nat
    BY ParametersAssumption
  <2>4. first \in Plan
    BY <2>2, <2>3, DisplaysAreDisplays, SizesAreSizes, AcceptanceIsPlan
  <2> HIDE DEF first
  <2>5. again = first
    BY <2>2, RevalidatedIsOnScreen
  <2> HIDE DEF again
  <2>6. again.bounds \in Rect
    BY <2>4, <2>5 DEF Plan
  <2> QED
    BY <2>2, <2>6, ConstructTypes DEF Running
<1> QED
  BY <1>1, <1>2 DEF Launches

\* The steps of a window change neither a write nor the disk.
WindowOnly == UNCHANGED <<process, screen, stops, writeVars, diskVars>>

LEMMA WindowOnlyTypes ==
  ASSUME TypeOK, WindowOnly, WindowTypes', gestures' \in 0 .. MaxGestures,
         bounds' \in [Procs -> Rect \cup {None}],
         \A p \in Procs : process[p] \in Running => bounds'[p] \in Rect
  PROVE  TypeOK'
<1>1. LaunchTypes'
  BY TypeParts DEF WindowOnly, LaunchTypes
<1>2. WriteTypes' /\ DiskTypes' /\ CountTypes'
  BY TypeParts DEF WindowOnly, writeVars, diskVars, WriteTypes, DiskTypes, CountTypes
<1> QED
  BY <1>1, <1>2, TypeParts

LEMMA GestureTypes ==
  ASSUME TypeOK, Gesture
  PROVE  gestures' \in 0 .. MaxGestures
BY ParametersAssumption DEF TypeOK, Gesture

LEMMA BoundsTypes ==
  ASSUME TypeOK, NEW p \in Procs, NEW b \in Rect, bounds' = [bounds EXCEPT ![p] = b]
  PROVE  /\ bounds' \in [Procs -> Rect \cup {None}]
         /\ \A q \in Procs : process[q] \in Running => bounds'[q] \in Rect
BY DEF TypeOK

LEMMA MovedTypes ==
  ASSUME TypeOK, NEW p \in Procs, NEW unsaved \in BOOLEAN, Moved(p, unsaved)
  PROVE  /\ settling' \in [Procs -> BOOLEAN]
         /\ saving' \in [Procs -> BOOLEAN]
BY DEF TypeOK, Moved

LEMMA SetBoundsTypes ==
  ASSUME TypeOK, NEW p \in Procs, NEW b \in Rect, SetBounds(p, b)
  PROVE  /\ bounds' = [bounds EXCEPT ![p] = b]
         /\ applying' \in [Procs -> BOOLEAN]
         /\ settling' \in [Procs -> BOOLEAN]
         /\ saving' \in [Procs -> BOOLEAN]
<1>1. dirty[p] \in BOOLEAN
  BY DEF TypeOK
<1> QED
  BY <1>1, MovedTypes DEF SetBounds, TypeOK

LEMMA SizeTypes ==
  ASSUME TypeOK, NEW p \in Procs, NEW r \in Rect,
         \/ launchSize' = [launchSize EXCEPT ![p].width = r.width,
                                            ![p].height = r.height]
         \/ launchSize' = launchSize
  PROVE  launchSize' \in [Procs -> Size]
<1>1. launchSize \in [Procs -> Size]
  BY DEF TypeOK
<1>2. [launchSize[p] EXCEPT !.width = r.width, !.height = r.height] \in Size
  BY <1>1 DEF Rect, Size
<1> DEFINE s == [launchSize[p] EXCEPT !.width = r.width, !.height = r.height]
<1>3. \/ launchSize' = [launchSize EXCEPT ![p] = s]
      \/ launchSize' = launchSize
  BY <1>1
<1> HIDE DEF s
<1> QED
  BY <1>1, <1>2, <1>3 DEF s

LEMMA WindowStepTypes ==
  ASSUME TypeOK, NEW p \in Procs, WindowStep(p)
  PROVE  TypeOK'
<1> USE DEF windowVars, saveVars, screenVars
<1>1. CASE OwnerGrabs(p)
  <2>1. Marked(p) \in BOOLEAN
    BY DEF Marked, MayMark, TypeOK
  <2>2. WindowTypes'
    BY <1>1, <2>1 DEF OwnerGrabs, WindowTypes, TypeOK
  <2>3. WindowOnly /\ bounds' = bounds /\ Gesture
    BY <1>1 DEF OwnerGrabs, WindowOnly
  <2> QED
    BY <2>2, <2>3, GestureTypes, WindowOnlyTypes DEF TypeOK
<1>2. CASE OwnerDrags(p)
  <2>1. dirty[p] \in BOOLEAN
    BY DEF TypeOK
  <2>2. WindowTypes'
    BY <1>2, <2>1, MovedTypes DEF OwnerDrags, WindowTypes, TypeOK
  <2>3. WindowOnly /\ Gesture /\ process[p] \in Running
    BY <1>2 DEF OwnerDrags, WindowOnly, Idle
  <2>4. PICK r \in OwnerRects : bounds' = [bounds EXCEPT ![p].x = r.x, ![p].y = r.y]
    BY <1>2 DEF OwnerDrags
  <2>5. bounds[p] \in Rect /\ r \in Rect
    BY <2>3, ParametersAssumption DEF TypeOK
  <2> DEFINE b == [bounds[p] EXCEPT !.x = r.x, !.y = r.y]
  <2>6. b \in Rect
    BY <2>5 DEF Rect
  <2>7. bounds' = [bounds EXCEPT ![p] = b]
    BY <2>4 DEF TypeOK
  <2> HIDE DEF b
  <2> QED
    BY <2>2, <2>3, <2>6, <2>7, BoundsTypes, GestureTypes, WindowOnlyTypes
<1>3. CASE OwnerResizes(p)
  <2>1. Marked(p) \in BOOLEAN
    BY DEF Marked, MayMark, TypeOK
  <2>2. PICK r \in OwnerRects :
          /\ bounds' = [bounds EXCEPT ![p] = r]
          /\ \/ launchSize' = [launchSize EXCEPT ![p].width = r.width,
                                                 ![p].height = r.height]
             \/ launchSize' = launchSize
    BY <1>3 DEF OwnerResizes
  <2>3. r \in Rect
    BY ParametersAssumption
  <2>4. launchSize' \in [Procs -> Size]
    BY <2>2, <2>3, SizeTypes
  <2>5. Moved(p, Marked(p)) /\ dirty' = [dirty EXCEPT ![p] = Marked(p)]
        /\ UNCHANGED <<mode, ordinary, held, applying>>
    BY <1>3 DEF OwnerResizes
  <2>6. WindowTypes'
    BY <2>1, <2>4, <2>5, MovedTypes DEF WindowTypes, TypeOK
  <2>7. WindowOnly /\ Gesture
    BY <1>3 DEF OwnerResizes, WindowOnly
  <2> QED
    BY <2>2, <2>3, <2>6, <2>7, BoundsTypes, GestureTypes, WindowOnlyTypes
<1>4. CASE OwnerChangesState(p)
  <2>1. dirty[p] \in BOOLEAN
    BY DEF TypeOK
  <2>2. WindowTypes'
    BY <1>4, <2>1, MovedTypes DEF OwnerChangesState, WindowTypes, TypeOK
  <2>3. WindowOnly /\ Gesture /\ bounds' = bounds
    BY <1>4 DEF OwnerChangesState, WindowOnly
  <2> QED
    BY <2>2, <2>3, GestureTypes, WindowOnlyTypes DEF TypeOK
<1>5. CASE ImmediateRuns(p)
  <2>1. WindowTypes'
    BY <1>5 DEF ImmediateRuns, WindowTypes, TypeOK
  <2>2. WindowOnly /\ UNCHANGED <<gestures, bounds>>
    BY <1>5 DEF ImmediateRuns, WindowOnly
  <2> QED
    BY <2>1, <2>2, WindowOnlyTypes DEF TypeOK
<1>6. CASE SettleTimer(p)
  <2>1. process[p] \in Running
    BY <1>6 DEF SettleTimer, Idle
  <2>2. Preserved(p) \in Rect
    BY <2>1, PreservedIsRect
  <2>3. WindowOnly /\ UNCHANGED <<gestures, mode, launchSize, ordinary, held, dirty>>
    BY <1>6 DEF SettleTimer, WindowOnly
  <2>4. CASE SetBounds(p, Preserved(p))
    <3>1. WindowTypes'
      BY <2>2, <2>3, <2>4, SetBoundsTypes DEF WindowTypes, TypeOK
    <3>2. bounds' = [bounds EXCEPT ![p] = Preserved(p)]
      BY <2>4 DEF SetBounds
    <3> QED
      BY <2>2, <2>3, <3>1, <3>2, BoundsTypes, WindowOnlyTypes DEF TypeOK
  <2>5. CASE /\ settling' = [settling EXCEPT ![p] = FALSE]
             /\ UNCHANGED <<bounds, applying, saving>>
    <3>1. WindowTypes'
      BY <2>3, <2>5 DEF WindowTypes, TypeOK
    <3> QED
      BY <2>3, <2>5, <3>1, WindowOnlyTypes DEF TypeOK
  <2> QED
    BY <1>6, <2>4, <2>5 DEF SettleTimer
<1>7. ASSUME NEW m \in {"launch", "workbench"}, SetWindowMode(p, m)
      PROVE  TypeOK'
  <2> DEFINE b == IF m = "workbench" THEN WorkbenchBounds(p)
                  ELSE IF mode[p] = "launch" THEN Preserved(p)
                  ELSE ChooseMacosWindowBounds(LaunchSize, WorkAreaForWindow(p),
                                               MinimumLaunch, FALSE)
  <2>1. process[p] \in Running
    BY <1>7 DEF SetWindowMode, Idle
  <2>2. b \in Rect
    BY <2>1, PreservedIsRect, WorkAreaIsRect, SizesAreSizes, ChosenIsRect
    DEF WorkbenchBounds
  <2>3. /\ SetBounds(p, b)
        /\ \/ launchSize' = [launchSize EXCEPT ![p].width = b.width,
                                               ![p].height = b.height]
           \/ launchSize' = launchSize
    BY <1>7 DEF SetWindowMode
  <2>4. /\ mode' = [mode EXCEPT ![p] = m]
        /\ WindowOnly /\ Gesture
        /\ UNCHANGED <<ordinary, held, dirty>>
    BY <1>7 DEF SetWindowMode, WindowOnly
  <2> HIDE DEF b
  <2>5. launchSize' \in [Procs -> Size]
    BY <2>2, <2>3, SizeTypes
  <2>6. WindowTypes'
    BY <2>2, <2>3, <2>4, <2>5, SetBoundsTypes DEF WindowTypes, TypeOK
  <2>7. bounds' = [bounds EXCEPT ![p] = b]
    BY <2>3 DEF SetBounds
  <2> QED
    BY <2>2, <2>4, <2>6, <2>7, BoundsTypes, GestureTypes, WindowOnlyTypes
<1> QED
  BY <1>1, <1>2, <1>3, <1>4, <1>5, <1>6, <1>7 DEF WindowStep

-----------------------------------------------------------------------------
(* Type correctness: the write and the disk.                               *)

LEMMA BeginWriteTypes ==
  ASSUME TypeOK, NEW p \in Procs, NEW last \in BOOLEAN, process[p] \in Running,
         MayWrite(p), BeginWrite(p, last)
  PROVE  TypeOK'
<1> USE DEF windowVars, saveVars, screenVars, diskVars
<1>1. Placement(p) \in Record
  BY PlacementIsSound DEF MayWrite
<1>2. LaunchTypes' /\ CountTypes' /\ DiskTypes'
  BY TypeParts DEF BeginWrite, LaunchTypes, CountTypes, DiskTypes
<1>3. WindowTypes'
  BY DEF BeginWrite, WindowTypes, TypeOK
<1>4. names.target \in 0 .. MaxWrites
  BY DEF TypeOK
<1>5. WriteTypes'
  <2>1. /\ step' \in [Procs -> Steps] /\ closing' \in [Procs -> BOOLEAN]
        /\ seen' \in [Procs -> 0 .. MaxWrites] /\ own' \in [Procs -> 0 .. MaxWrites]
    BY <1>4 DEF BeginWrite, TypeOK, Steps
  <2>2. writes' \in [Procs -> Record \cup {None}]
        /\ \A q \in Procs : step'[q] /= "idle" => writes'[q] \in Record
    BY <1>1 DEF BeginWrite, TypeOK
  <2> QED
    BY <2>1, <2>2 DEF WriteTypes
<1> QED
  BY <1>2, <1>3, <1>5, TypeParts

LEMMA SaveTimerTypes ==
  ASSUME TypeOK, NEW p \in Procs, SaveTimer(p)
  PROVE  TypeOK'
<1>1. CASE MayWrite(p) /\ BeginWrite(p, FALSE)
  BY <1>1, BeginWriteTypes DEF SaveTimer, Idle
<1>2. CASE /\ saving' = [saving EXCEPT ![p] = FALSE]
           /\ UNCHANGED <<screenVars, process, windowVars, dirty, writeVars,
                          diskVars, stops>>
  <2> USE DEF windowVars, screenVars, diskVars, writeVars
  <2>1. LaunchTypes' /\ CountTypes' /\ DiskTypes' /\ WriteTypes'
    BY <1>2, TypeParts DEF LaunchTypes, CountTypes, DiskTypes, WriteTypes
  <2>2. WindowTypes'
    BY <1>2 DEF WindowTypes, TypeOK
  <2> QED
    BY <2>1, <2>2, TypeParts
<1> QED
  BY <1>1, <1>2 DEF SaveTimer

LEMMA CloseTypes ==
  ASSUME TypeOK, NEW p \in Procs, Close(p)
  PROVE  TypeOK'
<1>1. CASE MayWrite(p) /\ BeginWrite(p, TRUE)
  BY <1>1, BeginWriteTypes DEF Close, Idle
<1>2. CASE Gone({p}) /\ UNCHANGED <<diskVars, stops>>
  <2>1. LaunchTypes' /\ WindowTypes' /\ WriteTypes'
    BY <1>2, GoneTypes
  <2>2. CountTypes' /\ DiskTypes'
    BY <1>2, TypeParts DEF Gone, screenVars, diskVars, CountTypes, DiskTypes
  <2> QED
    BY <2>1, <2>2, TypeParts
<1> QED
  BY <1>1, <1>2 DEF Close

LEMMA ReturnTypes ==
  ASSUME TypeOK, NEW p \in Procs, NEW saved \in BOOLEAN, Return(p, saved)
  PROVE  LaunchTypes' /\ WindowTypes' /\ WriteTypes' /\ CountTypes'
<1>1. CASE Gone({p}) /\ UNCHANGED stops
  <2>1. LaunchTypes' /\ WindowTypes' /\ WriteTypes'
    BY <1>1, GoneTypes
  <2>2. CountTypes'
    BY <1>1, TypeParts DEF Gone, screenVars, CountTypes
  <2> QED
    BY <2>1, <2>2
<1>2. CASE /\ NoWrites({p})
           /\ dirty' = [dirty EXCEPT ![p] = @ /\ ~saved]
           /\ UNCHANGED <<screenVars, process, windowVars, saving, stops>>
  <2> USE DEF windowVars, screenVars
  <2>1. LaunchTypes' /\ CountTypes'
    BY <1>2, TypeParts DEF LaunchTypes, CountTypes
  <2>2. WindowTypes'
    BY <1>2 DEF WindowTypes, TypeOK
  <2>3. WriteTypes'
    BY <1>2, NoWritesTypes
  <2> QED
    BY <2>1, <2>2, <2>3
<1> QED
  BY <1>1, <1>2 DEF Return

LEMMA WithoutOwnIsDirectory ==
  ASSUME TypeOK, NEW p \in Procs
  PROVE  WithoutOwn(p) \in Directory
<1>1. names \in Directory
  BY DEF TypeOK, Directory
<1> QED
  BY <1>1 DEF WithoutOwn, Directory

LEMMA RenameTypes ==
  ASSUME TypeOK, NEW d \in Directory, Rename(d), UNCHANGED <<made, file, orphans>>
  PROVE  DiskTypes'
BY TypeParts DEF Rename, DiskTypes

LEMMA FailedTypes ==
  ASSUME TypeOK, NEW p \in Procs, Failed(p)
  PROVE  TypeOK'
<1>1. LaunchTypes' /\ WindowTypes' /\ WriteTypes' /\ CountTypes'
  BY ReturnTypes DEF Failed
<1>2. DiskTypes'
  <2>1. CASE Rename(WithoutOwn(p))
    BY <2>1, WithoutOwnIsDirectory, RenameTypes DEF Failed
  <2>2. CASE UNCHANGED <<names, past>>
    BY <2>2, TypeParts DEF Failed, DiskTypes
  <2> QED
    BY <2>1, <2>2 DEF Failed
<1> QED
  BY <1>1, <1>2, TypeParts

LEMMA GoToTypes ==
  ASSUME TypeOK, NEW p \in Procs, step[p] /= "idle", NEW next \in Steps,
         GoTo(p, next), own' \in [Procs -> 0 .. MaxWrites]
  PROVE  LaunchTypes' /\ WindowTypes' /\ WriteTypes' /\ CountTypes'
<1> USE DEF windowVars, screenVars, saveVars
<1>1. LaunchTypes' /\ CountTypes' /\ WindowTypes'
  BY TypeParts DEF GoTo, LaunchTypes, CountTypes, WindowTypes
<1>2. WriteTypes'
  BY TypeParts DEF GoTo, WriteTypes
<1> QED
  BY <1>1, <1>2

LEMMA WriteStepTypes ==
  ASSUME TypeOK, NEW p \in Procs, WriteStep(p)
  PROVE  TypeOK'
<1>a. /\ names \in Directory /\ names \in past /\ past \subseteq Directory
      /\ own \in [Procs -> 0 .. MaxWrites]
      /\ own[p] \in 0 .. MaxWrites /\ made \in 0 .. MaxWrites /\ MaxWrites \in Nat
  BY ParametersAssumption DEF TypeOK, Directory
<1>b. \A s \in {"fill", "recheck", "publish", "unlink", "sync", "check"} : s \in Steps
  BY DEF Steps
<1>1. CASE CreateTemporary(p)
  <2>1. made + 1 \in Files /\ made + 1 \in 0 .. MaxWrites
    BY <1>1, <1>a DEF CreateTemporary, Files
  <2>2. own' \in [Procs -> 0 .. MaxWrites]
    BY <1>1, <1>a, <2>1 DEF CreateTemporary
  <2>3. LaunchTypes' /\ WindowTypes' /\ WriteTypes' /\ CountTypes'
    BY <1>1, <2>2, GoToTypes DEF CreateTemporary, At, Steps
  <2>4. [names EXCEPT !.temps = @ \cup {made'}] \in Directory
    BY <1>1, <1>a, <2>1 DEF CreateTemporary, Directory
  <2>5. past' \subseteq Directory /\ names' \in past'
    BY <1>1, <1>a, <2>4 DEF CreateTemporary, Rename
  <2>6. writes[p] \in Record
    BY <1>1 DEF CreateTemporary, At, TypeOK
  <2>7. DiskTypes'
    BY <1>1, <2>1, <2>5, <2>6, TypeParts DEF CreateTemporary, DiskTypes
  <2> QED
    BY <2>3, <2>7, TypeParts
<1>2. CASE FillTemporary(p)
  <2>1. LaunchTypes' /\ WindowTypes' /\ WriteTypes' /\ CountTypes'
    BY <1>2, <1>a, GoToTypes DEF FillTemporary, At, Steps
  <2>2. DiskTypes'
    BY <1>2, TypeParts DEF FillTemporary, WriteAndSync, DiskTypes
  <2> QED
    BY <2>1, <2>2, TypeParts
<1>3. CASE Recheck(p)
  <2>1. CASE Failed(p)
    BY <2>1, FailedTypes
  <2>2. CASE GoTo(p, "publish") /\ UNCHANGED <<own, diskVars>>
    <3>1. LaunchTypes' /\ WindowTypes' /\ WriteTypes' /\ CountTypes'
      BY <1>3, <2>2, <1>a, GoToTypes DEF Recheck, At, Steps
    <3>2. DiskTypes'
      BY <2>2, TypeParts DEF diskVars, DiskTypes
    <3> QED
      BY <3>1, <3>2, TypeParts
  <2> QED
    BY <1>3, <2>1, <2>2 DEF Recheck
<1>4. CASE Publish(p)
  <2>1. CASE Failed(p)
    BY <2>1, FailedTypes
  <2>2. CASE /\ Rename([names EXCEPT !.target = own[p]])
             /\ GoTo(p, "unlink")
             /\ UNCHANGED <<own, made, file, orphans>>
    <3>1. LaunchTypes' /\ WindowTypes' /\ WriteTypes' /\ CountTypes'
      BY <1>4, <2>2, <1>a, GoToTypes DEF Publish, At, Steps
    <3>2. [names EXCEPT !.target = own[p]] \in Directory
      BY <1>a DEF Directory
    <3> QED
      BY <2>2, <3>1, <3>2, RenameTypes, TypeParts
  <2>3. CASE /\ Rename([target |-> own[p], temps |-> names.temps \ {own[p]}])
             /\ GoTo(p, "sync")
             /\ UNCHANGED <<own, made, file, orphans>>
    <3>1. LaunchTypes' /\ WindowTypes' /\ WriteTypes' /\ CountTypes'
      BY <1>4, <2>3, <1>a, GoToTypes DEF Publish, At, Steps
    <3>2. [target |-> own[p], temps |-> names.temps \ {own[p]}] \in Directory
      BY <1>a DEF Directory
    <3> QED
      BY <2>3, <3>1, <3>2, RenameTypes, TypeParts
  <2> QED
    BY <1>4, <2>1, <2>2, <2>3 DEF Publish, PublishAs
<1>5. CASE UnlinkTemporary(p)
  <2>1. LaunchTypes' /\ WindowTypes' /\ WriteTypes' /\ CountTypes'
    BY <1>5, <1>a, GoToTypes DEF UnlinkTemporary, At, Steps
  <2>2. DiskTypes'
    BY <1>5, WithoutOwnIsDirectory, RenameTypes DEF UnlinkTemporary
  <2> QED
    BY <2>1, <2>2, TypeParts
<1>6. CASE SyncDirectory(p)
  <2>1. LaunchTypes' /\ WindowTypes' /\ WriteTypes' /\ CountTypes'
    BY <1>6, <1>a, GoToTypes DEF SyncDirectory, At, Steps
  <2>2. DiskTypes'
    BY <1>6, TypeParts DEF SyncDirectory, DiskTypes
  <2> QED
    BY <2>1, <2>2, TypeParts
<1>7. CASE FinalCheck(p)
  <2>1. LaunchTypes' /\ WindowTypes' /\ WriteTypes' /\ CountTypes'
    BY <1>7, ReturnTypes DEF FinalCheck
  <2>2. DiskTypes'
    BY <1>7, TypeParts DEF FinalCheck, diskVars, DiskTypes
  <2> QED
    BY <2>1, <2>2, TypeParts
<1> QED
  BY <1>1, <1>2, <1>3, <1>4, <1>5, <1>6, <1>7 DEF WriteStep

LEMMA CrashTypes ==
  ASSUME TypeOK, NEW p \in Procs, Crash(p)
  PROVE  TypeOK'
<1>1. LaunchTypes' /\ WindowTypes' /\ WriteTypes'
  BY GoneTypes DEF Crash
<1>2. CountTypes'
  BY ParametersAssumption DEF Crash, Stop, Gone, screenVars, CountTypes, TypeOK
<1>3. names.temps \subseteq Files
  BY DEF TypeOK
<1>4. DiskTypes'
  BY <1>3, TypeParts DEF Crash, DiskTypes
<1> QED
  BY <1>1, <1>2, <1>4, TypeParts

LEMMA DisplaysChangeTypes ==
  ASSUME TypeOK, DisplaysChange
  PROVE  TypeOK'
<1> USE DEF saveVars, writeVars, diskVars
<1>1. WindowTypes'
  BY DEF DisplaysChange, WindowTypes, TypeOK
<1>2. LaunchTypes' /\ WriteTypes' /\ DiskTypes'
  BY TypeParts DEF DisplaysChange, LaunchTypes, WriteTypes, DiskTypes
<1>3. CountTypes'
  BY GestureTypes, TypeParts DEF DisplaysChange, CountTypes
<1> QED
  BY <1>1, <1>2, <1>3, TypeParts

LEMMA PowerLossTypes ==
  ASSUME TypeOK, PowerLoss
  PROVE  TypeOK'
<1>1. LaunchTypes' /\ WindowTypes' /\ WriteTypes'
  BY GoneTypes DEF PowerLoss
<1>2. CountTypes'
  BY ParametersAssumption DEF PowerLoss, Stop, Gone, screenVars, CountTypes, TypeOK
<1>3. PICK d \in past : names' = d /\ past' = {d} /\ orphans' = orphans \cup d.temps
  BY DEF PowerLoss
<1>4. d \in Directory /\ d.temps \subseteq Files
  BY DEF TypeOK, Directory
<1>5. file' \in [Files -> [state : {"none", "partial", "written", "synced"},
                           record : Record \cup {None}]]
  BY DEF PowerLoss, TypeOK
<1>6. DiskTypes'
  BY <1>3, <1>4, <1>5, TypeParts DEF PowerLoss, DiskTypes
<1> QED
  BY <1>1, <1>2, <1>6, TypeParts

LEMMA TypeStep ==
  ASSUME TypeOK, Targets, [Next]_vars
  PROVE  TypeOK'
<1>1. CASE UNCHANGED vars
  <2>1. /\ LaunchTypes' /\ WindowTypes' /\ WriteTypes' /\ DiskTypes' /\ CountTypes'
    BY <1>1, TypeParts DEF vars, screenVars, windowVars, saveVars,
         writeVars, diskVars, LaunchTypes, WindowTypes, WriteTypes, DiskTypes, CountTypes
  <2> QED
    BY <2>1, TypeParts
<1>2. ASSUME NEW p \in Procs, CallFails(p)
      PROVE  TypeOK'
  BY <1>2, FailedTypes DEF CallFails
<1> QED
  BY <1>1, <1>2, LaunchesTypes, WindowStepTypes, SaveTimerTypes, CloseTypes,
     WriteStepTypes, CrashTypes, DisplaysChangeTypes, PowerLossTypes DEF Next

LEMMA InitInv == Init => IInv
<1> SUFFICES ASSUME Init
             PROVE  IInv
  OBVIOUS
<1>1. Writing = {}
  BY DEF Init, Writing
<1>2. Writers /\ Owners /\ Flushed /\ Unpublished /\ Withdrawn
  BY <1>1 DEF Init, Writers, Owners, Flushed, Unpublished, Withdrawn
<1>3. Targets /\ StoredIsSound
  BY DEF Init, Targets, StoredIsSound, Nowhere
<1>4. TempsAccounted
  BY DEF Init, TempsAccounted, Nowhere
<1> QED
  BY <1>2, <1>3, <1>4, InitTypes DEF IInv

DiskInv ==
  Writers /\ Owners /\ Flushed /\ Unpublished /\ Withdrawn /\ Targets
    /\ StoredIsSound /\ TempsAccounted

\* A step that leaves the writes and the disk alone, and ends no process that
\* writes.
LEMMA QuietInv ==
  ASSUME IInv, UNCHANGED <<step, own, writes, diskVars>>,
         \A p \in Procs : process[p] \in Running => process'[p] \in Running
  PROVE  DiskInv'
<1>1. Writing' = Writing
  BY DEF Writing
<1>2. Writers'
  BY DEF IInv, Writers
<1>3. Owners' /\ Flushed' /\ Unpublished' /\ Withdrawn' /\ Targets'
  BY <1>1 DEF IInv, Owners, Flushed, Unpublished, Withdrawn, Targets, diskVars
<1>4. StoredIsSound' /\ TempsAccounted'
  BY <1>1 DEF IInv, StoredIsSound, TempsAccounted, diskVars
<1> QED
  BY <1>2, <1>3, <1>4 DEF DiskInv

\* The write of p is over, and so may be its process; what is left of its
\* temporary file is an orphan.
LEMMA EndInv ==
  ASSUME IInv, NEW p \in Procs, NoWrites({p}),
         \A q \in Procs \ {p} : process'[q] = process[q],
         UNCHANGED <<made, file>>,
         names' = names \/ names' = WithoutOwn(p),
         past' = past \/ past' = past \cup {names'},
         orphans \subseteq orphans',
         p \in Writing /\ own[p] \in names'.temps => own[p] \in orphans'
  PROVE  DiskInv'
<1>1. /\ \A q \in Procs : q /= p => /\ step'[q] = step[q] /\ own'[q] = own[q]
                                    /\ writes'[q] = writes[q]
      /\ step'[p] = "idle"
  BY DEF NoWrites, Fresh
<1>2. Writing' = Writing \ {p}
  BY <1>1 DEF Writing
<1>3. names \in past /\ names'.target = names.target /\ names'.temps \subseteq names.temps
  BY DEF IInv, TypeOK, WithoutOwn
<1>4. \A d \in past' : \E e \in past : d.target = e.target
  BY <1>3
<1>5. Writers'
  BY <1>1 DEF IInv, Writers
<1>6. Owners' /\ Flushed'
  BY <1>1, <1>2 DEF IInv, Owners, Flushed, Writing
<1>7. Unpublished'
  BY <1>1, <1>2, <1>4 DEF IInv, Unpublished, Writing
<1>8. Withdrawn'
  BY <1>1, <1>2, <1>3 DEF IInv, Withdrawn, Writing
<1>9. Targets' /\ StoredIsSound'
  BY <1>4 DEF IInv, Targets, StoredIsSound
<1>10. TempsAccounted'
  <2>1. SUFFICES ASSUME NEW i \in names'.temps
                 PROVE  i \in orphans' \cup {own'[q] : q \in Writing'}
    BY DEF TempsAccounted
  <2>2. i \in orphans \/ \E q \in Writing : i = own[q]
    BY <1>3 DEF IInv, TempsAccounted
  <2> QED
    BY <1>1, <1>2, <2>2 DEF Writing
<1> QED
  BY <1>5, <1>6, <1>7, <1>8, <1>9, <1>10 DEF DiskInv

LEMMA GoneInv ==
  ASSUME IInv, NEW p \in Procs, Gone({p}), UNCHANGED diskVars, step[p] = "idle"
  PROVE  DiskInv'
<1>1. NoWrites({p}) /\ \A q \in Procs \ {p} : process'[q] = process[q]
  BY DEF Gone, Fresh
<1>2. p \notin Writing
  BY DEF Writing
<1> QED
  BY <1>1, <1>2, EndInv DEF diskVars

LEMMA ReturnEnds ==
  ASSUME IInv, NEW p \in Procs, NEW saved \in BOOLEAN, Return(p, saved)
  PROVE  NoWrites({p}) /\ \A q \in Procs \ {p} : process'[q] = process[q]
<1>1. CASE Gone({p})
  BY <1>1 DEF Gone, Fresh
<1>2. CASE NoWrites({p}) /\ UNCHANGED process
  BY <1>2 DEF Return
<1> QED
  BY <1>1, <1>2 DEF Return

LEMMA FailedInv ==
  ASSUME IInv, NEW p \in Procs, Failed(p)
  PROVE  DiskInv'
<1>1. NoWrites({p}) /\ \A q \in Procs \ {p} : process'[q] = process[q]
  BY ReturnEnds DEF Failed
<1>2. UNCHANGED <<made, file, orphans>>
  BY DEF Failed
<1>3. CASE own[p] \in names.temps /\ Rename(WithoutOwn(p))
  <2>1. own[p] \notin names'.temps
    BY <1>3 DEF Rename, WithoutOwn, IInv, TypeOK
  <2> QED
    BY <1>1, <1>2, <1>3, <2>1, EndInv DEF Rename
<1>4. CASE own[p] \notin names.temps /\ UNCHANGED <<names, past>>
  BY <1>1, <1>2, <1>4, EndInv
<1> QED
  BY <1>3, <1>4 DEF Failed

LEMMA LaunchesInv ==
  ASSUME IInv, NEW p \in Procs, Launches(p)
  PROVE  DiskInv'
<1> USE DEF writeVars, diskVars
<1>1. ASSUME NEW how \in Running, NEW b, process[p] = "down",
             ConstructWindow(p, how, b)
      PROVE  DiskInv'
  <2>1. UNCHANGED <<step, own, writes, diskVars>>
        /\ \A q \in Procs : process[q] \in Running => process'[q] \in Running
    BY <1>1 DEF ConstructWindow, IInv, TypeOK
  <2> QED
    BY <2>1, QuietInv
<1>2. CASE LaunchNormal(p)
  <2>1. \E b : ConstructWindow(p, "normal", b)
    BY <1>2 DEF LaunchNormal
  <2> QED
    BY <1>1, <1>2, <2>1 DEF LaunchNormal, Running
<1>3. CASE \E id \in Acceptance : LaunchAcceptance(p, id)
  <2>1. \E b : ConstructWindow(p, "acceptance", b)
    BY <1>3 DEF LaunchAcceptance
  <2> QED
    BY <1>1, <1>3, <2>1 DEF LaunchAcceptance, Running
<1> QED
  BY <1>2, <1>3 DEF Launches

LEMMA WindowStepInv ==
  ASSUME IInv, NEW p \in Procs, WindowStep(p)
  PROVE  DiskInv'
<1>1. UNCHANGED <<process, step, own, writes, diskVars>>
  <2> USE DEF writeVars
  <2>1. CASE OwnerGrabs(p) \/ OwnerDrags(p) \/ OwnerResizes(p)
    BY <2>1 DEF OwnerGrabs, OwnerDrags, OwnerResizes
  <2>2. CASE OwnerChangesState(p) \/ ImmediateRuns(p) \/ SettleTimer(p)
    BY <2>2 DEF OwnerChangesState, ImmediateRuns, SettleTimer
  <2>3. CASE \E m \in {"launch", "workbench"} : SetWindowMode(p, m)
    BY <2>3 DEF SetWindowMode
  <2> QED
    BY <2>1, <2>2, <2>3 DEF WindowStep
<1> QED
  BY <1>1, QuietInv

LEMMA BeginWriteInv ==
  ASSUME IInv, NEW p \in Procs, NEW last \in BOOLEAN, Idle(p), MayWrite(p),
         BeginWrite(p, last)
  PROVE  DiskInv'
<1>1. /\ step' = [step EXCEPT ![p] = "create"]
      /\ writes' = [writes EXCEPT ![p] = Placement(p)]
      /\ UNCHANGED <<process, own, diskVars>>
  BY DEF BeginWrite
<1>2. Sound(Placement(p)) /\ process[p] \in Running /\ step[p] = "idle"
  BY PlacementIsSound DEF MayWrite, Idle, IInv
<1>3. Writing' = Writing
  BY <1>1, <1>2 DEF Writing, IInv, TypeOK
<1>4. \A q \in Writing : step'[q] = step[q]
  BY <1>1, <1>2 DEF Writing, IInv, TypeOK
<1>5. Writers'
  BY <1>1, <1>2 DEF IInv, TypeOK, Writers
<1>6. Owners' /\ Flushed' /\ Unpublished' /\ Withdrawn' /\ Targets'
  BY <1>1, <1>3, <1>4 DEF IInv, Owners, Flushed, Unpublished, Withdrawn, Targets, diskVars
<1>7. StoredIsSound' /\ TempsAccounted'
  BY <1>1, <1>3 DEF IInv, StoredIsSound, TempsAccounted, diskVars
<1> QED
  BY <1>5, <1>6, <1>7 DEF DiskInv

\* The others' writes as a step of p's write leaves them.
OthersKept(p) ==
  /\ \A q \in Procs \ {p} : step'[q] = step[q] /\ own'[q] = own[q]
  /\ UNCHANGED <<process, writes>>

LEMMA GoToKeeps ==
  ASSUME IInv, NEW p \in Procs, NEW next, GoTo(p, next),
         \A q \in Procs \ {p} : own'[q] = own[q]
  PROVE  OthersKept(p) /\ step'[p] = next
BY DEF GoTo, OthersKept, IInv, TypeOK

LEMMA CreateInv ==
  ASSUME IInv, NEW p \in Procs, CreateTemporary(p)
  PROVE  DiskInv'
<1> DEFINE n == made + 1
<1>1. /\ step[p] = "create" /\ process[p] \in Running
      /\ made' = n /\ own' = [own EXCEPT ![p] = n]
      /\ file' = [file EXCEPT ![n] = [state |-> "partial", record |-> writes[p]]]
      /\ names' = [names EXCEPT !.temps = @ \cup {n}]
      /\ past' = past \cup {names'}
      /\ orphans' = orphans
      /\ GoTo(p, "fill")
  BY DEF CreateTemporary, At, Rename
<1>2. made \in Nat /\ n \in Nat /\ n \in Files /\ n > made
  BY ParametersAssumption DEF CreateTemporary, IInv, TypeOK, Files
<1> HIDE DEF n
<1>3. own'[p] = n /\ \A q \in Procs \ {p} : own'[q] = own[q]
  BY <1>1 DEF IInv, TypeOK
<1>4. OthersKept(p) /\ step'[p] = "fill"
  BY <1>1, <1>3, GoToKeeps
<1>5. p \notin Writing /\ Writing' = Writing \cup {p}
  BY <1>1, <1>4 DEF Writing, OthersKept
<1>6. file'[n] = [state |-> "partial", record |-> writes[p]]
      /\ \A i \in Files : i /= n => file'[i] = file[i]
  BY <1>1, <1>2 DEF IInv, TypeOK
<1>7. writes[p] \in Record /\ Sound(writes[p])
  BY <1>1 DEF IInv, TypeOK, Writers
<1>8. \A q \in Writing : own[q] \in 1 .. made /\ own[q] \in Files /\ own[q] /= n
  BY <1>2, ParametersAssumption DEF IInv, Owners, Files, TypeOK
<1>9. /\ names \in past /\ names'.target = names.target
      /\ names'.temps = names.temps \cup {n}
  BY <1>1 DEF IInv, TypeOK
<1>10. \A d \in past' : \E e \in past : d.target = e.target
  BY <1>1, <1>9
<1>11. \A d \in past : /\ d.target <= made /\ d.target \in Nat /\ d.target /= n
                       /\ d.target /= 0 => d.target \in Files
  BY <1>2, ParametersAssumption DEF IInv, Targets, TypeOK, Files
<1>12. Writers'
  BY <1>1, <1>4 DEF IInv, Writers, OthersKept
<1>13. Owners'
  <2>1. ASSUME NEW q \in Writing
        PROVE  /\ own'[q] \in 1 .. made' /\ own'[q] /= own'[p]
               /\ file'[own'[q]].record \in Record /\ Sound(file'[own'[q]].record)
               /\ \A r \in Writing : own'[q] = own'[r] => q = r
    <3>1. own'[q] = own[q] /\ \A r \in Writing : own'[r] = own[r]
      BY <1>4, <1>5 DEF OthersKept, Writing
    <3> QED
      BY <1>1, <1>2, <1>3, <1>6, <1>8, <3>1 DEF IInv, Owners
  <2>2. /\ own'[p] \in 1 .. made'
        /\ file'[own'[p]].record \in Record /\ Sound(file'[own'[p]].record)
    BY <1>1, <1>2, <1>3, <1>6, <1>7
  <2> QED
    BY <1>5, <2>1, <2>2 DEF Owners
<1>14. Flushed'
  BY <1>4, <1>5, <1>6, <1>8 DEF IInv, Flushed, OthersKept, Writing
<1>15. Unpublished'
  <2>1. \A q \in Writing : own'[q] = own[q] /\ step'[q] = step[q]
    BY <1>4, <1>5 DEF OthersKept, Writing
  <2>2. \A d \in past' : d.target /= own'[p]
    BY <1>3, <1>10, <1>11
  <2> QED
    BY <1>5, <1>10, <2>1, <2>2 DEF IInv, Unpublished
<1>16. Withdrawn'
  <2>1. \A q \in Writing : own'[q] = own[q] /\ step'[q] = step[q]
    BY <1>4, <1>5 DEF OthersKept, Writing
  <2> QED
    BY <1>4, <1>5, <1>8, <1>9, <2>1 DEF IInv, Withdrawn
<1>17. Targets' /\ StoredIsSound'
  <2>1. \A d \in past' : /\ d.target <= made'
                         /\ d.target /= 0 => file'[d.target] = file[d.target]
    BY <1>1, <1>2, <1>6, <1>10, <1>11
  <2> QED
    BY <1>10, <2>1 DEF IInv, Targets, StoredIsSound
<1>18. TempsAccounted'
  <2>1. \A q \in Writing : own'[q] = own[q]
    BY <1>4, <1>5 DEF OthersKept, Writing
  <2> QED
    BY <1>1, <1>3, <1>5, <1>9, <2>1 DEF IInv, TempsAccounted
<1> QED
  BY <1>12, <1>13, <1>14, <1>15, <1>16, <1>17, <1>18 DEF DiskInv

LEMMA FillInv ==
  ASSUME IInv, NEW p \in Procs, FillTemporary(p)
  PROVE  DiskInv'
<1>1. /\ step[p] = "fill" /\ process[p] \in Running
      /\ file' = [file EXCEPT ![own[p]].state = "synced"]
      /\ UNCHANGED <<names, past, made, orphans, own>>
      /\ GoTo(p, "recheck")
  BY DEF FillTemporary, WriteAndSync, At
<1>2. OthersKept(p) /\ step'[p] = "recheck"
  BY <1>1, GoToKeeps
<1>3. p \in Writing /\ Writing' = Writing
  BY <1>1, <1>2 DEF Writing, OthersKept
<1>4. \A i \in Files : /\ file'[i].record = file[i].record
                       /\ file'[i].state = file[i].state \/ file'[i].state = "synced"
  BY <1>1 DEF IInv, TypeOK
<1>5. \A q \in Writing : own[q] \in Files
  BY ParametersAssumption DEF IInv, Owners, TypeOK, Files
<1>6. file'[own[p]].state = "synced"
  BY <1>1, <1>3, <1>5 DEF IInv, TypeOK
<1>7. \A d \in past : d.target /= 0 => d.target \in Files
  BY ParametersAssumption DEF IInv, TypeOK, Files
<1>8. Writers'
  BY <1>1, <1>2 DEF IInv, Writers, OthersKept
<1>9. Owners'
  BY <1>1, <1>3, <1>4, <1>5 DEF IInv, Owners
<1>10. Flushed'
  BY <1>1, <1>2, <1>3, <1>4, <1>5, <1>6 DEF IInv, Flushed, OthersKept, Writing
<1>11. Unpublished' /\ Withdrawn'
  BY <1>1, <1>2, <1>3 DEF IInv, Unpublished, Withdrawn, OthersKept, Writing
<1>12. Targets' /\ StoredIsSound'
  BY <1>1, <1>4, <1>7 DEF IInv, Targets, StoredIsSound
<1>13. TempsAccounted'
  BY <1>1, <1>3 DEF IInv, TempsAccounted
<1> QED
  BY <1>8, <1>9, <1>10, <1>11, <1>12, <1>13 DEF DiskInv

\* A step of p's write that changes the directory to one whose target is the
\* old one or p's temporary file.
LEMMA MoveInv ==
  ASSUME IInv, NEW p \in Writing, NEW next \in {"publish", "unlink", "sync", "check"},
         GoTo(p, next), UNCHANGED <<own, made, file, orphans>>,
         step[p] /= "fill",
         names'.target \in {names.target, own[p]},
         names'.temps \subseteq names.temps,
         past' \subseteq past \cup {names'},
         next = "publish" => past' = past /\ step[p] = "recheck",
         next = "sync" => own[p] \notin names'.temps,
         next = "check" => step[p] = "sync" /\ names' = names
  PROVE  DiskInv'
<1>1. p \in Procs
  BY DEF Writing
<1>2. OthersKept(p) /\ step'[p] = next
  BY <1>1, GoToKeeps
<1>3. Writing' = Writing
  BY <1>2 DEF Writing, OthersKept
<1>4. \A q \in Writing : q /= p => step'[q] = step[q] /\ own[q] /= own[p]
  BY <1>2 DEF OthersKept, Writing, IInv, Owners
<1>5. file[own[p]].state = "synced"
      /\ own[p] \in 1 .. made
      /\ file[own[p]].record \in Record /\ Sound(file[own[p]].record)
  BY DEF IInv, Flushed, Owners
<1>6. names \in past
  BY DEF IInv, TypeOK
<1>7. \A d \in past' : d.target = own[p] \/ \E e \in past : d.target = e.target
  BY <1>6
<1>8. Writers'
  BY <1>1, <1>2 DEF IInv, Writers, OthersKept, Writing
<1>9. Owners'
  BY <1>3 DEF IInv, Owners
<1>10. Flushed'
  BY <1>3, <1>4, <1>5 DEF IInv, Flushed
<1>11. Unpublished'
  <2>1. ASSUME NEW q \in Writing, q /= p,
               step[q] \in {"fill", "recheck", "publish"}, NEW d \in past'
        PROVE  d.target /= own[q]
    BY <1>4, <1>7, <2>1 DEF IInv, Unpublished
  <2>2. ASSUME next = "publish", NEW d \in past'
        PROVE  d.target /= own[p]
    BY <2>2 DEF IInv, Unpublished
  <2> QED
    BY <1>2, <1>3, <1>4, <2>1, <2>2 DEF Unpublished
<1>12. Withdrawn'
  BY <1>2, <1>3, <1>4 DEF IInv, Withdrawn
<1>13. Targets' /\ StoredIsSound'
  <2>1. made \in Nat
    BY ParametersAssumption DEF IInv, TypeOK
  <2> QED
    BY <1>5, <1>7, <2>1 DEF IInv, Targets, StoredIsSound
<1>14. TempsAccounted'
  BY <1>3 DEF IInv, TempsAccounted
<1> QED
  BY <1>8, <1>9, <1>10, <1>11, <1>12, <1>13, <1>14 DEF DiskInv

LEMMA WriteStepInv ==
  ASSUME IInv, NEW p \in Procs, WriteStep(p)
  PROVE  DiskInv'
<1>a. ASSUME step[p] \in {"fill", "recheck", "publish", "unlink", "sync", "check"}
      PROVE  p \in Writing
  BY <1>a DEF Writing
<1>b. names \in past
  BY DEF IInv, TypeOK
<1>1. CASE Recheck(p)
  <2>1. CASE Failed(p)
    BY <2>1, FailedInv
  <2>2. CASE GoTo(p, "publish") /\ UNCHANGED <<own, diskVars>>
    <3>1. step[p] = "recheck" /\ UNCHANGED <<own, names, past, made, file, orphans>>
      BY <1>1, <2>2 DEF Recheck, At, diskVars
    <3> QED
      BY <1>a, <2>2, <3>1, MoveInv
  <2> QED
    BY <1>1, <2>1, <2>2 DEF Recheck
<1>2. CASE Publish(p)
  <2>1. CASE Failed(p)
    BY <2>1, FailedInv
  <2>2. CASE /\ Rename([names EXCEPT !.target = own[p]])
             /\ GoTo(p, "unlink")
             /\ UNCHANGED <<own, made, file, orphans>>
    <3>1. /\ names'.target = own[p] /\ names'.temps = names.temps
          /\ past' = past \cup {names'}
      BY <2>2 DEF Rename, IInv, TypeOK
    <3>2. step[p] = "publish"
      BY <1>2 DEF Publish, At
    <3> QED
      BY <1>a, <2>2, <3>1, <3>2, MoveInv
  <2>3. CASE /\ Rename([target |-> own[p], temps |-> names.temps \ {own[p]}])
             /\ GoTo(p, "sync")
             /\ UNCHANGED <<own, made, file, orphans>>
    <3>1. /\ names'.target = own[p] /\ names'.temps = names.temps \ {own[p]}
          /\ past' = past \cup {names'}
      BY <2>3 DEF Rename
    <3>2. step[p] = "publish"
      BY <1>2 DEF Publish, At
    <3> QED
      BY <1>a, <2>3, <3>1, <3>2, MoveInv
  <2> QED
    BY <1>2, <2>1, <2>2, <2>3 DEF Publish, PublishAs
<1>3. CASE UnlinkTemporary(p)
  <2>1. /\ names'.target = names.target /\ names'.temps = names.temps \ {own[p]}
        /\ past' = past \cup {names'}
    BY <1>3 DEF UnlinkTemporary, Rename, WithoutOwn, IInv, TypeOK
  <2>2. step[p] = "unlink" /\ GoTo(p, "sync") /\ UNCHANGED <<own, made, file, orphans>>
    BY <1>3 DEF UnlinkTemporary, At
  <2> QED
    BY <1>a, <2>1, <2>2, MoveInv
<1>4. CASE SyncDirectory(p)
  <2>1. step[p] = "sync" /\ GoTo(p, "check") /\ past' = {names}
        /\ UNCHANGED <<own, names, made, file, orphans>>
    BY <1>4 DEF SyncDirectory, At
  <2> QED
    BY <1>a, <1>b, <2>1, MoveInv
<1>5. CASE FinalCheck(p)
  <2>1. NoWrites({p}) /\ \A q \in Procs \ {p} : process'[q] = process[q]
    BY <1>5, ReturnEnds DEF FinalCheck
  <2>2. own[p] \notin names.temps /\ UNCHANGED <<names, past, made, file, orphans>>
    BY <1>5, <1>a DEF FinalCheck, At, diskVars, IInv, Withdrawn
  <2> QED
    BY <2>1, <2>2, EndInv
<1> QED
  BY <1>1, <1>2, <1>3, <1>4, <1>5, CreateInv, FillInv DEF WriteStep

LEMMA CrashInv ==
  ASSUME IInv, NEW p \in Procs, Crash(p)
  PROVE  DiskInv'
<1>1. NoWrites({p}) /\ \A q \in Procs \ {p} : process'[q] = process[q]
  BY DEF Crash, Gone, Fresh
<1>2. /\ UNCHANGED <<names, past, made, file>>
      /\ orphans' = orphans \cup (names.temps \cap {own[p]})
  BY DEF Crash
<1> QED
  BY <1>1, <1>2, EndInv

LEMMA PowerLossInv ==
  ASSUME IInv, PowerLoss
  PROVE  DiskInv'
<1>1. \A p \in Procs : step'[p] = "idle"
  BY DEF PowerLoss, Gone, NoWrites, Fresh
<1>2. Writing' = {}
  BY <1>1 DEF Writing
<1>3. PICK d \in past : names' = d /\ past' = {d} /\ orphans' = orphans \cup d.temps
  BY DEF PowerLoss
<1>4. \A i \in Files : /\ file'[i].record = file[i].record
                       /\ file[i].state = "synced" => file'[i].state = "synced"
  BY DEF PowerLoss, IInv, TypeOK
<1>5. d.target /= 0 => d.target \in Files
  BY ParametersAssumption DEF IInv, TypeOK, Files
<1>6. Writers' /\ Owners' /\ Flushed' /\ Unpublished' /\ Withdrawn'
  BY <1>1, <1>2 DEF Writers, Owners, Flushed, Unpublished, Withdrawn
<1>7. Targets' /\ StoredIsSound'
  BY <1>3, <1>4, <1>5 DEF PowerLoss, IInv, Targets, StoredIsSound
<1>8. TempsAccounted'
  BY <1>3 DEF TempsAccounted
<1> QED
  BY <1>6, <1>7, <1>8 DEF DiskInv

LEMMA InvStep ==
  ASSUME IInv, [Next]_vars
  PROVE  IInv'
<1>1. CASE UNCHANGED vars
  <2>1. UNCHANGED <<process, step, own, writes, diskVars>>
    BY <1>1 DEF vars, writeVars
  <2> QED
    BY <2>1, QuietInv, TypeStep DEF IInv, DiskInv
<1>2. ASSUME NEW p \in Procs, SaveTimer(p)
      PROVE  DiskInv'
  <2>1. CASE MayWrite(p) /\ BeginWrite(p, FALSE)
    BY <1>2, <2>1, BeginWriteInv DEF SaveTimer
  <2>2. CASE UNCHANGED <<process, writeVars, diskVars>>
    BY <2>2, QuietInv DEF writeVars
  <2> QED
    BY <1>2, <2>1, <2>2 DEF SaveTimer
<1>3. ASSUME NEW p \in Procs, Close(p)
      PROVE  DiskInv'
  <2>1. CASE MayWrite(p) /\ BeginWrite(p, TRUE)
    BY <1>3, <2>1, BeginWriteInv DEF Close
  <2>2. CASE Gone({p}) /\ UNCHANGED diskVars
    BY <1>3, <2>2, GoneInv DEF Close, Idle
  <2> QED
    BY <1>3, <2>1, <2>2 DEF Close
<1>4. ASSUME NEW p \in Procs, CallFails(p)
      PROVE  DiskInv'
  BY <1>4, FailedInv DEF CallFails
<1>5. ASSUME DisplaysChange
      PROVE  DiskInv'
  <2>1. /\ UNCHANGED <<step, own, writes, diskVars>>
        /\ \A p \in Procs : process[p] \in Running => process'[p] \in Running
    BY <1>5 DEF DisplaysChange, writeVars
  <2> QED
    BY <2>1, QuietInv
<1>6. TypeOK'
  BY TypeStep DEF IInv
<1>7. CASE Next
  <2>1. ASSUME NEW p \in Procs,
               \/ Launches(p) \/ WindowStep(p) \/ SaveTimer(p) \/ Close(p)
               \/ WriteStep(p) \/ CallFails(p) \/ Crash(p)
        PROVE  DiskInv'
    BY <1>2, <1>3, <1>4, <2>1, LaunchesInv, WindowStepInv, WriteStepInv, CrashInv
  <2>2. DiskInv'
    BY <1>5, <1>7, <2>1, PowerLossInv DEF Next
  <2> QED
    BY <1>6, <2>2 DEF IInv, DiskInv
<1> QED
  BY <1>1, <1>7, <1>6 DEF IInv, DiskInv

-----------------------------------------------------------------------------
(* Theorems.                                                               *)

\* The inductive invariant holds throughout.
THEOREM Invariant == Spec => []IInv
BY InitInv, InvStep, PTL DEF Spec

\* Every variable keeps its type: in particular, what is written is always a
\* record, and a running window always has a rectangle (TypeOK).
THEOREM TypeCorrect == Spec => []TypeOK
<1>1. IInv => TypeOK
  BY DEF IInv
<1> QED
  BY <1>1, Invariant, PTL

\* Whatever a power loss leaves under the name of the preference is a whole
\* record of a window inside a screen (StoredIsSound).
THEOREM PreferenceIsSound == Spec => []StoredIsSound
<1>1. IInv => StoredIsSound
  BY DEF IInv
<1> QED
  BY <1>1, Invariant, PTL

\* A temporary file is of a write under way or of one cut off
\* (TempsAccounted).
THEOREM TemporariesAccounted == Spec => []TempsAccounted
<1>1. IInv => TempsAccounted
  BY DEF IInv
<1> QED
  BY <1>1, Invariant, PTL

LEMMA LaunchStep ==
  ASSUME IInv, [Next]_vars, NEW p \in Procs,
         process[p] \notin Running, process'[p] \in Running
  PROVE  /\ Launches(p)
         /\ process'[p] = "normal" => LaunchNormal(p)
<1>a. process[p] /= process'[p]
  OBVIOUS
<1>b. \A q \in Procs : Gone({q}) => process'[p] \in {process[p], "down"}
  BY DEF Gone, Fresh
<1>c. \A q \in Procs : \A s \in BOOLEAN : Return(q, s) => process'[p] \in {process[p], "down"}
  BY <1>b DEF Return
<1>d. \A q \in Procs : Failed(q) => process'[p] \in {process[p], "down"}
  BY <1>c DEF Failed
<1>e. "down" \notin Running
  BY DEF Running
<1>1. ~UNCHANGED vars
  BY <1>a DEF vars
<1>2. \A q \in Procs : ~WindowStep(q)
  BY <1>a DEF WindowStep, OwnerGrabs, OwnerDrags, OwnerResizes,
       OwnerChangesState, ImmediateRuns, SettleTimer, SetWindowMode
<1>3. \A q \in Procs : ~SaveTimer(q)
  BY <1>a DEF SaveTimer, BeginWrite
<1>4. \A q \in Procs : ~Close(q)
  BY <1>a, <1>b, <1>e DEF Close, BeginWrite
<1>5. \A q \in Procs : ~WriteStep(q)
  BY <1>a, <1>c, <1>d, <1>e DEF WriteStep, CreateTemporary, FillTemporary, Recheck,
       Publish, PublishAs, UnlinkTemporary, SyncDirectory, FinalCheck, GoTo
<1>6. \A q \in Procs : ~CallFails(q)
  BY <1>d, <1>e DEF CallFails
<1>7. \A q \in Procs : ~Crash(q)
  BY <1>b, <1>e DEF Crash
<1>8. ~DisplaysChange /\ ~PowerLoss
  BY <1>a, <1>e DEF DisplaysChange, PowerLoss, Gone, Fresh
<1>9. PICK q \in Procs : Launches(q)
  BY <1>1, <1>2, <1>3, <1>4, <1>5, <1>6, <1>7, <1>8 DEF Next
<1>10. q = p
  <2>1. ASSUME q /= p
        PROVE  process'[p] = process[p] \/ process'[p] = "down"
    BY <1>9, <1>b, <2>1 DEF Launches, LaunchNormal, LaunchAcceptance, ConstructWindow, IInv, TypeOK
  <2> QED
    BY <1>a, <1>e, <2>1
<1>11. ASSUME NEW id \in Acceptance, LaunchAcceptance(p, id)
       PROVE  process'[p] = "acceptance"
  BY <1>11 DEF LaunchAcceptance, ConstructWindow, IInv, TypeOK
<1> QED
  BY <1>9, <1>10, <1>11 DEF Launches

\* A window is first shown inside a screen that is there, whatever is stored
\* and whatever has become of the screens (LaunchesOnScreen).
THEOREM LaunchIsOnScreen == Spec => LaunchesOnScreen
<1>1. ASSUME IInv, [Next]_vars, NEW p \in Procs,
             process[p] \notin Running, process'[p] \in Running
      PROVE  \E d \in screen.displays :
               IsWindowContainedInWorkArea(bounds'[p], d.workArea)
  <2>1. CASE LaunchNormal(p)
    <3> DEFINE r(s) == ResolveNormalLaunchPlacement(s, screen.displays,
                            screen.primary, LaunchSize, MinimumLaunch)
    <3>1. PICK stored \in ReadWindowPlacementPreference :
            /\ r(stored).status /= "rejected"
            /\ ConstructWindow(p, "normal", r(stored).bounds)
      BY <2>1 DEF LaunchNormal
    <3>2. \E d \in screen.displays :
            IsWindowContainedInWorkArea(r(stored).bounds, d.workArea)
      BY <1>1, <3>1, StoredIsMaybe, DisplaysAreDisplays, SizesAreSizes,
         NormalIsOnScreen DEF IInv
    <3>3. bounds'[p] = r(stored).bounds
      BY <1>1, <3>1 DEF ConstructWindow, IInv, TypeOK
    <3> HIDE DEF r
    <3> QED
      BY <3>2, <3>3
  <2>2. CASE \E id \in Acceptance : LaunchAcceptance(p, id)
    <3>1. PICK id \in Acceptance : LaunchAcceptance(p, id)
      BY <2>2
    <3> DEFINE first == ResolveAcceptanceLaunchPlacement(id, screen.displays,
                          LaunchSize, MinimumLaunch)
               again == RevalidateAcceptanceLaunchPlacement(first,
                          screen.displays, MinimumLaunch)
    <3>2. /\ again.status /= "rejected"
          /\ ConstructWindow(p, "acceptance", again.bounds)
      BY <3>1 DEF LaunchAcceptance
    <3> HIDE DEF first
    <3>3. again = first /\ \E d \in screen.displays :
            IsWindowContainedInWorkArea(first.bounds, d.workArea)
      BY <3>2, RevalidatedIsOnScreen
    <3> HIDE DEF again
    <3>4. bounds'[p] = again.bounds
      BY <1>1, <3>2 DEF ConstructWindow, IInv, TypeOK
    <3> QED
      BY <3>3, <3>4
  <2> QED
    BY <1>1, <2>1, <2>2, LaunchStep DEF Launches
<1>2. IInv /\ [Next]_vars =>
        [\A p \in Procs : process[p] \notin Running /\ process'[p] \in Running =>
           \E d \in screen.displays :
             IsWindowContainedInWorkArea(bounds'[p], d.workArea)]_vars
  BY <1>1
<1> QED
  BY <1>2, Invariant, PTL DEF Spec, LaunchesOnScreen

\* A placement that still fits is restored to the pixel
\* (RestoresWhatWasSaved).
THEOREM PlacementIsRestored == Spec => RestoresWhatWasSaved
<1>1. ASSUME IInv, [Next]_vars, NEW p \in Procs,
             process[p] = "down", process'[p] = "normal",
             Writing = {}, Stored(names) \notin {Missing, Malformed},
             MinimumFitsWorkArea(MinimumLaunch, Stored(names).bounds),
             \E d \in screen.displays :
               IsWindowContainedInWorkArea(Stored(names).bounds, d.workArea)
      PROVE  bounds'[p] = Stored(names).bounds
  <2> DEFINE r(s) == ResolveNormalLaunchPlacement(s, screen.displays,
                          screen.primary, LaunchSize, MinimumLaunch)
  <2>1. LaunchNormal(p)
    BY <1>1, LaunchStep DEF Running
  <2>2. PICK stored \in ReadWindowPlacementPreference :
          /\ r(stored).status /= "rejected"
          /\ ConstructWindow(p, "normal", r(stored).bounds)
    BY <2>1 DEF LaunchNormal
  <2>3. stored = Stored(names)
    BY <1>1 DEF ReadWindowPlacementPreference
  <2>4. stored \in Record
    BY <1>1, <2>2, <2>3, StoredIsMaybe DEF IInv, MaybeRecord
  <2>5. r(stored).bounds = stored.bounds
    BY <1>1, <2>2, <2>3, <2>4, DisplaysAreDisplays, SizesAreSizes, NormalRestores
    DEF IInv
  <2>6. bounds'[p] = r(stored).bounds
    BY <1>1, <2>2 DEF ConstructWindow, IInv, TypeOK
  <2> HIDE DEF r
  <2> QED
    BY <2>3, <2>5, <2>6
<1>2. IInv /\ [Next]_vars =>
        [\A p \in Procs :
           /\ process[p] = "down" /\ process'[p] = "normal"
           /\ Writing = {} /\ Stored(names) \notin {Missing, Malformed}
           /\ MinimumFitsWorkArea(MinimumLaunch, Stored(names).bounds)
           /\ \E d \in screen.displays :
                IsWindowContainedInWorkArea(Stored(names).bounds, d.workArea)
           => bounds'[p] = Stored(names).bounds]_vars
  BY <1>1
<1> QED
  BY <1>2, Invariant, PTL DEF Spec, RestoresWhatWasSaved

LEMMA ReadableStep ==
  ASSUME IInv, [Next]_vars, \A d \in past : Readable(d)
  PROVE  (\A d \in past : Readable(d))'
<1>1. /\ names \in past /\ names.target /= 0
      /\ \A d \in past : d.target \in Files /\ d.target <= made /\ d.target \in Nat
  BY ParametersAssumption DEF IInv, TypeOK, Targets, Readable, Files
<1>2. ASSUME UNCHANGED <<past, file>>
      PROVE  (\A d \in past : Readable(d))'
  BY <1>2 DEF Readable, IsSafe
<1>3. ASSUME NEW p \in Procs, Failed(p)
      PROVE  (\A d \in past : Readable(d))'
  <2>1. CASE UNCHANGED <<past, file>>
    BY <1>2, <2>1
  <2>2. CASE Rename(WithoutOwn(p)) /\ UNCHANGED file
    <3>1. /\ names'.target = names.target /\ names'.temps \subseteq names.temps
          /\ past' = past \cup {names'}
      BY <2>2 DEF Rename, WithoutOwn, IInv, TypeOK
    <3> QED
      BY <1>1, <2>2, <3>1 DEF Readable, IsSafe
  <2> QED
    BY <1>3, <2>1, <2>2 DEF Failed
<1>4. ASSUME NEW p \in Procs, WriteStep(p)
      PROVE  (\A d \in past : Readable(d))'
  <2>1. CASE CreateTemporary(p)
    <3>1. made \in Nat
      BY ParametersAssumption DEF IInv, TypeOK
    <3>2. /\ names'.target = names.target /\ names'.temps = names.temps \cup {made + 1}
          /\ past' = past \cup {names'}
          /\ file' = [file EXCEPT ![made + 1] = [state |-> "partial", record |-> writes[p]]]
      BY <2>1 DEF CreateTemporary, Rename, IInv, TypeOK
    <3>3. \A d \in past : file'[d.target] = file[d.target] /\ d.target /= made + 1
      BY <1>1, <3>1, <3>2 DEF IInv, TypeOK
    <3> QED
      BY <1>1, <3>2, <3>3 DEF Readable, IsSafe
  <2>2. CASE FillTemporary(p)
    <3>1. past' = past /\ \A d \in past : file[d.target].state = "synced"
                                          => file'[d.target].state = "synced"
      BY <1>1, <2>2 DEF FillTemporary, WriteAndSync, IInv, TypeOK
    <3> QED
      BY <3>1 DEF Readable, IsSafe
  <2>3. CASE Recheck(p)
    BY <1>2, <1>3, <2>3 DEF Recheck, diskVars
  <2>4. CASE Publish(p)
    <3>1. p \in Writing /\ step[p] = "publish"
      BY <2>4 DEF Publish, At, Writing
    <3>2. own[p] \in 1 .. made /\ file[own[p]].state = "synced"
      BY <3>1 DEF IInv, Owners, Flushed
    <3>3. own[p] /= 0
      BY <3>2
    <3>4. CASE Failed(p)
      BY <1>3, <3>4
    <3>5. CASE /\ Rename([target |-> own[p], temps |-> names.temps \ {own[p]}])
               /\ UNCHANGED file
      BY <3>2, <3>3, <3>5 DEF Rename, Readable, IsSafe
    <3> QED
      BY <1>1, <2>4, <3>4, <3>5 DEF Publish, PublishAs
  <2>5. CASE UnlinkTemporary(p)
    <3>1. /\ names'.target = names.target /\ names'.temps \subseteq names.temps
          /\ past' = past \cup {names'} /\ file' = file
      BY <2>5 DEF UnlinkTemporary, Rename, WithoutOwn, IInv, TypeOK
    <3> QED
      BY <1>1, <3>1 DEF Readable, IsSafe
  <2>6. CASE SyncDirectory(p)
    BY <1>1, <2>6 DEF SyncDirectory, Readable, IsSafe
  <2>7. CASE FinalCheck(p)
    BY <1>2, <2>7 DEF FinalCheck, diskVars
  <2> QED
    BY <1>4, <2>1, <2>2, <2>3, <2>4, <2>5, <2>6, <2>7 DEF WriteStep
<1>5. CASE PowerLoss
  <2>1. PICK d \in past : past' = {d}
    BY <1>5 DEF PowerLoss
  <2>2. file[d.target].state = "synced" => file'[d.target].state = "synced"
    BY <1>1, <1>5, <2>1 DEF PowerLoss, IInv, TypeOK
  <2> QED
    BY <2>1, <2>2 DEF Readable, IsSafe
<1>6. ASSUME NEW p \in Procs,
             \/ Launches(p) \/ WindowStep(p) \/ SaveTimer(p) \/ Close(p) \/ Crash(p)
      PROVE  UNCHANGED <<past, file>>
  <2>1. CASE Launches(p)
    BY <2>1 DEF Launches, LaunchNormal, LaunchAcceptance, ConstructWindow, diskVars
  <2>2. CASE WindowStep(p)
    BY <2>2 DEF WindowStep, OwnerGrabs, OwnerDrags, OwnerResizes,
         OwnerChangesState, ImmediateRuns, SettleTimer, SetWindowMode, diskVars
  <2>3. CASE SaveTimer(p) \/ Close(p) \/ Crash(p)
    BY <2>3 DEF SaveTimer, Close, Crash, BeginWrite, diskVars
  <2> QED
    BY <1>6, <2>1, <2>2, <2>3
<1>7. CASE DisplaysChange \/ UNCHANGED vars
  BY <1>2, <1>7 DEF DisplaysChange, vars, diskVars
<1>8. ASSUME NEW p \in Procs, CallFails(p)
      PROVE  (\A d \in past : Readable(d))'
  BY <1>3, <1>8 DEF CallFails
<1> QED
  BY <1>2, <1>4, <1>5, <1>6, <1>7, <1>8 DEF Next

\* Once a record is safely on disk there is one at every later moment,
\* whatever is cut off or fails (StaysReadable).
THEOREM RecordStaysReadable == Spec => StaysReadable
<1>1. IInv /\ [Next]_vars =>
        [(\A d \in past : Readable(d)) => (\A d \in past : Readable(d))']_vars
  BY ReadableStep
<1> QED
  BY <1>1, Invariant, PTL DEF Spec, StaysReadable

\* A write that found no preference never replaces one
\* (FirstIsNotOverwritten).
THEOREM FirstIsKept == Spec => FirstIsNotOverwritten
<1>1. ASSUME IInv, [Next]_vars, NEW p \in Procs,
             seen[p] = 0, step[p] = "publish", names'.target = own[p]
      PROVE  names.target = 0
  <2>1. p \in Writing
    BY <1>1 DEF Writing
  <2>2. names \in past /\ \A d \in past : d.target /= own[p]
    BY <1>1, <2>1 DEF IInv, TypeOK, Unpublished
  <2>3. names'.target /= names.target /\ names' /= names
    BY <1>1, <2>2
  <2>a. names = [target |-> names.target, temps |-> names.temps]
    <3>1. names \in [target : 0 .. MaxWrites, temps : SUBSET Files]
      BY <1>1 DEF IInv, TypeOK
    <3> QED
      BY <3>1
  <2>b. \A q : WithoutOwn(q).target = names.target
    BY <2>a DEF WithoutOwn
  <2>4. \A q \in Procs : ~Failed(q)
    BY <2>3, <2>b DEF Failed, Rename
  <2>5. ~PowerLoss
    BY <1>1, <2>2 DEF PowerLoss
  <2>6. \A q \in Procs : ~Launches(q) /\ ~WindowStep(q)
    BY <2>3 DEF Launches, LaunchNormal, LaunchAcceptance, ConstructWindow, diskVars, WindowStep, OwnerGrabs, OwnerDrags, OwnerResizes,
         OwnerChangesState, ImmediateRuns, SettleTimer, SetWindowMode
  <2>7. \A q \in Procs : ~SaveTimer(q) /\ ~Close(q) /\ ~Crash(q)
    BY <2>3 DEF SaveTimer, Close, Crash, BeginWrite, diskVars
  <2>8. ~DisplaysChange /\ ~UNCHANGED vars
    BY <2>3 DEF DisplaysChange, vars, diskVars
  <2>9. ASSUME NEW q \in Procs, WriteStep(q)
        PROVE  Publish(q)
    <3>1. ~CreateTemporary(q)
      <4>1. \A t : [names EXCEPT !.temps = t].target = names.target
        BY <2>a
      <4> QED
        BY <2>3, <4>1 DEF CreateTemporary, Rename
    <3>2. ~FillTemporary(q) /\ ~SyncDirectory(q) /\ ~FinalCheck(q)
      BY <2>3 DEF FillTemporary, SyncDirectory, FinalCheck, diskVars
    <3>3. ~Recheck(q)
      BY <2>3, <2>4 DEF Recheck, diskVars
    <3>4. ~UnlinkTemporary(q)
      BY <2>3, <2>b DEF UnlinkTemporary, Rename
    <3> QED
      BY <2>9, <3>1, <3>2, <3>3, <3>4 DEF WriteStep
  <2>10. PICK q \in Procs : Publish(q)
    <3>1. \A r \in Procs : ~CallFails(r)
      BY <2>4 DEF CallFails
    <3>2. Next
      BY <1>1, <2>8
    <3>3. PICK r \in Procs : \/ Launches(r) \/ WindowStep(r) \/ SaveTimer(r)
                             \/ Close(r) \/ WriteStep(r) \/ CallFails(r) \/ Crash(r)
      BY <2>5, <2>8, <3>2 DEF Next
    <3> QED
      BY <2>6, <2>7, <2>9, <3>1, <3>3
  <2>11. names'.target = own[q] /\ (seen[q] = 0 => names.target = 0)
    <3>1. [names EXCEPT !.target = own[q]].target = own[q]
      BY <2>a
    <3>2. PublishAs(q) /\ ~Failed(q)
      BY <2>4, <2>10 DEF Publish
    <3>3. CASE seen[q] = 0 /\ names.target = 0 /\ Rename([names EXCEPT !.target = own[q]])
      BY <3>1, <3>3 DEF Rename
    <3>4. CASE seen[q] /= 0 /\ Rename([target |-> own[q], temps |-> names.temps \ {own[q]}])
      BY <3>4 DEF Rename
    <3> QED
      BY <3>2, <3>3, <3>4 DEF PublishAs
  <2>12. q \in Writing
    BY <2>10 DEF Publish, At, Writing
  <2>13. q = p
    BY <1>1, <2>1, <2>11, <2>12 DEF IInv, Owners
  <2> QED
    BY <1>1, <2>11, <2>13
<1>2. IInv /\ [Next]_vars =>
        [\A p \in Procs :
           seen[p] = 0 /\ step[p] = "publish" /\ names'.target = own[p]
           => names.target = 0]_vars
  BY <1>1
<1> QED
  BY <1>2, Invariant, PTL DEF Spec, FirstIsNotOverwritten
=============================================================================
