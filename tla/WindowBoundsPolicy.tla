------------------------- MODULE WindowBoundsPolicy -------------------------
(***************************************************************************)
(* Where a window may go: the pure functions of                            *)
(* short-term-window-bounds-policy.cjs and chooseMacosWindowBounds of      *)
(* main.cjs.                                                               *)
(*                                                                         *)
(* Rectangles are those of the code, in whole pixels; Math.round of a half *)
(* rounds up.  A value the code rejects as malformed (a record with other  *)
(* keys, a time stamp that does not parse) is Malformed.                   *)
(***************************************************************************)
EXTENDS Integers

Positive == Nat \ {0}
Size == [width : Positive, height : Positive]
Rect == [x : Int, y : Int, width : Positive, height : Positive]

\* A display as the policy sees it: its id and its work area.
Display == [id : Nat, workArea : Rect]

\* A placement record; its schema version, source and date are left out.
Record == [displayId : Nat, bounds : Rect]

None == [none |-> TRUE]
Missing == [missing |-> TRUE]
Malformed == [malformed |-> TRUE]

-----------------------------------------------------------------------------
Least(a, b) == IF a <= b THEN a ELSE b
Greatest(a, b) == IF a <= b THEN b ELSE a

Clamp(value, low, high) ==
  IF high < low THEN low ELSE Least(high, Greatest(low, value))

\* Mutant: nothing bounds the size from above.
SizeAtLeast(size, area, minimum) ==
  [width  |-> Greatest(size.width, minimum.width),
   height |-> Greatest(size.height, minimum.height)]

ClampSizeToWorkArea(size, area, minimum) ==
  [width  |-> Clamp(size.width, Least(minimum.width, area.width), area.width),
   height |-> Clamp(size.height, Least(minimum.height, area.height), area.height)]

Fitted(bounds, size, area) ==
  [x      |-> Clamp(bounds.x, area.x, area.x + area.width - size.width),
   y      |-> Clamp(bounds.y, area.y, area.y + area.height - size.height),
   width  |-> size.width,
   height |-> size.height]

PreserveWindowSizeAcrossDisplay(bounds, size, area, minimum) ==
  Fitted(bounds, ClampSizeToWorkArea(size, area, minimum), area)

MinimumFitsWorkArea(minimum, area) ==
  minimum.width <= area.width /\ minimum.height <= area.height

IsWindowContainedInWorkArea(bounds, area) ==
  /\ area.x <= bounds.x /\ bounds.x + bounds.width <= area.x + area.width
  /\ area.y <= bounds.y /\ bounds.y + bounds.height <= area.y + area.height

Half(n) == (n + 1) \div 2

Centered(size, area) ==
  [x      |-> area.x + Half(area.width - size.width),
   y      |-> area.y + Half(area.height - size.height),
   width  |-> size.width,
   height |-> size.height]

CenteredBounds(size, area, minimum) ==
  Centered(ClampSizeToWorkArea(size, area, minimum), area)

\* The length two intervals have in common.
Overlap(start, length, from, span) ==
  Greatest(0, Least(start + length, from + span) - Greatest(start, from))

IntersectionArea(bounds, area) ==
  Overlap(bounds.x, bounds.width, area.x, area.width)
    * Overlap(bounds.y, bounds.height, area.y, area.height)

Overlapping(bounds, displays) ==
  {d \in displays : IntersectionArea(bounds, d.workArea) > 0}

\* Largest intersection first, then the smaller id.
SelectDisplayForPlacement(bounds, displays) ==
  LET area(d) == IntersectionArea(bounds, d.workArea)
  IN IF Overlapping(bounds, displays) = {} THEN None
     ELSE CHOOSE d \in Overlapping(bounds, displays) :
            \A e \in Overlapping(bounds, displays) :
              area(e) < area(d) \/ (area(e) = area(d) /\ d.id <= e.id)

\* The one online display with this id, None when there is none or several.
TheDisplay(id, displays) ==
  IF \E d \in displays : \A e \in displays : e.id = id <=> e = d
  THEN CHOOSE d \in displays : d.id = id
  ELSE None

-----------------------------------------------------------------------------
(* What a launch is given.  Each result has the bounds, None if rejected.  *)

Rejected == [status |-> "rejected", bounds |-> None]

PrimaryFallback(primary, size, minimum) ==
  [status |-> "primaryFallback",
   bounds |-> CenteredBounds(size, primary.workArea, minimum)]

\* Mutant: the record is used as it stands.
RestoresAsStored(display, stored, minimum) ==
  [status |-> "restored", bounds |-> stored.bounds]

\* Mutant: the size is taken from the minimum, the place from the record.
RestoresPlace(display, stored, minimum) ==
  [status |-> "restored",
   bounds |-> PreserveWindowSizeAcrossDisplay(stored.bounds, minimum,
                                              display.workArea, minimum)]

RestoredIn(display, stored, minimum) ==
  [status |-> "restored",
   bounds |-> PreserveWindowSizeAcrossDisplay(stored.bounds, stored.bounds,
                                              display.workArea, minimum)]

\* stored is a Record, Missing or Malformed; primary is a display id.
ResolveNormalLaunchPlacement(stored, displays, primary, size, minimum) ==
  LET home    == TheDisplay(primary, displays)
      display == SelectDisplayForPlacement(stored.bounds, displays)
  IN IF home = None \/ ~MinimumFitsWorkArea(minimum, home.workArea) THEN Rejected
     ELSE IF stored \in {Missing, Malformed}
          THEN PrimaryFallback(home, size, minimum)
          ELSE IF display = None \/ ~MinimumFitsWorkArea(minimum, display.workArea)
               THEN PrimaryFallback(home, size, minimum)
               ELSE RestoredIn(display, stored, minimum)

\* The acceptance run names one display; the set seen is kept for later.
ResolveAcceptanceLaunchPlacement(id, displays, size, minimum) ==
  LET display == TheDisplay(id, displays)
  IN IF display = None \/ ~MinimumFitsWorkArea(minimum, display.workArea)
     THEN Rejected
     ELSE [status |-> "accepted", displayId |-> id, displays |-> displays,
           bounds |-> CenteredBounds(size, display.workArea, minimum)]

RevalidateAcceptanceLaunchPlacement(plan, displays, minimum) ==
  LET display == TheDisplay(plan.displayId, displays)
  IN IF /\ plan.displays = displays
        /\ display /= None
        /\ MinimumFitsWorkArea(minimum, display.workArea)
        /\ IsWindowContainedInWorkArea(plan.bounds, display.workArea)
     THEN plan
     ELSE Rejected

\* Malformed stands for every answer but "accepted".
WindowPlacementRecordFromBounds(bounds, display, ordinary) ==
  IF ordinary /\ IsWindowContainedInWorkArea(bounds, display.workArea)
  THEN [displayId |-> display.id, bounds |-> bounds]
  ELSE Malformed

-----------------------------------------------------------------------------
(* The bounds the program itself chooses: 86 per cent of the screen, ratio *)
(* 16 to 10 when the workbench is asked for.                               *)

WideSize(target, limit) ==
  LET width  == Least(target.width, limit.width)
      height == (10 * width + 8) \div 16
  IN IF height <= limit.height
     THEN [width |-> width, height |-> height]
     ELSE [width |-> (16 * limit.height + 5) \div 10, height |-> limit.height]

PlainSize(target, limit) ==
  [width |-> Least(target.width, limit.width),
   height |-> Least(target.height, limit.height)]

ChooseMacosWindowBounds(target, area, minimum, wide) ==
  LET limit == [width  |-> (86 * area.width) \div 100,
                height |-> (86 * area.height) \div 100]
      fit == IF wide THEN WideSize(target, limit) ELSE PlainSize(target, limit)
  IN Centered([width  |-> Greatest(fit.width, Least(minimum.width, area.width)),
               height |-> Greatest(fit.height, Least(minimum.height, area.height))],
              area)
=============================================================================
