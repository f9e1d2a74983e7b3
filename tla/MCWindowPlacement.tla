-------------------------- MODULE MCWindowPlacement --------------------------
(* Bounded instances of WindowPlacement for TLC: the two displays of the    *)
(* tests; the screen may lose the second and have a smaller first, as after *)
(* a resolution change, so that both placements of the owner lose their     *)
(* place.                                                                   *)
EXTENDS WindowPlacement, TLC

Primary == [id |-> 100, workArea |-> [x |-> 0, y |-> 24, width |-> 1440, height |-> 876]]
Secondary == [id |-> 200, workArea |-> [x |-> 1440, y |-> 0, width |-> 1920, height |-> 1080]]
Smaller == [Primary EXCEPT !.workArea.width = 1000, !.workArea.height = 700]

Both == [displays |-> {Primary, Secondary}, primary |-> 100]
One == [displays |-> {Smaller}, primary |-> 100]

MCScreens == {Both, One}

OnPrimary == [x |-> 100, y |-> 100, width |-> 700, height |-> 650]
OnSecondary == [x |-> 1500, y |-> 60, width |-> 1200, height |-> 800]

MCOwnerRects == {OnPrimary, OnSecondary}

ProcSymmetry == Permutations(Procs)
=============================================================================
