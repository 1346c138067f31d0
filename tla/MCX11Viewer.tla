---------------------------- MODULE MCX11Viewer ----------------------------
(* Instances of X11Viewer for TLC.  The real capacities are 1, 4, 9 and 16;  *)
(* an instance keeps what matters of them: a layout of one cell, grids that  *)
(* hold fewer channels than the device has, and grids that hold them all.    *)
EXTENDS X11Viewer

OneGrid  == [l \in {"1x1", "2x2"} |-> IF l = "1x1" THEN 1 ELSE 2]
TwoGrids == [l \in {"1x1", "2x2", "3x3"} |->
               IF l = "1x1" THEN 1 ELSE IF l = "2x2" THEN 2 ELSE 3]
=============================================================================
