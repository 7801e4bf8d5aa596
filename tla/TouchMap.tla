-------------------------------- MODULE TouchMap -------------------------------
(***************************************************************************)
(* Where on the screen a touch is: src/src/platform/input.cpp scales the   *)
(* panel's coordinates to the screen, exchanges the axes of a panel that   *)
(* lies across it, and mirrors what the launcher says is mirrored.  Pure   *)
(* functions of their arguments; the products are made in 64 bits and do   *)
(* not overflow.                                                           *)
(***************************************************************************)
EXTENDS Integers

CONSTANTS
    Devices,    \* touch panels: the ranges they announce, and their mirroring
    Screens,    \* sizes of framebuffers
    RawValues   \* coordinates a driver may report, in range or not

ASSUME DevicesAssumption ==
    Devices \subseteq [x_min : Int, x_max : Int, y_min : Int, y_max : Int,
                       mirror_x : BOOLEAN, mirror_y : BOOLEAN]
ASSUME ScreensAssumption == Screens \subseteq [width : Nat \ {0}, height : Nat \ {0}]
ASSUME RawAssumption == RawValues \subseteq Int

Distance(a, b) == IF a < b THEN b - a ELSE a - b

(* The orientation in which the ranges come closer to the screen's size.   *)
ShouldSwapAxes(d, s) ==
    LET x_span == d.x_max - d.x_min
        y_span == d.y_max - d.y_min
        score(x_size, y_size) == Distance(x_span, x_size - 1) + Distance(y_span, y_size - 1)
    IN  score(s.height, s.width) < score(s.width, s.height)

Clamp(value, low, high) == IF value < low THEN low ELSE IF value > high THEN high ELSE value

(* A range that says nothing is taken for the screen's own.                *)
NormalizeAxis(value, min_value, max_value, output_max) ==
    IF output_max <= 0 THEN 0
    ELSE IF max_value <= min_value THEN Clamp(value, 0, output_max)
    ELSE ((Clamp(value, min_value, max_value) - min_value) * output_max) \div (max_value - min_value)

MapTouchPoint(d, s, raw_x, raw_y) ==
    LET swap == ShouldSwapAxes(d, s)
        across == NormalizeAxis(raw_x, d.x_min, d.x_max, (IF swap THEN s.height ELSE s.width) - 1)
        along == NormalizeAxis(raw_y, d.y_min, d.y_max, (IF swap THEN s.width ELSE s.height) - 1)
        x == IF swap THEN along ELSE across
        y == IF swap THEN across ELSE along
    IN  [x |-> IF d.mirror_x THEN s.width - 1 - x ELSE x,
         y |-> IF d.mirror_y THEN s.height - 1 - y ELSE y]

-----------------------------------------------------------------------------
(* Properties *)

(* Wherever a driver says the panel was touched, out of its own range      *)
(* included, the point is on the screen.                                   *)
TouchesOnScreen ==
    \A d \in Devices, s \in Screens, x \in RawValues, y \in RawValues :
        MapTouchPoint(d, s, x, y) \in [x : 0..(s.width - 1), y : 0..(s.height - 1)]

(* A panel that is no coarser than the screen reaches every pixel of it,   *)
(* the last row and column included: no button is out of reach.            *)
FineEnough(d, s) ==
    LET swap == ShouldSwapAxes(d, s)
    IN  /\ d.x_max - d.x_min >= (IF swap THEN s.height ELSE s.width) - 1
        /\ d.y_max - d.y_min >= (IF swap THEN s.width ELSE s.height) - 1

EveryPixelReachable ==
    \A d \in Devices, s \in Screens :
        FineEnough(d, s) =>
            \A x \in 0..(s.width - 1), y \in 0..(s.height - 1) :
                \E raw_x \in d.x_min..d.x_max, raw_y \in d.y_min..d.y_max :
                    MapTouchPoint(d, s, raw_x, raw_y) = [x |-> x, y |-> y]
=============================================================================
