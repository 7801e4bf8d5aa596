------------------------------ MODULE MCTouchInput -----------------------------
(***************************************************************************)
(* An instance of TouchInput for TLC: two slots and three ids, so that an  *)
(* id can name the contact of either slot or of neither.  With it, panels  *)
(* of several sizes, one that announces no range, and small screens for    *)
(* TouchMap.                                                               *)
(***************************************************************************)
EXTENDS TouchInput, TouchMap

TwoSlots == {0, 1}
ThreeIds == 0..2

SomePanels ==
    {[x_min |-> r[1], x_max |-> r[2], y_min |-> r[3], y_max |-> r[4], mirror_x |-> m[1], mirror_y |-> m[2]] :
        r \in {<<0, 2, 0, 4>>, <<0, 4, 0, 2>>, <<1, 6, 0, 9>>, <<0, 0, 0, 0>>, <<-3, 4, 2, 4>>},
        m \in BOOLEAN \X BOOLEAN}
SomeScreens == [width : {1, 3, 4}, height : {4, 5}]
SomeValues == {-4, 0, 1, 2, 3, 5, 9, 11}

(* What TouchInput_proofs proves of any panel and screen, evaluated here.    *)
ASSUME TouchesLand == TouchesOnScreen
ASSUME PixelsReached == EveryPixelReachable
=============================================================================
