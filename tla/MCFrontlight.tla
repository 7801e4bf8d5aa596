------------------------------ MODULE MCFrontlight -----------------------------
(***************************************************************************)
(* Instances of Frontlight for TLC: dark, the fallback and two levels, so  *)
(* that the light can be the setting, another value, or the fallback.      *)
(***************************************************************************)
EXTENDS Frontlight

OneFinger == {0}
SomeLevels == {0, 20, 50, 80}
=============================================================================
