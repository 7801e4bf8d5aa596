------------------------------ MODULE MCImageCache ------------------------------
(***************************************************************************)
(* An instance of ImageCache for TLC, enough for late replies and for      *)
(* eviction: one embed in two sizes, room for one of them.                 *)
(***************************************************************************)
EXTENDS ImageCache

TwoSizes         == {"photo_small", "photo_large"}
OneSource        == {"photo"}
TwoSizesSourceOf == [k \in TwoSizes |-> "photo"]
OnePath          == {"embed-1"}
OnePathOf        == [s \in OneSource |-> "embed-1"]
NoAvatars        == {}
=============================================================================
