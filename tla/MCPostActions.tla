----------------------------- MODULE MCPostActions -----------------------------
(***************************************************************************)
(* Instances of PostActions for TLC.                                       *)
(***************************************************************************)
EXTENDS PostActions

MCKinds   == {"like", "repost"}
InFeed    == {"feed"}
InThread  == {"thread"}
=============================================================================
