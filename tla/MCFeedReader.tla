----------------------------- MODULE MCFeedReader -----------------------------
(***************************************************************************)
(* Instances of FeedReader for TLC: a timeline of seven posts, whose      *)
(* second batch holds replies only, and a second feed.                     *)
(***************************************************************************)
EXTENDS FeedReader

MCSources == {"timeline", "art"}
MCFeeds   == [s \in MCSources |-> IF s = "timeline" THEN <<TRUE, TRUE, TRUE, FALSE, FALSE, FALSE, TRUE>>
                                  ELSE <<TRUE, FALSE, TRUE, TRUE>>]
=============================================================================
