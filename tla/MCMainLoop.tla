------------------------------ MODULE MCMainLoop ------------------------------
(***************************************************************************)
(* MainLoop for TLC, and all trees of five posts, for the list that a      *)
(* thread's window moves in.                                               *)
(***************************************************************************)
EXTENDS MainLoop, ThreadTree

LOCAL INSTANCE SequencesExt

(* Posts are numbered such that a reply has a higher number than the post  *)
(* it answers and than the replies before it.                              *)
SmallTrees ==
    {[root |-> 1,
      replies |-> [n \in Posts |-> SetToSortSeq({m \in Posts \ {1} : answered[m] = n}, <)],
      kept |-> kept] :
        answered \in {f \in [Posts \ {1} -> Posts] : \A m \in Posts \ {1} : f[m] < m},
        kept \in {K \in SUBSET Posts : 1 \in K}}

ASSUME SmallTreesAreTrees == SmallTrees \subseteq Trees
ASSUME PostsAreListed == ListsEachOnce(SmallTrees)
ASSUME RepliesAreBelow == RepliesFollow(SmallTrees)
ASSUME RepliesAreInOrder == RepliesInOrder(SmallTrees)
=============================================================================
