------------------------------- MODULE ThreadTree -------------------------------
(***************************************************************************)
(* From the tree of posts the server sends to the list a thread is shown   *)
(* as: flattenReplies of atproto_client.cpp copies the tree, without what  *)
(* was blocked or deleted and down to a depth, and flatten_thread_posts of *)
(* main.cpp lists the copy.  The list is made anew by every drawing, tap   *)
(* and key, and page_start counts in it.                                   *)
(***************************************************************************)
EXTENDS Naturals, Sequences

CONSTANTS
    Posts,
    MaxDepth      \* the depth from which replies are not followed, 10 in the code

ASSUME DepthAssumption == MaxDepth \in Nat

Depths == 0..(MaxDepth + 1)

Answers(tree, m, n) == \E i \in DOMAIN tree.replies[n] : tree.replies[n][i] = m

(* replies[n] is what answers n, in the order it was sent; kept are those  *)
(* that were sent as posts.  A reply answers one post, once.               *)
Trees ==
    {tree \in [root : Posts, replies : [Posts -> Seq(Posts)], kept : SUBSET Posts] :
        /\ tree.root \in tree.kept
        /\ \A n \in Posts : ~Answers(tree, tree.root, n)
        /\ \A n1, n2 \in Posts : \A i \in DOMAIN tree.replies[n1], j \in DOMAIN tree.replies[n2] :
              tree.replies[n1][i] = tree.replies[n2][j] => n1 = n2 /\ i = j}

Line(n, depth) == [post |-> n, depth |-> depth]

-----------------------------------------------------------------------------
(* flattenReplies: replies[n] of the copy, for a post at a depth.          *)
Copied(tree, n, depth) ==
    LET replies == tree.replies[n]
        copy[k \in 0..Len(replies)] ==
            IF k = 0 \/ depth > MaxDepth THEN <<>>
            ELSE IF replies[k] \in tree.kept THEN Append(copy[k - 1], replies[k])
            ELSE copy[k - 1]
    IN  copy[Len(replies)]

(* flatten_thread_posts: the post, then what each of its replies lists.    *)
ListFrom(tree, n, depth, deeper) ==
    LET replies == Copied(tree, n, depth)
        list[k \in 0..Len(replies)] ==
            IF k = 0 THEN <<Line(n, depth)>> ELSE list[k - 1] \o deeper[replies[k]]
    IN  list[Len(replies)]

Flattened(tree) ==
    LET list[depth \in Depths] == [n \in Posts |-> ListFrom(tree, n, depth, list[depth + 1])]
    IN  list[0][tree.root]

-----------------------------------------------------------------------------
(* Properties *)

(* Generation by generation, the posts that can be shown: those that       *)
(* nothing that was left out leads to, as far as replies are followed.     *)
Following(tree, S) == {m \in tree.kept : \E n \in S : Answers(tree, m, n)}

Generations(tree) ==
    LET at[depth \in Depths] == IF depth = 0 THEN {tree.root} ELSE Following(tree, at[depth - 1])
    IN  at

(* The list holds the posts that can be shown, each of them, at its own    *)
(* depth, and once.                                                        *)
ListsEachOnce(ofTrees) ==
    \A tree \in ofTrees :
        LET list == Flattened(tree)
        IN  /\ \A i \in DOMAIN list : list[i].post \in Generations(tree)[list[i].depth]
            /\ \A depth \in Depths : \A n \in Generations(tree)[depth] :
                  \E i \in DOMAIN list : list[i] = Line(n, depth)
            /\ \A i, j \in DOMAIN list : list[i].post = list[j].post => i = j

(* A reply is drawn below the post it answers, with nothing but that       *)
(* post's other replies, and what follows them, in between: the            *)
(* indentation says who answers whom.                                      *)
Under(tree, list, i) ==
    \E j \in 1..(i - 1) :
        /\ Answers(tree, list[i].post, list[j].post)
        /\ list[i].depth = list[j].depth + 1
        /\ \A k \in (j + 1)..(i - 1) : list[k].depth >= list[i].depth

RepliesFollow(ofTrees) ==
    \A tree \in ofTrees : \A i \in DOMAIN Flattened(tree) \ {1} : Under(tree, Flattened(tree), i)

(* The replies to a post are drawn in the order the server sent them in.   *)
InOrder(tree, list) ==
    \A n \in Posts : \A a, b \in DOMAIN tree.replies[n] : \A i, j \in DOMAIN list :
        list[i].post = tree.replies[n][a] /\ list[j].post = tree.replies[n][b] /\ a < b => i < j

RepliesInOrder(ofTrees) == \A tree \in ofTrees : InOrder(tree, Flattened(tree))
=============================================================================
