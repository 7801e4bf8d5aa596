------------------------------ MODULE LikeButton ------------------------------
(***************************************************************************)
(* What the like and repost buttons of a post promise: a tap is one step,  *)
(* which changes the viewer's records and what the tapped copy shows of    *)
(* them together, and no more than that.  Requests, markers and optimistic *)
(* counts do not appear.  Only the answer can be lost on its way back; the *)
(* button then takes back what it showed, and not what the server did.     *)
(***************************************************************************)
EXTENDS Naturals

CONSTANTS
    Copies,    \* of the post, in the feed and in its thread
    Kinds,     \* like, repost
    Records,   \* records the viewer may ever create
    None       \* no record

VARIABLES
    held,      \* held[k]: the viewer's records on the server
    seen,      \* copies that are in memory
    shows,     \* shows[c][k]: the record copy c shows the post to be liked by
    others,    \* others[c][k]: the likes copy c shows of other records
    unsure     \* the tap whose answer is still on its way, or Settled

vars == <<held, seen, shows, others, unsure>>

Settled == [copy |-> "none"]

Init ==
    /\ held \in [Kinds -> SUBSET Records]
    /\ seen = {}
    /\ shows \in [Copies -> [Kinds -> {None}]]
    /\ others \in [Copies -> [Kinds -> Nat]]
    /\ unsure = Settled

\* A copy is loaded, and shows one of the records.
Look(c) ==
    /\ unsure = Settled
    /\ seen' = seen \cup {c}
    /\ \E v \in [Kinds -> Records \cup {None}] :
        /\ \A k \in Kinds : v[k] \in (IF held[k] = {} THEN {None} ELSE held[k])
        /\ shows' = [shows EXCEPT ![c] = v]
    /\ others'[c] \in [Kinds -> Nat]
    /\ others' = [others EXCEPT ![c] = others'[c]]
    /\ UNCHANGED <<held, unsure>>

Forget(copies) ==
    /\ unsure = Settled
    /\ seen' = seen \ copies
    /\ UNCHANGED <<held, shows, others, unsure>>

Changes(c, k, new) ==
    /\ unsure = Settled
    /\ c \in seen
    /\ shows' = [shows EXCEPT ![c][k] = new]
    /\ unsure' = [copy |-> c, kind |-> k, old |-> shows[c][k]]
    /\ UNCHANGED <<seen, others>>

Like(c, k) ==
    /\ shows[c][k] = None
    /\ \E r \in Records \ held[k] :
        /\ held' = [held EXCEPT ![k] = @ \cup {r}]
        /\ Changes(c, k, r)

Unlike(c, k) ==
    /\ shows[c][k] # None
    /\ held' = [held EXCEPT ![k] = @ \ {shows[c][k]}]
    /\ Changes(c, k, None)

\* The answer arrives.
Settle ==
    /\ unsure # Settled
    /\ unsure' = Settled
    /\ UNCHANGED <<held, seen, shows, others>>

\* The answer is lost.
TakeBack ==
    /\ unsure # Settled
    /\ shows' = [shows EXCEPT ![unsure.copy][unsure.kind] = unsure.old]
    /\ unsure' = Settled
    /\ UNCHANGED <<held, seen, others>>

Next ==
    \/ \E c \in Copies : Look(c)
    \/ \E copies \in SUBSET Copies : Forget(copies)
    \/ \E c \in Copies, k \in Kinds : Like(c, k) \/ Unlike(c, k)
    \/ Settle \/ TakeBack

Spec == Init /\ [][Next]_vars
=============================================================================
