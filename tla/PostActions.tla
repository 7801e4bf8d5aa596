------------------------------ MODULE PostActions ------------------------------
(***************************************************************************)
(* Liking and reposting: the optimistic update of the tapped copy of a     *)
(* post, the request, and its confirmation or rollback.  One post may have *)
(* several copies in the feed, which lists it once more for everybody who  *)
(* reposted it, and another in the thread that was opened from there.      *)
(* A record is the number of an app.bsky.feed.like or .repost record.      *)
(***************************************************************************)
EXTENDS Integers, FiniteSets

CONSTANTS
    FeedCopies,   \* the copies of the post in feed_result
    ThreadCopies, \* its copy in thread_result, if that is modelled
    Kinds,        \* "like" and "repost", which the code treats alike
    Others,       \* likes (reposts) of other people
    MaxRecords    \* bound: records the viewer ever creates, of each kind

ASSUME OthersAssumption == Others \in Nat /\ MaxRecords \in Nat

Copies == FeedCopies \cup ThreadCopies

VARIABLES
    view,      \* app.view_mode: "feed" or "thread"
    created,   \* server: records created so far, of each kind
    records,   \* server: the viewer's records that exist, of each kind
    loaded,    \* the copies that are in memory
    viewer,    \* viewer[c][k]: viewer_like or viewer_repost of copy c
    count,     \* count[c][k]: like_count or repost_count
    request,   \* the request under way, or NoRequest
    instep     \* history: instep[c][k]: since copy c was loaded, only taps on c
               \* changed the viewer's records, and it heard of every change

server == <<created, records>>
vars == <<view, created, records, loaded, viewer, count, request, instep>>

-----------------------------------------------------------------------------
None      == 0    \* the empty string
Pending   == -1   \* "pending-like", "pending-repost"
Records   == 1..MaxRecords
Phases    == {"sent", "acted", "refused"}
NoRequest == [phase |-> "none"]

(* old: what viewer held when the tap came.  new: the record to report.    *)
Requests == [phase : Phases, copy : Copies, kind : Kinds,
             old : Records \cup {None}, new : Records \cup {None}]

Idle == request = NoRequest

(* What a fetch of the post may say: viewer_like is one of the viewer's    *)
(* records, which may count once or each.                                  *)
Fetched(k) == IF records[k] = {} THEN {None} ELSE records[k]
Counted(k) == IF records[k] = {} THEN {0} ELSE 1..Cardinality(records[k])

(* The copies a tap can reach.                                             *)
OnScreen(c) ==
    /\ c \in loaded
    /\ c \in (IF view = "feed" THEN FeedCopies ELSE ThreadCopies)

Init ==
    /\ view = "feed"
    /\ created \in [Kinds -> {0, 1} \cap (0..MaxRecords)]
    /\ records = [k \in Kinds |-> 1..created[k]]
    /\ loaded = {}
    /\ viewer = [c \in Copies |-> [k \in Kinds |-> None]]
    /\ count = [c \in Copies |-> [k \in Kinds |-> Others]]
    /\ request = NoRequest
    /\ instep = [c \in Copies |-> [k \in Kinds |-> FALSE]]

-----------------------------------------------------------------------------
(* A copy with what the server says now: convertPostView.                  *)
Load(c) ==
    /\ loaded' = loaded \cup {c}
    /\ \E v, n \in [Kinds -> 0..MaxRecords] :
         /\ \A k \in Kinds : v[k] \in Fetched(k) /\ n[k] \in Counted(k)
         /\ viewer' = [viewer EXCEPT ![c] = v]
         /\ count' = [count EXCEPT ![c] = [k \in Kinds |-> Others + n[k]]]
    /\ instep' = [instep EXCEPT ![c] = [k \in Kinds |-> \A q, r \in records[k] : q = r]]

(* A reload without a copy.                                                *)
Lose(copies) ==
    /\ loaded' = loaded \ copies
    /\ UNCHANGED <<viewer, count, instep>>

(* load_feed or advance_feed_page brings a copy; a reload can lose one.    *)
LoadFeed ==
    /\ Idle /\ view = "feed"
    /\ \E c \in FeedCopies : Load(c) \/ Lose({c})
    /\ UNCHANGED <<view, server, request>>

(* load_thread, of this post's thread or of one that does not show it.     *)
OpenThread ==
    /\ Idle /\ view = "feed" /\ view' = "thread"
    /\ Lose(ThreadCopies) \/ \E c \in ThreadCopies : Load(c)
    /\ UNCHANGED <<server, request>>

BackToFeed ==
    /\ Idle /\ view = "thread" /\ view' = "feed"
    /\ UNCHANGED <<server, loaded, viewer, count, request, instep>>

(* Mutant of TapLike: the count is left to the next load. *)
TapLikeNotCounted(c, k) ==
    /\ Idle /\ OnScreen(c)
    /\ viewer[c][k] = None
    /\ viewer' = [viewer EXCEPT ![c][k] = Pending]
    /\ request' = [phase |-> "sent", copy |-> c, kind |-> k, old |-> None, new |-> None]
    /\ UNCHANGED <<view, server, loaded, count, instep>>

TapLike(c, k) ==
    /\ Idle /\ OnScreen(c)
    /\ viewer[c][k] = None
    /\ count' = [count EXCEPT ![c][k] = @ + 1]
    /\ viewer' = [viewer EXCEPT ![c][k] = Pending]
    /\ request' = [phase |-> "sent", copy |-> c, kind |-> k, old |-> None, new |-> None]
    /\ UNCHANGED <<view, server, loaded, instep>>

TapUnlike(c, k) ==
    /\ Idle /\ OnScreen(c)
    /\ viewer[c][k] # None
    /\ viewer' = [viewer EXCEPT ![c][k] = None]
    /\ count' = [count EXCEPT ![c][k] = IF @ > 0 THEN @ - 1 ELSE 0]
    /\ request' = [phase |-> "sent", copy |-> c, kind |-> k,
                   old |-> viewer[c][k], new |-> None]
    /\ UNCHANGED <<view, server, loaded, instep>>

-----------------------------------------------------------------------------
(* run_action_with_session and the request it makes *)

(* The records of request.kind change behind all copies but the tapped one.*)
OthersFallBehind ==
    instep' = [c \in Copies |-> [k \in Kinds |->
                  instep[c][k] /\ (c = request.copy \/ k # request.kind)]]

(* PostMaster::like, ::repost: the server creates one more record.         *)
RecordCreated ==
    /\ request.phase = "sent" /\ request.old = None
    /\ LET k == request.kind
       IN  /\ created[k] < MaxRecords
           /\ created' = [created EXCEPT ![k] = @ + 1]
           /\ records' = [records EXCEPT ![k] = @ \cup {created[k] + 1}]
           /\ request' = [request EXCEPT !.phase = "acted", !.new = created[k] + 1]
    /\ OthersFallBehind
    /\ UNCHANGED <<view, loaded, viewer, count>>

(* PostMaster::undo: deleting a record that is gone succeeds as well.      *)
RecordDeleted ==
    /\ request.phase = "sent" /\ request.old # None
    /\ records' = [records EXCEPT ![request.kind] = @ \ {request.old}]
    /\ request' = [request EXCEPT !.phase = "acted"]
    /\ OthersFallBehind
    /\ UNCHANGED <<view, created, loaded, viewer, count>>

(* The restore or the request failed and the server did nothing.           *)
RequestFails ==
    /\ request.phase = "sent"
    /\ request' = [request EXCEPT !.phase = "refused"]
    /\ UNCHANGED <<view, server, loaded, viewer, count, instep>>

-----------------------------------------------------------------------------
(* The rest of the handler *)

(* Mutant of Confirm: the record's uri is not kept. *)
ConfirmKeepsPending ==
    /\ request.phase = "acted"
    /\ request' = NoRequest
    /\ UNCHANGED <<view, server, loaded, viewer, count, instep>>

Confirm ==
    /\ request.phase = "acted"
    /\ viewer' = IF request.old = None
                   THEN [viewer EXCEPT ![request.copy][request.kind] = request.new]
                   ELSE viewer
    /\ request' = NoRequest
    /\ UNCHANGED <<view, server, loaded, count, instep>>

(* The request failed, or the answer to one that succeeded was lost.       *)

(* Mutant of RollBack: only the count is taken back. *)
RollBackCountOnly ==
    /\ request.phase \in {"refused", "acted"}
    /\ LET c == request.copy
           k == request.kind
       IN  count' = [count EXCEPT ![c][k] = IF request.old = None THEN @ - 1 ELSE @ + 1]
    /\ instep' = [instep EXCEPT ![request.copy][request.kind] = @ /\ request.phase = "refused"]
    /\ request' = NoRequest
    /\ UNCHANGED <<view, server, loaded, viewer>>

RollBack ==
    /\ request.phase \in {"refused", "acted"}
    /\ LET c == request.copy
           k == request.kind
       IN  /\ viewer' = [viewer EXCEPT ![c][k] = request.old]
           /\ count' = [count EXCEPT ![c][k] = IF request.old = None THEN @ - 1 ELSE @ + 1]
    /\ instep' = [instep EXCEPT ![request.copy][request.kind] = @ /\ request.phase = "refused"]
    /\ request' = NoRequest
    /\ UNCHANGED <<view, server, loaded>>

-----------------------------------------------------------------------------
Tap == \E c \in Copies, k \in Kinds : TapLike(c, k) \/ TapUnlike(c, k)

Next ==
    \/ LoadFeed \/ OpenThread \/ BackToFeed
    \/ Tap \/ RecordCreated \/ RecordDeleted \/ RequestFails \/ Confirm \/ RollBack

Spec == Init /\ [][Next]_vars

-----------------------------------------------------------------------------
(* The buttons as LikeButton has them: a tap happens when the server acts. *)

AskedFor(c, k) == ~Idle /\ request.copy = c /\ request.kind = k

(* What the answer says, or what was there while there is none.            *)
Told == IF request.phase = "acted" THEN request.new ELSE request.old

ButtonShows == [c \in Copies |-> [k \in Kinds |-> IF AskedFor(c, k) THEN Told ELSE viewer[c][k]]]

OthersShown ==
    [c \in Copies |-> [k \in Kinds |-> IF viewer[c][k] = None THEN count[c][k] ELSE count[c][k] - 1]]

Unsure ==
    IF request.phase = "acted"
      THEN [copy |-> request.copy, kind |-> request.kind, old |-> request.old]
      ELSE [copy |-> "none"]

Button == INSTANCE LikeButton WITH
    held <- records, seen <- loaded, shows <- ButtonShows, others <- OthersShown, unsure <- Unsure

-----------------------------------------------------------------------------
(* Properties *)

(* Every variable keeps to its domain. *)
TypeOK ==
    /\ view \in {"feed", "thread"}
    /\ created \in [Kinds -> 0..MaxRecords]
    /\ records \in [Kinds -> SUBSET Records]
    /\ loaded \subseteq Copies
    /\ viewer \in [Copies -> [Kinds -> Records \cup {None, Pending}]]
    /\ count \in [Copies -> [Kinds -> Nat]]
    /\ request \in Requests \cup {NoRequest}
    /\ instep \in [Copies -> [Kinds -> BOOLEAN]]

(* A marker of a request under way never outlives the request, and stands  *)
(* on the copy that was tapped: otherwise the next tap would ask the       *)
(* server to delete a record called "pending-like".                        *)
PendingMeansAsked ==
    \A c \in Copies, k \in Kinds :
        viewer[c][k] = Pending =>
            ~Idle /\ request.copy = c /\ request.kind = k /\ request.old = None

(* A copy that shows the post as liked counts at least that like, so the   *)
(* floor of like_count (std::max(0, like_count - 1)) is never reached and  *)
(* a refused unlike adds back exactly what it took away.                   *)
LikedIsCounted ==
    \A c \in loaded, k \in Kinds : viewer[c][k] # None => count[c][k] >= 1

(* Unless another copy of the post was tapped since or an answer was lost, *)
(* the idle application shows of a copy what the server has: liked, by     *)
(* exactly the one record the next tap would delete, or not liked.         *)
(* Whatever was refused meanwhile, nothing drifts.                         *)
ShowsServerState ==
    Idle => \A c \in loaded, k \in Kinds :
        instep[c][k] =>
            /\ records[k] = {viewer[c][k]} \ {None}
            /\ count[c][k] = Others + Cardinality(records[k])

(* A tap does to the server and to the tapped copy what LikeButton says,   *)
(* in one step: markers and optimistic counts are never all that changes,  *)
(* no other copy is touched, and the likes of other people that a copy     *)
(* shows are those it was loaded with, whatever is refused or lost.        *)
ImplementsButton == Button!Spec

=============================================================================
