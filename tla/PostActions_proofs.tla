-------------------------- MODULE PostActions_proofs --------------------------
(***************************************************************************)
(* Proofs about PostActions, for any number of copies of the post, any     *)
(* kinds and any bound.                                                    *)
(***************************************************************************)
EXTENDS PostActions, FiniteSetTheorems, TLAPS

Asked == ~Idle

(* What the handler left on the tapped copy while it waits.                *)
RequestMarked ==
    Asked => /\ request.copy \in loaded
             /\ viewer[request.copy][request.kind] =
                    IF request.old = None THEN Pending ELSE None

(* The inductive invariant: RollBack and Confirm rely on RequestMarked,    *)
(* TypeOK on LikedIsCounted, and TapUnlike on PendingMeansAsked.           *)
ActionInv == TypeOK /\ PendingMeansAsked /\ LikedIsCounted /\ RequestMarked

LEMMA NoRequestIsNone == NoRequest \notin Requests /\ NoRequest.phase = "none"
BY DEF NoRequest, Requests, Phases

LEMMA InitActionInv == Init => ActionInv
BY OthersAssumption, NoRequestIsNone
   DEF Init, ActionInv, TypeOK, PendingMeansAsked, LikedIsCounted, RequestMarked, Asked,
       Idle, Records, None, Pending, Copies

(* A copy fresh from the server counts what it shows.                      *)
LEMMA LoadKeepsInv ==
    ASSUME ActionInv, Idle, Idle', UNCHANGED <<server>>,
           view' \in {"feed", "thread"}, NEW c \in Copies, Load(c)
    PROVE  ActionInv'
<1>1. PICK v, n \in [Kinds -> 0..MaxRecords] :
        /\ \A k \in Kinds : v[k] \in Fetched(k) /\ n[k] \in Counted(k)
        /\ viewer' = [viewer EXCEPT ![c] = v]
        /\ count' = [count EXCEPT ![c] = [k \in Kinds |-> Others + n[k]]]
  BY DEF Load
<1>2. \A k \in Kinds : v[k] # None => n[k] >= 1
  BY <1>1 DEF Fetched, Counted, None
<1>3. /\ viewer \in [Copies -> [Kinds -> Records \cup {None, Pending}]]
      /\ count \in [Copies -> [Kinds -> Nat]]
      /\ v \in [Kinds -> Records \cup {None}]
      /\ [k \in Kinds |-> Others + n[k]] \in [Kinds -> Nat]
  BY <1>1, OthersAssumption DEF ActionInv, TypeOK, Records, None
<1>4. TypeOK'
  <2>1. viewer' \in [Copies -> [Kinds -> Records \cup {None, Pending}]]
    BY <1>1, <1>3
  <2>2. count' \in [Copies -> [Kinds -> Nat]]
    BY <1>1, <1>3
  <2>3. loaded' \subseteq Copies
    BY DEF Load, ActionInv, TypeOK
  <2>4. instep' \in [Copies -> [Kinds -> BOOLEAN]]
    BY DEF Load, ActionInv, TypeOK
  <2> QED BY <2>1, <2>2, <2>3, <2>4 DEF ActionInv, TypeOK, Idle, server
<1>5. PendingMeansAsked'
  <2> SUFFICES ASSUME NEW d \in Copies, NEW k \in Kinds
               PROVE  viewer'[d][k] # Pending
    BY DEF PendingMeansAsked
  <2>1. CASE d = c
    BY <1>1, <1>3, <2>1 DEF Records, None, Pending
  <2>2. CASE d # c
    BY <1>1, <1>3, <2>2 DEF ActionInv, PendingMeansAsked
  <2> QED BY <2>1, <2>2
<1>6. LikedIsCounted'
  <2> SUFFICES ASSUME NEW d \in loaded', NEW k \in Kinds, viewer'[d][k] # None
               PROVE  count'[d][k] >= 1
    BY DEF LikedIsCounted
  <2>1. CASE d = c
    <3>1. viewer'[c][k] = v[k] /\ count'[c][k] = Others + n[k]
      BY <1>1, <1>3
    <3> QED BY <3>1, <2>1, <1>2, OthersAssumption
  <2>2. CASE d # c
    <3>1. d \in loaded /\ viewer'[d] = viewer[d] /\ count'[d] = count[d]
      BY <1>1, <1>3, <2>2 DEF Load, ActionInv, TypeOK
    <3> QED BY <3>1 DEF ActionInv, LikedIsCounted
  <2> QED BY <2>1, <2>2
<1> QED BY <1>4, <1>5, <1>6 DEF ActionInv, RequestMarked, Asked

-----------------------------------------------------------------------------
LEMMA LoadFeedKeepsInv == ActionInv /\ LoadFeed => ActionInv'
<1> SUFFICES ASSUME ActionInv, LoadFeed PROVE ActionInv'
  OBVIOUS
<1>1. Idle /\ Idle' /\ UNCHANGED <<view, server, request>>
  BY DEF LoadFeed, Idle
<1>2. PICK c \in FeedCopies : Load(c) \/ Lose({c})
  BY DEF LoadFeed
<1>3. CASE Load(c)
  BY <1>1, <1>3, LoadKeepsInv DEF Copies, ActionInv, TypeOK
<1>4. CASE Lose({c})
  BY <1>1, <1>4 DEF Lose, ActionInv, TypeOK, PendingMeansAsked, LikedIsCounted, RequestMarked,
                    Asked, Idle, server
<1> QED BY <1>2, <1>3, <1>4

LEMMA OpenThreadKeepsInv == ActionInv /\ OpenThread => ActionInv'
<1> SUFFICES ASSUME ActionInv, OpenThread PROVE ActionInv'
  OBVIOUS
<1>1. Idle /\ Idle' /\ view' = "thread" /\ UNCHANGED <<server, request>>
  BY DEF OpenThread, Idle
<1>2. CASE \E c \in ThreadCopies : Load(c)
  BY <1>1, <1>2, LoadKeepsInv DEF Copies
<1>3. CASE Lose(ThreadCopies)
  BY <1>1, <1>3 DEF Lose, ActionInv, TypeOK, PendingMeansAsked, LikedIsCounted, RequestMarked,
                    Asked, Idle, server
<1> QED BY <1>2, <1>3 DEF OpenThread

LEMMA TapLikeKeepsInv ==
    ASSUME ActionInv, NEW c \in Copies, NEW k \in Kinds, TapLike(c, k)
    PROVE  ActionInv'
<1>1. /\ Idle /\ c \in loaded /\ viewer[c][k] = None
      /\ count' = [count EXCEPT ![c][k] = @ + 1]
      /\ viewer' = [viewer EXCEPT ![c][k] = Pending]
      /\ request' = [phase |-> "sent", copy |-> c, kind |-> k, old |-> None, new |-> None]
      /\ UNCHANGED <<view, created, records, loaded, instep>>
  BY DEF TapLike, OnScreen, server
<1>2. /\ viewer \in [Copies -> [Kinds -> Records \cup {None, Pending}]]
      /\ count \in [Copies -> [Kinds -> Nat]]
  BY DEF ActionInv, TypeOK
<1>3. request' \in Requests /\ ~Idle'
  BY <1>1, NoRequestIsNone DEF Requests, Phases, Idle
<1>4. TypeOK'
  <2>1. viewer' \in [Copies -> [Kinds -> Records \cup {None, Pending}]]
    BY <1>1, <1>2
  <2>2. count' \in [Copies -> [Kinds -> Nat]]
    BY <1>1, <1>2
  <2> QED BY <2>1, <2>2, <1>1, <1>3 DEF ActionInv, TypeOK
<1>5. PendingMeansAsked'
  BY <1>1, <1>2, <1>3 DEF ActionInv, PendingMeansAsked
<1>6. LikedIsCounted'
  <2> SUFFICES ASSUME NEW d \in loaded, NEW j \in Kinds, viewer'[d][j] # None
               PROVE  count'[d][j] >= 1
    BY <1>1 DEF LikedIsCounted
  <2>0. d \in Copies
    BY DEF ActionInv, TypeOK
  <2>1. CASE d = c /\ j = k
    BY <1>1, <1>2, <2>1
  <2>2. CASE ~(d = c /\ j = k)
    BY <1>1, <1>2, <2>0, <2>2 DEF ActionInv, LikedIsCounted
  <2> QED BY <2>1, <2>2
<1>7. RequestMarked'
  BY <1>1, <1>2 DEF RequestMarked
<1> QED BY <1>4, <1>5, <1>6, <1>7 DEF ActionInv

LEMMA TapUnlikeKeepsInv ==
    ASSUME ActionInv, NEW c \in Copies, NEW k \in Kinds, TapUnlike(c, k)
    PROVE  ActionInv'
<1>1. /\ Idle /\ c \in loaded /\ viewer[c][k] # None
      /\ viewer' = [viewer EXCEPT ![c][k] = None]
      /\ count' = [count EXCEPT ![c][k] = IF @ > 0 THEN @ - 1 ELSE 0]
      /\ request' = [phase |-> "sent", copy |-> c, kind |-> k,
                     old |-> viewer[c][k], new |-> None]
      /\ UNCHANGED <<view, created, records, loaded, instep>>
  BY DEF TapUnlike, OnScreen, server
<1>2. /\ viewer \in [Copies -> [Kinds -> Records \cup {None, Pending}]]
      /\ count \in [Copies -> [Kinds -> Nat]]
  BY DEF ActionInv, TypeOK
<1>3. viewer[c][k] \in Records
  BY <1>1, <1>2 DEF ActionInv, PendingMeansAsked
<1>4. request' \in Requests /\ ~Idle' /\ request'.old # None
  BY <1>1, <1>3, NoRequestIsNone DEF Requests, Phases, Idle
<1>5. TypeOK'
  <2>1. viewer' \in [Copies -> [Kinds -> Records \cup {None, Pending}]]
    BY <1>1, <1>2
  <2>2. count' \in [Copies -> [Kinds -> Nat]]
    BY <1>1, <1>2
  <2> QED BY <2>1, <2>2, <1>1, <1>4 DEF ActionInv, TypeOK
<1>6. PendingMeansAsked'
  BY <1>1, <1>2 DEF ActionInv, PendingMeansAsked, None, Pending
<1>7. LikedIsCounted'
  <2> SUFFICES ASSUME NEW d \in loaded, NEW j \in Kinds, viewer'[d][j] # None
               PROVE  count'[d][j] >= 1
    BY <1>1 DEF LikedIsCounted
  <2>0. d \in Copies
    BY DEF ActionInv, TypeOK
  <2>1. ~(d = c /\ j = k)
    BY <1>1, <1>2
  <2> QED BY <1>1, <1>2, <2>0, <2>1 DEF ActionInv, LikedIsCounted
<1>8. RequestMarked'
  BY <1>1, <1>2, <1>4 DEF RequestMarked
<1> QED BY <1>5, <1>6, <1>7, <1>8 DEF ActionInv

-----------------------------------------------------------------------------
(* What the server does leaves the copies alone.                           *)
LEMMA ServerKeepsInv ==
    ASSUME ActionInv, RecordCreated \/ RecordDeleted \/ RequestFails
    PROVE  ActionInv'
<1>1. Asked /\ request \in Requests
  BY NoRequestIsNone DEF RecordCreated, RecordDeleted, RequestFails, Asked, Idle,
     ActionInv, TypeOK
<1>2. UNCHANGED <<view, loaded, viewer, count>>
  BY DEF RecordCreated, RecordDeleted, RequestFails
<1>3. /\ request' \in Requests
      /\ request'.copy = request.copy /\ request'.kind = request.kind
      /\ request'.old = request.old
  <2>1. CASE RecordCreated
    <3>1. created[request.kind] + 1 \in Records
      BY <1>1, <2>1, OthersAssumption
         DEF RecordCreated, ActionInv, TypeOK, Requests, Records
    <3> QED BY <1>1, <2>1, <3>1 DEF RecordCreated, Requests, Phases
  <2>2. CASE RecordDeleted
    BY <1>1, <2>2 DEF RecordDeleted, Requests, Phases
  <2>3. CASE RequestFails
    BY <1>1, <2>3 DEF RequestFails, Requests, Phases
  <2> QED BY <2>1, <2>2, <2>3
<1>4. created' \in [Kinds -> 0..MaxRecords] /\ records' \in [Kinds -> SUBSET Records]
  <2>1. CASE RecordCreated
    <3>1. /\ request.kind \in Kinds
          /\ created[request.kind] \in 0..MaxRecords
          /\ created[request.kind] + 1 \in Records
      BY <1>1, <2>1, OthersAssumption
         DEF RecordCreated, ActionInv, TypeOK, Requests, Records
    <3> QED BY <3>1, <2>1, OthersAssumption DEF RecordCreated, ActionInv, TypeOK, Records
  <2>2. CASE RecordDeleted
    BY <2>2 DEF RecordDeleted, ActionInv, TypeOK
  <2>3. CASE RequestFails
    BY <2>3 DEF RequestFails, ActionInv, TypeOK, server
  <2> QED BY <2>1, <2>2, <2>3
<1>5. ~Idle'
  BY <1>3, NoRequestIsNone DEF Idle
<1>8. instep' \in [Copies -> [Kinds -> BOOLEAN]]
  <2>1. CASE OthersFallBehind
    BY <2>1 DEF OthersFallBehind, ActionInv, TypeOK
  <2>2. CASE UNCHANGED instep
    BY <2>2 DEF ActionInv, TypeOK
  <2> QED BY <2>1, <2>2 DEF RecordCreated, RecordDeleted, RequestFails
<1>6. TypeOK'
  BY <1>2, <1>3, <1>4, <1>8 DEF ActionInv, TypeOK
<1>7. PendingMeansAsked' /\ LikedIsCounted' /\ RequestMarked'
  BY <1>1, <1>2, <1>3, <1>5
     DEF ActionInv, PendingMeansAsked, LikedIsCounted, RequestMarked, Asked
<1> QED BY <1>6, <1>7 DEF ActionInv

-----------------------------------------------------------------------------
LEMMA ConfirmKeepsInv == ActionInv /\ Confirm => ActionInv'
<1> SUFFICES ASSUME ActionInv, Confirm PROVE ActionInv'
  OBVIOUS
<1> DEFINE c == request.copy
           k == request.kind
<1>1. /\ Asked /\ request \in Requests
      /\ c \in Copies /\ k \in Kinds /\ request.new \in Records \cup {None}
  BY NoRequestIsNone DEF Confirm, Asked, Idle, ActionInv, TypeOK, Requests
<1>2. /\ viewer' = IF request.old = None
                     THEN [viewer EXCEPT ![c][k] = request.new] ELSE viewer
      /\ request' = NoRequest /\ Idle'
      /\ UNCHANGED <<view, created, records, loaded, count, instep>>
  BY DEF Confirm, Idle, server
<1>3. viewer \in [Copies -> [Kinds -> Records \cup {None, Pending}]]
  BY DEF ActionInv, TypeOK
<1>4. TypeOK'
  <2>1. viewer' \in [Copies -> [Kinds -> Records \cup {None, Pending}]]
    BY <1>1, <1>2, <1>3
  <2> QED BY <2>1, <1>2 DEF ActionInv, TypeOK
<1>5. PendingMeansAsked'
  <2> SUFFICES ASSUME NEW d \in Copies, NEW j \in Kinds
               PROVE  viewer'[d][j] # Pending
    BY DEF PendingMeansAsked
  <2>1. CASE request.old = None /\ d = c /\ j = k
    BY <1>1, <1>2, <1>3, <2>1 DEF Records, None, Pending
  <2>2. CASE ~(request.old = None /\ d = c /\ j = k)
    BY <1>1, <1>2, <1>3, <2>2 DEF ActionInv, PendingMeansAsked
  <2> QED BY <2>1, <2>2
<1>6. LikedIsCounted'
  <2> SUFFICES ASSUME NEW d \in loaded, NEW j \in Kinds, viewer'[d][j] # None
               PROVE  count[d][j] >= 1
    BY <1>2 DEF LikedIsCounted
  <2>0. d \in Copies
    BY DEF ActionInv, TypeOK
  <2>1. viewer[d][j] # None
    <3>1. CASE request.old = None /\ d = c /\ j = k
      BY <1>1, <3>1 DEF ActionInv, RequestMarked, None, Pending
    <3>2. CASE ~(request.old = None /\ d = c /\ j = k)
      BY <1>1, <1>2, <1>3, <2>0, <3>2
    <3> QED BY <3>1, <3>2
  <2> QED BY <2>1 DEF ActionInv, LikedIsCounted
<1> QED BY <1>2, <1>4, <1>5, <1>6 DEF ActionInv, RequestMarked, Asked

(* What a refused like takes away was added by the tap.                    *)
LEMMA RollBackKeepsInv == ActionInv /\ RollBack => ActionInv'
<1> SUFFICES ASSUME ActionInv, RollBack PROVE ActionInv'
  OBVIOUS
<1> DEFINE c == request.copy
           k == request.kind
           back == IF request.old = None THEN count[c][k] - 1 ELSE count[c][k] + 1
<1>1. /\ Asked /\ request \in Requests
      /\ c \in Copies /\ k \in Kinds /\ request.old \in Records \cup {None}
  BY NoRequestIsNone DEF RollBack, Asked, Idle, ActionInv, TypeOK, Requests
<1>2. /\ viewer' = [viewer EXCEPT ![c][k] = request.old]
      /\ count' = [count EXCEPT ![c][k] = back]
      /\ request' = NoRequest /\ Idle'
      /\ UNCHANGED <<view, created, records, loaded>>
  BY DEF RollBack, Idle, server
<1>3. /\ viewer \in [Copies -> [Kinds -> Records \cup {None, Pending}]]
      /\ count \in [Copies -> [Kinds -> Nat]]
  BY DEF ActionInv, TypeOK
<1>4. back \in Nat /\ (request.old # None => back >= 1)
  <2>1. count[c][k] \in Nat
    BY <1>1, <1>3
  <2>2. request.old = None => count[c][k] >= 1
    BY <1>1 DEF ActionInv, RequestMarked, LikedIsCounted, None, Pending
  <2> QED BY <2>1, <2>2
<1> HIDE DEF back
<1>5. TypeOK'
  <2>1. viewer' \in [Copies -> [Kinds -> Records \cup {None, Pending}]]
    BY <1>1, <1>2, <1>3
  <2>2. count' \in [Copies -> [Kinds -> Nat]]
    BY <1>1, <1>2, <1>3, <1>4
  <2>3. instep' \in [Copies -> [Kinds -> BOOLEAN]]
    BY <1>1 DEF RollBack, ActionInv, TypeOK
  <2> QED BY <2>1, <2>2, <2>3, <1>2 DEF ActionInv, TypeOK
<1>6. PendingMeansAsked'
  <2> SUFFICES ASSUME NEW d \in Copies, NEW j \in Kinds
               PROVE  viewer'[d][j] # Pending
    BY DEF PendingMeansAsked
  <2>1. CASE d = c /\ j = k
    BY <1>1, <1>2, <1>3, <2>1 DEF Records, None, Pending
  <2>2. CASE ~(d = c /\ j = k)
    BY <1>1, <1>2, <1>3, <2>2 DEF ActionInv, PendingMeansAsked
  <2> QED BY <2>1, <2>2
<1>7. LikedIsCounted'
  <2> SUFFICES ASSUME NEW d \in loaded, NEW j \in Kinds, viewer'[d][j] # None
               PROVE  count'[d][j] >= 1
    BY <1>2 DEF LikedIsCounted
  <2>0. d \in Copies
    BY DEF ActionInv, TypeOK
  <2>1. CASE d = c /\ j = k
    BY <1>1, <1>2, <1>3, <1>4, <2>1
  <2>2. CASE ~(d = c /\ j = k)
    BY <1>1, <1>2, <1>3, <2>0, <2>2 DEF ActionInv, LikedIsCounted
  <2> QED BY <2>1, <2>2
<1> QED BY <1>2, <1>5, <1>6, <1>7 DEF ActionInv, RequestMarked, Asked

-----------------------------------------------------------------------------
LEMMA ActionInvStep == ActionInv /\ [Next]_vars => ActionInv'
<1> SUFFICES ASSUME ActionInv, [Next]_vars PROVE ActionInv'
  OBVIOUS
<1>1. CASE LoadFeed
  BY <1>1, LoadFeedKeepsInv
<1>2. CASE OpenThread
  BY <1>2, OpenThreadKeepsInv
<1>3. CASE BackToFeed
  BY <1>3 DEF BackToFeed, ActionInv, TypeOK, PendingMeansAsked, LikedIsCounted,
              RequestMarked, Asked, Idle, server
<1>4. CASE Tap
  BY <1>4, TapLikeKeepsInv, TapUnlikeKeepsInv DEF Tap
<1>5. CASE RecordCreated \/ RecordDeleted \/ RequestFails
  BY <1>5, ServerKeepsInv
<1>6. CASE Confirm
  BY <1>6, ConfirmKeepsInv
<1>7. CASE RollBack
  BY <1>7, RollBackKeepsInv
<1>8. CASE UNCHANGED vars
  BY <1>8 DEF vars, ActionInv, TypeOK, PendingMeansAsked, LikedIsCounted,
              RequestMarked, Asked, Idle
<1> QED BY <1>1, <1>2, <1>3, <1>4, <1>5, <1>6, <1>7, <1>8 DEF Next

LEMMA ActionInvAlways == Spec => []ActionInv
BY InitActionInv, ActionInvStep, PTL DEF Spec

(* Every variable keeps to its domain: above all, no count falls below     *)
(* zero, which the rollback (post.like_count--) does not check.            *)
THEOREM TypeCorrect == Spec => []TypeOK
<1>1. ActionInv => TypeOK
  BY DEF ActionInv
<1> QED BY <1>1, ActionInvAlways, PTL

(* "pending-like" is never left behind, whatever fails, so that no tap     *)
(* ever asks the server to delete a record of that name.                   *)
THEOREM MarkerGoesWithRequest == Spec => []PendingMeansAsked
<1>1. ActionInv => PendingMeansAsked
  BY DEF ActionInv
<1> QED BY <1>1, ActionInvAlways, PTL

(* The floor of std::max(0, like_count - 1) is never reached, whatever     *)
(* copies of the post are around and whatever answers are lost.            *)
THEOREM FloorNeverReached == Spec => []LikedIsCounted
<1>1. ActionInv => LikedIsCounted
  BY DEF ActionInv
<1> QED BY <1>1, ActionInvAlways, PTL

-----------------------------------------------------------------------------
(* Copies nothing happened behind: what such a copy and the server hold,   *)
(* while a request is under way too.                                       *)
ServerHolds(c, k) == {IF AskedFor(c, k) THEN Told ELSE viewer[c][k]} \ {None}

CountShown(c, k) ==
    Others + (IF AskedFor(c, k) THEN (IF request.old = None THEN 1 ELSE 0)
              ELSE IF viewer[c][k] = None THEN 0 ELSE 1)

Agree(c, k) == records[k] = ServerHolds(c, k) /\ count[c][k] = CountShown(c, k)

Agreed == \A c \in loaded, k \in Kinds : instep[c][k] => Agree(c, k)

NewRecord == Asked => (request.new # None <=> request.phase = "acted" /\ request.old = None)

AgreeInv == ActionInv /\ NewRecord /\ Agreed

LEMMA OneOrNone == Cardinality({}) = 0 /\ \A x : Cardinality({x}) = 1
BY FS_EmptySet, FS_Singleton

LEMMA AgreeInvShows == AgreeInv => ShowsServerState
<1> SUFFICES ASSUME AgreeInv, Idle, NEW c \in loaded, NEW k \in Kinds, instep[c][k]
             PROVE  /\ records[k] = {viewer[c][k]} \ {None}
                    /\ count[c][k] = Others + Cardinality(records[k])
  BY DEF ShowsServerState
<1>1. ~AskedFor(c, k) /\ Agree(c, k)
  BY DEF AskedFor, Asked, AgreeInv, Agreed
<1>2. records[k] = {viewer[c][k]} \ {None}
  BY <1>1 DEF Agree, ServerHolds
<1>3. count[c][k] = Others + (IF viewer[c][k] = None THEN 0 ELSE 1)
  BY <1>1 DEF Agree, CountShown
<1>4. CASE viewer[c][k] = None
  <2>1. records[k] = {}
    BY <1>2, <1>4
  <2> QED BY <1>2, <1>3, <1>4, <2>1, OneOrNone
<1>5. CASE viewer[c][k] # None
  <2>1. records[k] = {viewer[c][k]}
    BY <1>2, <1>5
  <2> QED BY <1>2, <1>3, <1>5, <2>1, OneOrNone
<1> QED BY <1>4, <1>5

LEMMA InitAgreeInv == Init => AgreeInv
BY InitActionInv DEF Init, AgreeInv, NewRecord, Asked, Idle, Agreed

(* A copy fresh from the server agrees with it, if the viewer has at most  *)
(* one record: of several it could not tell which one viewer_like names.   *)
LEMMA LoadKeepsAgreed ==
    ASSUME AgreeInv, Idle, Idle', UNCHANGED <<server>>, NEW c \in Copies, Load(c)
    PROVE  Agreed'
<1>1. PICK v, n \in [Kinds -> 0..MaxRecords] :
        /\ \A k \in Kinds : v[k] \in Fetched(k) /\ n[k] \in Counted(k)
        /\ viewer' = [viewer EXCEPT ![c] = v]
        /\ count' = [count EXCEPT ![c] = [k \in Kinds |-> Others + n[k]]]
  BY DEF Load
<1>2. viewer'[c] = v /\ count'[c] = [k \in Kinds |-> Others + n[k]]
  BY <1>1 DEF AgreeInv, ActionInv, TypeOK
<1>3. instep'[c] = [k \in Kinds |-> \A q, r \in records[k] : q = r]
  BY DEF Load, AgreeInv, ActionInv, TypeOK
<1>4. ASSUME NEW k \in Kinds, instep'[c][k]
      PROVE  records[k] = {v[k]} \ {None} /\ n[k] = IF v[k] = None THEN 0 ELSE 1
  <2>1. CASE records[k] = {}
    BY <1>1, <2>1 DEF Fetched, Counted
  <2>2. CASE records[k] # {}
    <3>1. PICK r \in records[k] : TRUE
      BY <2>2
    <3>2. records[k] = {r}
      BY <1>3, <1>4, <3>1
    <3>3. Cardinality(records[k]) = 1
      BY <3>2, OneOrNone
    <3>4. r # None
      BY <3>1 DEF AgreeInv, ActionInv, TypeOK, Records, None
    <3>5. v[k] \in Fetched(k) /\ n[k] \in Counted(k)
      BY <1>1
    <3>6. v[k] = r
      BY <3>2, <3>5 DEF Fetched
    <3>7. n[k] \in 1..1
      BY <3>2, <3>3, <3>5 DEF Counted
    <3> QED BY <3>2, <3>4, <3>6, <3>7
  <2> QED BY <2>1, <2>2
<1>5. ASSUME NEW d \in loaded', NEW k \in Kinds, instep'[d][k]
      PROVE  Agree(d, k)'
  <2>1. ~AskedFor(d, k) /\ ~AskedFor(d, k)' /\ records' = records
    BY DEF AskedFor, Asked, server
  <2>2. CASE d = c
    BY <1>2, <1>4, <1>5, <2>1, <2>2 DEF Agree, ServerHolds, CountShown
  <2>3. CASE d # c
    <3>1. d \in Copies /\ d \in loaded
      BY <2>3 DEF Load, AgreeInv, ActionInv, TypeOK
    <3>2. instep'[d] = instep[d] /\ viewer'[d] = viewer[d] /\ count'[d] = count[d]
      BY <1>1, <2>3, <3>1 DEF Load, AgreeInv, ActionInv, TypeOK
    <3>3. Agree(d, k)
      BY <1>5, <3>1, <3>2 DEF AgreeInv, Agreed
    <3> QED BY <2>1, <3>2, <3>3 DEF Agree, ServerHolds, CountShown
  <2> QED BY <2>2, <2>3
<1> QED BY <1>5 DEF Agreed

LEMMA TapKeepsAgreed ==
    ASSUME AgreeInv, NEW c \in Copies, NEW k \in Kinds, TapLike(c, k) \/ TapUnlike(c, k)
    PROVE  NewRecord' /\ Agreed'
<1>1. /\ Idle /\ c \in loaded
      /\ request' = [phase |-> "sent", copy |-> c, kind |-> k,
                     old |-> viewer[c][k], new |-> None]
      /\ viewer' = [viewer EXCEPT ![c][k] = IF viewer[c][k] = None THEN Pending ELSE None]
      /\ count' = [count EXCEPT ![c][k] = IF viewer[c][k] = None THEN @ + 1
                                         ELSE IF @ > 0 THEN @ - 1 ELSE 0]
      /\ UNCHANGED <<created, records, loaded, instep>>
  BY DEF TapLike, TapUnlike, OnScreen, server
<1>2. /\ viewer \in [Copies -> [Kinds -> Records \cup {None, Pending}]]
      /\ count \in [Copies -> [Kinds -> Nat]]
      /\ loaded \subseteq Copies
  BY DEF AgreeInv, ActionInv, TypeOK
<1>3. NewRecord'
  BY <1>1 DEF NewRecord
<1>4. ASSUME NEW d \in loaded, NEW j \in Kinds, instep[d][j]
      PROVE  Agree(d, j)'
  <2>1. /\ records[j] = {viewer[d][j]} \ {None}
        /\ count[d][j] = Others + (IF viewer[d][j] = None THEN 0 ELSE 1)
    BY <1>1, <1>4 DEF AgreeInv, Agreed, Agree, ServerHolds, CountShown, AskedFor, Asked
  <2>2. CASE d = c /\ j = k
    <3>1. AskedFor(c, j)' /\ Told' = viewer[c][k] /\ request'.old = viewer[c][k]
      BY <1>1, <2>2, NoRequestIsNone DEF AskedFor, Asked, Idle, Told
    <3>2. count'[c][k] = Others + (IF viewer[c][k] = None THEN 1 ELSE 0)
      <4>1. count[c][k] = Others + (IF viewer[c][k] = None THEN 0 ELSE 1)
        BY <2>1, <2>2
      <4>2. count'[c][k] = IF viewer[c][k] = None THEN count[c][k] + 1
                           ELSE IF count[c][k] > 0 THEN count[c][k] - 1 ELSE 0
        BY <1>1, <1>2
      <4> QED BY <4>1, <4>2, OthersAssumption
    <3> QED BY <1>1, <2>1, <2>2, <3>1, <3>2 DEF Agree, ServerHolds, CountShown
  <2>3. CASE ~(d = c /\ j = k)
    <3>1. ~AskedFor(d, j)'
      BY <1>1, <2>3 DEF AskedFor
    <3>2. viewer'[d][j] = viewer[d][j] /\ count'[d][j] = count[d][j]
      BY <1>1, <1>2, <2>3
    <3> QED BY <1>1, <2>1, <3>1, <3>2 DEF Agree, ServerHolds, CountShown
  <2> QED BY <2>2, <2>3
<1> QED BY <1>1, <1>3, <1>4 DEF Agreed

LEMMA RequestOnCopy ==
    ASSUME AgreeInv, Asked
    PROVE  /\ request \in Requests /\ request.copy \in loaded /\ request.copy \in Copies
           /\ request.kind \in Kinds
           /\ viewer[request.copy][request.kind] = IF request.old = None THEN Pending ELSE None
           /\ instep[request.copy][request.kind] =>
                /\ records[request.kind] = {Told} \ {None}
                /\ count[request.copy][request.kind] =
                       Others + (IF request.old = None THEN 1 ELSE 0)
<1>1. /\ request \in Requests /\ request.copy \in loaded /\ request.kind \in Kinds
      /\ request.copy \in Copies
  BY DEF Asked, Idle, AgreeInv, ActionInv, TypeOK, RequestMarked, Requests
<1>2. AskedFor(request.copy, request.kind)
  BY DEF AskedFor, Asked
<1> QED BY <1>1, <1>2
    DEF AgreeInv, ActionInv, RequestMarked, Agreed, Agree, ServerHolds, CountShown

(* What the server does for one copy, the others fall behind on.           *)
LEMMA ServerKeepsAgreed ==
    ASSUME AgreeInv, RecordCreated \/ RecordDeleted \/ RequestFails
    PROVE  NewRecord' /\ Agreed'
<1>1. Asked
  BY NoRequestIsNone DEF RecordCreated, RecordDeleted, RequestFails, Asked, Idle
<1>2. PICK c \in Copies, k \in Kinds : c = request.copy /\ k = request.kind
  BY <1>1, RequestOnCopy
<1>3. /\ request \in Requests /\ c \in loaded
      /\ instep[c][k] => records[k] = {Told} \ {None}
      /\ request.phase = "sent" /\ request.new = None /\ Told = request.old
  BY <1>1, <1>2, RequestOnCopy DEF RecordCreated, RecordDeleted, RequestFails, Requests, Told,
     AgreeInv, NewRecord
<1>4. /\ records \in [Kinds -> SUBSET Records] /\ created \in [Kinds -> 0..MaxRecords]
      /\ instep \in [Copies -> [Kinds -> BOOLEAN]] /\ loaded \subseteq Copies
  BY DEF AgreeInv, ActionInv, TypeOK
<1>5. /\ Asked' /\ UNCHANGED <<loaded, viewer, count>>
      /\ request'.copy = c /\ request'.kind = k /\ request'.old = request.old
      /\ \A j \in Kinds : j # k => records'[j] = records[j]
      /\ instep[c][k] => records'[k] = {Told'} \ {None}
      /\ request'.new # None <=> request'.phase = "acted" /\ request'.old = None
      /\ \A d \in Copies, j \in Kinds :
            instep'[d][j] => /\ instep[d][j]
                             /\ d = c \/ j # k \/ records'[k] = records[k]
  <2>1. CASE RecordCreated
    <3>1. created[k] + 1 # None
      BY <1>4, OthersAssumption DEF None
    <3>2. request' = [request EXCEPT !.phase = "acted", !.new = created[k] + 1]
      BY <1>2, <2>1 DEF RecordCreated
    <3>3. /\ Asked' /\ request'.copy = c /\ request'.kind = k /\ request'.old = None
          /\ request'.phase = "acted" /\ request'.new = created[k] + 1
      BY <1>2, <1>3, <2>1, <3>2, NoRequestIsNone DEF RecordCreated, Requests, Asked, Idle
    <3>4. request.old = None /\ (instep[c][k] => records[k] = {})
      BY <1>3, <2>1 DEF RecordCreated
    <3>5. /\ instep[c][k] => records'[k] = {created[k] + 1}
          /\ \A j \in Kinds : j # k => records'[j] = records[j]
          /\ UNCHANGED <<loaded, viewer, count>>
      BY <1>2, <1>3, <1>4, <2>1, <3>4 DEF RecordCreated
    <3>6. Told' = created[k] + 1
      BY <3>3 DEF Told
    <3>7. \A d \in Copies, j \in Kinds : instep'[d][j] => instep[d][j] /\ (d = c \/ j # k)
      BY <1>2, <2>1 DEF RecordCreated, OthersFallBehind
    <3> QED BY <3>1, <3>3, <3>4, <3>5, <3>6, <3>7
  <2>2. CASE RecordDeleted
    <3>1. request' = [request EXCEPT !.phase = "acted"] /\ request.old # None
      BY <2>2 DEF RecordDeleted
    <3>2. /\ Asked' /\ request'.copy = c /\ request'.kind = k /\ request'.old = request.old
          /\ request'.phase = "acted" /\ request'.new = None
      BY <1>2, <1>3, <3>1, NoRequestIsNone DEF Requests, Asked, Idle
    <3>3. /\ instep[c][k] => records'[k] = {}
          /\ \A j \in Kinds : j # k => records'[j] = records[j]
          /\ UNCHANGED <<loaded, viewer, count>>
      BY <1>2, <1>3, <1>4, <2>2 DEF RecordDeleted
    <3>4. Told' = None
      BY <3>2 DEF Told
    <3>5. \A d \in Copies, j \in Kinds : instep'[d][j] => instep[d][j] /\ (d = c \/ j # k)
      BY <1>2, <2>2 DEF RecordDeleted, OthersFallBehind
    <3> QED BY <3>1, <3>2, <3>3, <3>4, <3>5
  <2>3. CASE RequestFails
    <3>1. request' = [request EXCEPT !.phase = "refused"]
      BY <2>3 DEF RequestFails
    <3>2. /\ Asked' /\ request'.copy = c /\ request'.kind = k /\ request'.old = request.old
          /\ request'.phase = "refused" /\ request'.new = None
      BY <1>2, <1>3, <3>1, NoRequestIsNone DEF Requests, Asked, Idle
    <3>3. UNCHANGED <<records, loaded, viewer, count, instep>>
      BY <2>3 DEF RequestFails, server
    <3>4. Told' = request.old
      BY <3>2 DEF Told
    <3> QED BY <1>3, <3>2, <3>3, <3>4
  <2> QED BY <2>1, <2>2, <2>3
<1>6. NewRecord'
  BY <1>5 DEF NewRecord
<1>7. ASSUME NEW d \in loaded, NEW j \in Kinds, instep'[d][j]
      PROVE  Agree(d, j)'
  <2>1. d \in Copies /\ instep[d][j] /\ (d = c \/ j # k \/ records'[k] = records[k])
    BY <1>4, <1>5, <1>7
  <2>2. Agree(d, j)
    BY <2>1 DEF AgreeInv, Agreed
  <2>3. AskedFor(d, j) <=> d = c /\ j = k
    BY <1>1, <1>2 DEF AskedFor, Asked
  <2>4. AskedFor(d, j)' <=> d = c /\ j = k
    BY <1>5 DEF AskedFor, Asked
  <2>5. count'[d][j] = CountShown(d, j)'
    BY <1>5, <2>2, <2>3, <2>4 DEF Agree, CountShown
  <2>6. records'[j] = ServerHolds(d, j)'
    <3>1. CASE d = c /\ j = k
      BY <1>5, <2>1, <2>4, <3>1 DEF ServerHolds
    <3>2. CASE ~(d = c /\ j = k)
      BY <1>5, <2>1, <2>2, <2>3, <2>4, <3>2 DEF Agree, ServerHolds
    <3> QED BY <3>1, <3>2
  <2> QED BY <2>5, <2>6 DEF Agree
<1> QED BY <1>5, <1>6, <1>7 DEF Agreed

(* The end of the handler takes the copy to what the server was asked for, *)
(* or back to where the tap found it.                                      *)
LEMMA HandlerEndKeepsAgreed ==
    ASSUME AgreeInv, Confirm \/ RollBack
    PROVE  NewRecord' /\ Agreed'
<1>1. Asked
  BY NoRequestIsNone DEF Confirm, RollBack, Asked, Idle
<1>2. PICK c \in Copies, k \in Kinds : c = request.copy /\ k = request.kind
  BY <1>1, RequestOnCopy
<1>3. /\ c \in loaded
      /\ viewer[c][k] = IF request.old = None THEN Pending ELSE None
      /\ instep[c][k] => /\ records[k] = {Told} \ {None}
                         /\ count[c][k] = Others + (IF request.old = None THEN 1 ELSE 0)
  BY <1>1, <1>2, RequestOnCopy
<1>4. /\ viewer \in [Copies -> [Kinds -> Records \cup {None, Pending}]]
      /\ count \in [Copies -> [Kinds -> Nat]]
      /\ instep \in [Copies -> [Kinds -> BOOLEAN]]
      /\ loaded \subseteq Copies
  BY DEF AgreeInv, ActionInv, TypeOK
<1>5. ~Asked' /\ UNCHANGED <<created, records, loaded>>
  BY DEF Confirm, RollBack, Asked, Idle, server
<1>6. /\ instep'[c][k] => /\ records[k] = {viewer'[c][k]} \ {None}
                          /\ count'[c][k] = Others + (IF viewer'[c][k] = None THEN 0 ELSE 1)
      /\ \A d \in Copies, j \in Kinds :
            ~(d = c /\ j = k) =>
                /\ viewer'[d][j] = viewer[d][j] /\ count'[d][j] = count[d][j]
                /\ instep'[d][j] = instep[d][j]
  <2>1. CASE Confirm
    <3>1. Told = request.new /\ (request.new # None <=> request.old = None)
      BY <1>1, <2>1 DEF Confirm, Told, AgreeInv, NewRecord
    <3>2. count' = count /\ instep' = instep
      BY <2>1 DEF Confirm
    <3>3. CASE request.old = None
      <4>1. viewer' = [viewer EXCEPT ![c][k] = request.new]
        BY <1>2, <2>1, <3>3 DEF Confirm
      <4> QED BY <1>3, <1>4, <3>1, <3>2, <3>3, <4>1
    <3>4. CASE request.old # None
      <4>1. viewer' = viewer
        BY <2>1, <3>4 DEF Confirm
      <4> QED BY <1>3, <3>1, <3>2, <3>4, <4>1
    <3> QED BY <3>3, <3>4
  <2>2. CASE RollBack
    <3>1. /\ viewer' = [viewer EXCEPT ![c][k] = request.old]
          /\ count' = [count EXCEPT ![c][k] = IF request.old = None THEN @ - 1 ELSE @ + 1]
          /\ instep' = [instep EXCEPT ![c][k] = @ /\ request.phase = "refused"]
      BY <1>2, <2>2 DEF RollBack
    <3>2. instep'[c][k] => instep[c][k] /\ Told = request.old
      BY <1>4, <3>1 DEF Told
    <3>3. viewer'[c][k] = request.old
      BY <1>4, <3>1
    <3>4. count'[c][k] = IF request.old = None THEN count[c][k] - 1 ELSE count[c][k] + 1
      BY <1>4, <3>1
    <3>5. instep[c][k] => count'[c][k] = Others + (IF request.old = None THEN 0 ELSE 1)
      BY <1>3, <3>4, OthersAssumption
    <3>6. \A d \in Copies, j \in Kinds :
            ~(d = c /\ j = k) => /\ viewer'[d][j] = viewer[d][j] /\ count'[d][j] = count[d][j]
                                 /\ instep'[d][j] = instep[d][j]
      BY <1>4, <3>1
    <3> QED BY <1>3, <3>2, <3>3, <3>5, <3>6
  <2> QED BY <2>1, <2>2
<1>7. NewRecord'
  BY <1>5 DEF NewRecord
<1>8. ASSUME NEW d \in loaded, NEW j \in Kinds, instep'[d][j]
      PROVE  Agree(d, j)'
  <2>1. ~AskedFor(d, j)' /\ d \in Copies /\ records'[j] = records[j]
    BY <1>4, <1>5 DEF AskedFor, Asked
  <2>2. CASE d = c /\ j = k
    BY <1>6, <1>8, <2>1, <2>2 DEF Agree, ServerHolds, CountShown
  <2>3. CASE ~(d = c /\ j = k)
    <3>1. ~AskedFor(d, j)
      BY <1>2, <2>3 DEF AskedFor
    <3>2. Agree(d, j)
      BY <1>6, <1>8, <2>1, <2>3 DEF AgreeInv, Agreed
    <3> QED BY <1>6, <2>1, <2>3, <3>1, <3>2 DEF Agree, ServerHolds, CountShown
  <2> QED BY <2>2, <2>3
<1> QED BY <1>5, <1>7, <1>8 DEF Agreed

LEMMA LoseKeepsAgreed ==
    ASSUME AgreeInv, NEW S, Lose(S), Idle, Idle', UNCHANGED <<server>>
    PROVE  Agreed'
<1> SUFFICES ASSUME NEW d \in loaded', NEW j \in Kinds, instep'[d][j]
             PROVE  Agree(d, j)'
  BY DEF Agreed
<1>1. Agree(d, j)
  BY DEF Lose, AgreeInv, Agreed
<1>2. ~AskedFor(d, j) /\ ~AskedFor(d, j)'
  BY DEF AskedFor, Asked
<1> QED BY <1>1, <1>2 DEF Lose, Agree, ServerHolds, CountShown, server

LEMMA AgreeInvStep == AgreeInv /\ [Next]_vars => AgreeInv'
<1> SUFFICES ASSUME AgreeInv, [Next]_vars PROVE AgreeInv'
  OBVIOUS
<1>0. ActionInv'
  BY ActionInvStep DEF AgreeInv
<1>1. CASE LoadFeed
  <2>1. Idle /\ Idle' /\ UNCHANGED <<server, request>>
    BY <1>1 DEF LoadFeed, Idle
  <2>2. Agreed'
    BY <1>1, <2>1, LoadKeepsAgreed, LoseKeepsAgreed DEF LoadFeed, Copies
  <2> QED BY <1>0, <2>1, <2>2 DEF AgreeInv, NewRecord, Asked
<1>2. CASE OpenThread
  <2>1. Idle /\ Idle' /\ UNCHANGED <<server, request>>
    BY <1>2 DEF OpenThread, Idle
  <2>2. Agreed'
    BY <1>2, <2>1, LoadKeepsAgreed, LoseKeepsAgreed DEF OpenThread, Copies
  <2> QED BY <1>0, <2>1, <2>2 DEF AgreeInv, NewRecord, Asked
<1>3. CASE BackToFeed \/ UNCHANGED vars
  <2>1. UNCHANGED <<records, loaded, viewer, count, request, instep>>
    BY <1>3 DEF BackToFeed, vars, server, Idle
  <2> QED BY <1>0, <2>1 DEF AgreeInv, NewRecord, Agreed, Agree, ServerHolds,
          CountShown, AskedFor, Asked, Told, Idle
<1>4. CASE Tap
  BY <1>0, <1>4, TapKeepsAgreed DEF Tap, AgreeInv
<1>5. CASE RecordCreated \/ RecordDeleted \/ RequestFails
  BY <1>0, <1>5, ServerKeepsAgreed DEF AgreeInv
<1>6. CASE Confirm \/ RollBack
  BY <1>0, <1>6, HandlerEndKeepsAgreed DEF AgreeInv
<1> QED BY <1>1, <1>2, <1>3, <1>4, <1>5, <1>6 DEF Next

(* Whatever is tapped, fails or gets lost, a copy that nothing happened    *)
(* behind shows what the server has: the optimistic update and its         *)
(* rollback cancel exactly, for any number of copies.                      *)
THEOREM NothingDrifts == Spec => []ShowsServerState
BY InitAgreeInv, AgreeInvShows, AgreeInvStep, PTL DEF Spec

-----------------------------------------------------------------------------
(* PostActions implements LikeButton. *)

RecordsKnown == \A k \in Kinds : records[k] \subseteq 1..created[k]

(* A tap is the server's step: what the handler leaves on the copy before  *)
(* (RequestMarked), and what it will put there after (NewRecord), map to   *)
(* the same button; the record the server creates is new (RecordsKnown).   *)
ButtonInv == AgreeInv /\ RecordsKnown

LEMMA RecordsKnownStep == ActionInv /\ RecordsKnown /\ [Next]_vars => RecordsKnown'
<1> SUFFICES ASSUME ActionInv, RecordsKnown, [Next]_vars, NEW k \in Kinds
             PROVE  records'[k] \subseteq 1..created'[k]
  BY DEF RecordsKnown
<1>1. CASE RecordCreated
  <2>1. created[k] \in Nat /\ records[k] \subseteq 1..created[k]
    BY DEF ActionInv, TypeOK, RecordsKnown
  <2>2. \/ created'[k] = created[k] + 1 /\ records'[k] = records[k] \cup {created[k] + 1}
        \/ created'[k] = created[k] /\ records'[k] = records[k]
    BY <1>1 DEF RecordCreated, ActionInv, TypeOK
  <2> QED BY <2>1, <2>2
<1>2. CASE RecordDeleted
  <2>1. created' = created /\ records'[k] \subseteq records[k]
    BY <1>2 DEF RecordDeleted, ActionInv, TypeOK
  <2> QED BY <2>1 DEF RecordsKnown
<1>3. CASE UNCHANGED server
  BY <1>3 DEF server, RecordsKnown
<1> QED BY <1>1, <1>2, <1>3
        DEF Next, LoadFeed, OpenThread, BackToFeed, Tap, TapLike, TapUnlike, RequestFails,
            Confirm, RollBack, vars, server

(* While nothing is asked a copy shows what it holds, and that is no marker.*)
ButtonIsViewer ==
    /\ ButtonShows = viewer
    /\ viewer \in [Copies -> [Kinds -> Records \cup {None}]]
    /\ Unsure = [copy |-> "none"]

LEMMA IdleButton == ActionInv /\ Idle => ButtonIsViewer
<1> SUFFICES ASSUME ActionInv, Idle PROVE ButtonIsViewer
  OBVIOUS
<1>1. viewer \in [Copies -> [Kinds -> Records \cup {None, Pending}]]
  BY DEF ActionInv, TypeOK
<1>2. \A c \in Copies, k \in Kinds : ~AskedFor(c, k) /\ viewer[c][k] # Pending
  BY DEF AskedFor, ActionInv, PendingMeansAsked
<1>3. ButtonShows = [c \in Copies |-> [k \in Kinds |-> viewer[c][k]]]
  BY <1>2, Zenon DEF ButtonShows
<1>4. \A c \in Copies : viewer[c] \in [Kinds -> Records \cup {None}]
  BY <1>1, <1>2
<1>5. Unsure = [copy |-> "none"]
  BY DEF Unsure, Idle, NoRequest
<1> QED BY <1>1, <1>3, <1>4, <1>5 DEF ButtonIsViewer

LEMMA LoadIsLook ==
    ASSUME ActionInv, ActionInv', Idle, Idle', UNCHANGED records, NEW c \in Copies, Load(c)
    PROVE  Button!Look(c)
<1>1. PICK v, n \in [Kinds -> 0..MaxRecords] :
        /\ \A k \in Kinds : v[k] \in Fetched(k) /\ n[k] \in Counted(k)
        /\ viewer' = [viewer EXCEPT ![c] = v]
        /\ count' = [count EXCEPT ![c] = [k \in Kinds |-> Others + n[k]]]
  BY DEF Load
<1>2. /\ ButtonShows = viewer /\ ButtonShows' = viewer'
      /\ Unsure = [copy |-> "none"] /\ Unsure' = [copy |-> "none"]
  <2>1. ActionInv' /\ Idle' => ButtonIsViewer'
    BY IdleButton, PTL
  <2> QED BY <2>1, IdleButton DEF ButtonIsViewer
<1>3. \A k \in Kinds : v[k] \in (IF records[k] = {} THEN {None} ELSE records[k])
  BY <1>1 DEF Fetched
<1>4. v \in [Kinds -> Records \cup {None}]
  BY <1>1 DEF Records, None
<1>5. /\ count \in [Copies -> [Kinds -> Nat]] /\ count' \in [Copies -> [Kinds -> Nat]]
      /\ viewer \in [Copies -> [Kinds -> Records \cup {None, Pending}]]
  BY DEF ActionInv, TypeOK
<1>6. \A d \in Copies : d # c => viewer'[d] = viewer[d] /\ count'[d] = count[d]
  BY <1>1, <1>5
<1>7. OthersShown'[c] \in [Kinds -> Nat]
  <2>1. \A k \in Kinds : viewer'[c][k] # None => count'[c][k] >= 1
    BY DEF ActionInv, LikedIsCounted, Load
  <2>2. \A k \in Kinds : count'[c][k] \in Nat
    BY <1>5
  <2>3. \A k \in Kinds : (IF viewer'[c][k] = None THEN count'[c][k] ELSE count'[c][k] - 1) \in Nat
    BY <2>1, <2>2
  <2> QED BY <2>3 DEF OthersShown
<1>8. OthersShown' = [OthersShown EXCEPT ![c] = OthersShown'[c]]
  BY <1>6 DEF OthersShown
<1>9. loaded' = loaded \cup {c}
  BY DEF Load
<1> QED BY <1>1, <1>2, <1>3, <1>4, <1>7, <1>8, <1>9 DEF Button!Look, Button!Settled

LEMMA LoseIsForget ==
    ASSUME ActionInv, Idle, Idle', UNCHANGED records, NEW copies \in SUBSET Copies, Lose(copies)
    PROVE  Button!Forget(copies)
BY DEF Lose, Button!Forget, Button!Settled, ButtonShows, OthersShown, Unsure, AskedFor, Idle, NoRequest

LEMMA ChangedAt ==
    ASSUME NEW F, F = [d \in Copies |-> [j \in Kinds |-> F[d][j]]],
           NEW G, G = [d \in Copies |-> [j \in Kinds |-> G[d][j]]],
           NEW c \in Copies, NEW k \in Kinds, NEW x,
           \A d \in Copies, j \in Kinds : G[d][j] = IF d = c /\ j = k THEN x ELSE F[d][j]
    PROVE  G = [F EXCEPT ![c][k] = x]
<1>1. ASSUME NEW d \in Copies, d # c PROVE G[d] = F[d]
  BY <1>1
<1>2. G[c] = [F[c] EXCEPT ![k] = x]
  OBVIOUS
<1> QED BY <1>1, <1>2

LEMMA ButtonIsFunction ==
    /\ ButtonShows = [d \in Copies |-> [j \in Kinds |-> ButtonShows[d][j]]]
    /\ ButtonShows' = [d \in Copies |-> [j \in Kinds |-> ButtonShows'[d][j]]]
BY DEF ButtonShows

(* The request reaches the server: the button is tapped.                   *)
LEMMA CreateIsLike ==
    ASSUME ActionInv, NewRecord, RecordsKnown, RecordCreated
    PROVE  Button!Like(request.copy, request.kind)
<1> DEFINE c == request.copy
           k == request.kind
           r == created[k] + 1
<1>1. /\ request \in Requests /\ request.phase = "sent" /\ request.old = None
      /\ c \in loaded /\ c \in Copies /\ k \in Kinds /\ ~Idle
  BY NoRequestIsNone
     DEF RecordCreated, ActionInv, TypeOK, RequestMarked, Asked, Idle, Requests
<1>2. /\ request' = [request EXCEPT !.phase = "acted", !.new = r]
      /\ records' = [records EXCEPT ![k] = @ \cup {r}]
      /\ created[k] < MaxRecords
      /\ UNCHANGED <<loaded, viewer, count>>
  BY DEF RecordCreated
<1>3. r \in Records \ records[k]
  <2>1. created[k] \in Nat /\ records[k] \subseteq 1..created[k]
    BY <1>1 DEF ActionInv, TypeOK, RecordsKnown
  <2> QED BY <1>2, <2>1, OthersAssumption DEF Records
<1>4. request'.phase = "acted" /\ request'.new = r /\ request'.copy = c /\ request'.kind = k
      /\ request'.old = None /\ ~Idle'
  BY <1>1, <1>2, NoRequestIsNone DEF Requests, Idle
<1>5. ButtonShows[c][k] = None
  BY <1>1 DEF ButtonShows, AskedFor, Told
<1>6. \A d \in Copies, j \in Kinds :
        ButtonShows'[d][j] = IF d = c /\ j = k THEN r ELSE ButtonShows[d][j]
  BY <1>1, <1>2, <1>4 DEF ButtonShows, AskedFor, Told
<1>7. ButtonShows' = [ButtonShows EXCEPT ![c][k] = r]
  <2> HIDE DEF c, k, r
  <2>1. c \in Copies /\ k \in Kinds
    BY <1>1
  <2> QED BY <1>6, <2>1, ChangedAt, ButtonIsFunction
<1>8. Unsure = [copy |-> "none"] /\ Unsure' = [copy |-> c, kind |-> k, old |-> ButtonShows[c][k]]
  BY <1>1, <1>4, <1>5 DEF Unsure
<1>9. OthersShown' = OthersShown
  BY <1>2 DEF OthersShown
<1> QED BY <1>1, <1>2, <1>3, <1>5, <1>7, <1>8, <1>9
        DEF Button!Like, Button!Changes, Button!Settled

LEMMA DeleteIsUnlike ==
    ASSUME ActionInv, NewRecord, RecordDeleted
    PROVE  Button!Unlike(request.copy, request.kind)
<1> DEFINE c == request.copy
           k == request.kind
<1>1. /\ request \in Requests /\ request.phase = "sent" /\ request.old # None
      /\ c \in loaded /\ c \in Copies /\ k \in Kinds /\ ~Idle
  BY NoRequestIsNone
     DEF RecordDeleted, ActionInv, TypeOK, RequestMarked, Asked, Idle, Requests
<1>2. /\ request' = [request EXCEPT !.phase = "acted"]
      /\ records' = [records EXCEPT ![k] = @ \ {request.old}]
      /\ UNCHANGED <<loaded, viewer, count>>
  BY DEF RecordDeleted
<1>3. request'.phase = "acted" /\ request'.new = None /\ request'.copy = c /\ request'.kind = k
      /\ request'.old = request.old /\ ~Idle'
  BY <1>1, <1>2, NoRequestIsNone DEF Requests, Idle, NewRecord, Asked
<1>4. ButtonShows[c][k] = request.old
  BY <1>1 DEF ButtonShows, AskedFor, Told
<1>5. \A d \in Copies, j \in Kinds :
        ButtonShows'[d][j] = IF d = c /\ j = k THEN None ELSE ButtonShows[d][j]
  BY <1>1, <1>2, <1>3 DEF ButtonShows, AskedFor, Told
<1>6. ButtonShows' = [ButtonShows EXCEPT ![c][k] = None]
  <2> HIDE DEF c, k
  <2>1. c \in Copies /\ k \in Kinds
    BY <1>1
  <2> QED BY <1>5, <2>1, ChangedAt, ButtonIsFunction
<1>7. Unsure = [copy |-> "none"] /\ Unsure' = [copy |-> c, kind |-> k, old |-> ButtonShows[c][k]]
  BY <1>1, <1>3, <1>4 DEF Unsure
<1>8. OthersShown' = OthersShown
  BY <1>2 DEF OthersShown
<1> QED BY <1>1, <1>2, <1>4, <1>6, <1>7, <1>8 DEF Button!Unlike, Button!Changes, Button!Settled

LEMMA TapStutters ==
    ASSUME ActionInv, NEW c \in Copies, NEW k \in Kinds, TapLike(c, k) \/ TapUnlike(c, k)
    PROVE  UNCHANGED Button!vars
<1>1. /\ Idle /\ ~Idle' /\ UNCHANGED <<records, loaded>>
      /\ request' = [phase |-> "sent", copy |-> c, kind |-> k, old |-> viewer[c][k], new |-> None]
      /\ c \in loaded
  BY NoRequestIsNone DEF TapLike, TapUnlike, Idle, NoRequest, server, OnScreen
<1>2. /\ viewer \in [Copies -> [Kinds -> Records \cup {None, Pending}]]
      /\ count \in [Copies -> [Kinds -> Nat]]
  BY DEF ActionInv, TypeOK
<1>3. Unsure = [copy |-> "none"] /\ Unsure' = [copy |-> "none"]
  BY <1>1 DEF Unsure, Idle, NoRequest
<1>4. ASSUME NEW d \in Copies, NEW j \in Kinds
      PROVE  /\ (IF AskedFor(d, j) THEN Told ELSE viewer[d][j])
                    = (IF AskedFor(d, j)' THEN Told' ELSE viewer'[d][j])
             /\ (IF viewer[d][j] = None THEN count[d][j] ELSE count[d][j] - 1)
                    = (IF viewer'[d][j] = None THEN count'[d][j] ELSE count'[d][j] - 1)
  <2>1. ~AskedFor(d, j) /\ (AskedFor(d, j)' <=> d = c /\ j = k) /\ Told' = viewer[c][k]
    BY <1>1 DEF AskedFor, Told
  <2>2. CASE d = c /\ j = k
    <3>1. CASE TapLike(c, k)
      <4>1. /\ viewer[c][k] = None /\ viewer'[c][k] = Pending /\ Pending # None
            /\ count[c][k] \in Nat /\ count'[c][k] = count[c][k] + 1
        BY <1>2, <3>1 DEF TapLike, Pending, None
      <4> QED BY <2>1, <2>2, <4>1
    <3>2. CASE TapUnlike(c, k)
      <4>1. viewer[c][k] # None /\ count[c][k] \in Nat /\ count[c][k] >= 1
        BY <1>1, <1>2, <3>2 DEF TapUnlike, ActionInv, LikedIsCounted
      <4>2. viewer'[c][k] = None /\ count'[c][k] = count[c][k] - 1
        BY <1>2, <3>2, <4>1 DEF TapUnlike
      <4> QED BY <2>1, <2>2, <4>1, <4>2
    <3> QED BY <3>1, <3>2
  <2>3. CASE ~(d = c /\ j = k)
    <3>1. viewer'[d][j] = viewer[d][j] /\ count'[d][j] = count[d][j]
      BY <1>2, <2>3 DEF TapLike, TapUnlike
    <3> QED BY <2>1, <2>3, <3>1
  <2> QED BY <2>2, <2>3
<1>5. ButtonShows' = ButtonShows /\ OthersShown' = OthersShown
  BY <1>4 DEF ButtonShows, OthersShown
<1> QED BY <1>1, <1>3, <1>5 DEF Button!vars

(* The end of the handler leaves the button as it is, or, when the server  *)
(* had acted and the answer was lost, takes it back.                       *)
LEMMA HandlerEnds ==
    ASSUME ActionInv, NewRecord, Confirm \/ RollBack
    PROVE  Button!Settle \/ Button!TakeBack \/ UNCHANGED Button!vars
<1> DEFINE c == request.copy
           k == request.kind
           shown == IF Confirm THEN Told ELSE request.old
<1>1. /\ ~Idle /\ Idle' /\ request \in Requests /\ c \in loaded /\ c \in Copies /\ k \in Kinds
      /\ UNCHANGED <<records, loaded>>
  BY NoRequestIsNone
     DEF Confirm, RollBack, ActionInv, TypeOK, RequestMarked, Asked, Idle, Requests, server, NoRequest
<1>2. /\ viewer \in [Copies -> [Kinds -> Records \cup {None, Pending}]]
      /\ count \in [Copies -> [Kinds -> Nat]]
      /\ viewer[c][k] = IF request.old = None THEN Pending ELSE None
  BY <1>1 DEF ActionInv, TypeOK, RequestMarked, Asked
<1>3. Told \in Records \cup {None} /\ (request.old # None /\ request.phase = "acted" => Told = None)
  BY <1>1 DEF Told, NewRecord, Asked, Requests
<1>4. ASSUME NEW d \in Copies, NEW j \in Kinds
      PROVE  /\ viewer'[d][j] = IF d = c /\ j = k THEN shown ELSE viewer[d][j]
             /\ ~(d = c /\ j = k) => count'[d][j] = count[d][j]
  <2>1. CASE Confirm
    BY <1>1, <1>2, <1>3, <2>1 DEF Confirm, Told
  <2>2. CASE ~Confirm /\ RollBack
    BY <1>1, <1>2, <2>2 DEF RollBack
  <2> QED BY <2>1, <2>2
<1>5. (IF viewer[c][k] = None THEN count[c][k] ELSE count[c][k] - 1)
        = (IF viewer'[c][k] = None THEN count'[c][k] ELSE count'[c][k] - 1)
  <2>0. count[c][k] \in Nat
    BY <1>1, <1>2
  <2>1. CASE Confirm
    <3>1. count' = count /\ viewer'[c][k] = Told
      BY <1>1, <1>4, <2>1 DEF Confirm
    <3>2. Told = None <=> viewer[c][k] = None
      BY <1>1, <1>2, <2>1 DEF Confirm, Told, NewRecord, Asked, Pending, None
    <3> QED BY <3>1, <3>2
  <2>2. CASE ~Confirm /\ RollBack
    <3>1. viewer'[c][k] = request.old
      BY <1>1, <1>4, <2>2
    <3>2. count'[c][k] = IF request.old = None THEN count[c][k] - 1 ELSE count[c][k] + 1
      BY <1>1, <1>2, <2>2 DEF RollBack
    <3> QED BY <1>2, <2>0, <3>1, <3>2 DEF Pending, None
  <2> QED BY <2>1, <2>2
<1>6. OthersShown' = OthersShown
  BY <1>4, <1>5 DEF OthersShown
<1>7. Unsure' = [copy |-> "none"]
  BY <1>1 DEF Unsure, Idle, NoRequest
<1>8. \A d \in Copies, j \in Kinds :
        /\ ButtonShows[d][j] = IF d = c /\ j = k THEN Told ELSE viewer[d][j]
        /\ ButtonShows'[d][j] = IF d = c /\ j = k THEN shown ELSE viewer[d][j]
  BY <1>1, <1>4 DEF ButtonShows, AskedFor
<1>9. CASE shown = Told
  <2>1. ButtonShows' = ButtonShows
    <3>1. \A d \in Copies, j \in Kinds : ButtonShows'[d][j] = ButtonShows[d][j]
      BY <1>8, <1>9
    <3>2. [d \in Copies |-> [j \in Kinds |-> ButtonShows'[d][j]]]
            = [d \in Copies |-> [j \in Kinds |-> ButtonShows[d][j]]]
      BY <3>1
    <3> QED BY <3>2, ButtonIsFunction
  <2>2. CASE Unsure = [copy |-> "none"]
    BY <1>1, <1>6, <1>7, <2>1, <2>2 DEF Button!vars
  <2>3. CASE Unsure # [copy |-> "none"]
    BY <1>1, <1>6, <1>7, <2>1, <2>3 DEF Button!Settle, Button!Settled
  <2> QED BY <2>2, <2>3
<1>10. CASE shown # Told
  <2>1. request.phase = "acted" /\ shown = request.old
    BY <1>1, <1>10 DEF Told, Requests
  <2>2. Unsure = [copy |-> c, kind |-> k, old |-> request.old]
    BY <2>1 DEF Unsure
  <2>3. Unsure # [copy |-> "none"]
    <3>1. "kind" \in DOMAIN Unsure /\ "kind" \notin DOMAIN [copy |-> "none"]
      BY <2>2
    <3> QED BY <3>1
  <2>4. ButtonShows' = [ButtonShows EXCEPT ![c][k] = request.old]
    <3>1. \A d \in Copies, j \in Kinds :
            ButtonShows'[d][j] = IF d = c /\ j = k THEN request.old ELSE ButtonShows[d][j]
      BY <1>8, <2>1
    <3> HIDE DEF c, k
    <3>2. c \in Copies /\ k \in Kinds
      BY <1>1
    <3> QED BY <3>1, <3>2, ChangedAt, ButtonIsFunction
  <2> QED BY <1>1, <1>6, <1>7, <2>2, <2>3, <2>4 DEF Button!TakeBack, Button!Settled
<1> QED BY <1>9, <1>10

LEMMA InitIsButtonInit == Init => Button!Init /\ ButtonInv
<1> SUFFICES ASSUME Init PROVE Button!Init /\ ButtonInv
  OBVIOUS
<1>1. ButtonIsViewer /\ AgreeInv
  BY IdleButton, InitActionInv, InitAgreeInv DEF Init, Idle
<1>2. ButtonShows = [c \in Copies |-> [k \in Kinds |-> None]] /\ Unsure = [copy |-> "none"]
  BY <1>1 DEF ButtonIsViewer, Init
<1>3. ButtonShows \in [Copies -> [Kinds -> {None}]]
  BY <1>2
<1>4. OthersShown \in [Copies -> [Kinds -> Nat]]
  BY OthersAssumption DEF Init, OthersShown
<1>5. records \in [Kinds -> SUBSET Records] /\ RecordsKnown /\ loaded = {}
  BY DEF Init, RecordsKnown, Records
<1> QED BY <1>1, <1>2, <1>3, <1>4, <1>5 DEF Button!Init, Button!Settled, ButtonInv

LEMMA StepIsButtonStep == ButtonInv /\ ActionInv' /\ [Next]_vars => [Button!Next]_(Button!vars)
<1> SUFFICES ASSUME ButtonInv, ActionInv', [Next]_vars
             PROVE  Button!Next \/ UNCHANGED Button!vars
  OBVIOUS
<1> USE DEF ButtonInv, AgreeInv
<1>1. CASE LoadFeed
  <2>1. Idle /\ Idle' /\ UNCHANGED records
    BY <1>1 DEF LoadFeed, Idle, server
  <2>2. PICK c \in FeedCopies : Load(c) \/ Lose({c})
    BY <1>1 DEF LoadFeed
  <2>3. c \in Copies /\ {c} \in SUBSET Copies
    BY DEF Copies
  <2>4. Button!Look(c) \/ Button!Forget({c})
    BY <2>1, <2>2, <2>3, LoadIsLook, LoseIsForget
  <2> QED BY <2>3, <2>4 DEF Button!Next
<1>2. CASE OpenThread
  <2>1. Idle /\ Idle' /\ UNCHANGED records
    BY <1>2 DEF OpenThread, Idle, server
  <2>2. CASE Lose(ThreadCopies)
    <3>1. ThreadCopies \in SUBSET Copies
      BY DEF Copies
    <3>2. Button!Forget(ThreadCopies)
      BY <2>1, <2>2, <3>1, LoseIsForget
    <3> QED BY <3>1, <3>2 DEF Button!Next
  <2>3. CASE \E c \in ThreadCopies : Load(c)
    <3>1. PICK c \in ThreadCopies : Load(c)
      BY <2>3
    <3>2. c \in Copies
      BY DEF Copies
    <3>3. Button!Look(c)
      BY <2>1, <3>1, <3>2, LoadIsLook
    <3> QED BY <3>2, <3>3 DEF Button!Next
  <2> QED BY <1>2, <2>2, <2>3 DEF OpenThread
<1>3. CASE BackToFeed \/ UNCHANGED vars
  BY <1>3 DEF BackToFeed, vars, server, Button!vars, ButtonShows, OthersShown, Unsure,
              AskedFor, Told, Idle
<1>4. CASE Tap
  BY <1>4, TapStutters DEF Tap
<1>5. CASE RecordCreated
  <2>1. request \in Requests
    BY <1>5, NoRequestIsNone DEF RecordCreated, ActionInv, TypeOK
  <2>2. Button!Like(request.copy, request.kind)
    BY <1>5, CreateIsLike
  <2> QED BY <2>1, <2>2 DEF Button!Next, Requests
<1>6. CASE RecordDeleted
  <2>1. request \in Requests
    BY <1>6, NoRequestIsNone DEF RecordDeleted, ActionInv, TypeOK
  <2>2. Button!Unlike(request.copy, request.kind)
    BY <1>6, DeleteIsUnlike
  <2> QED BY <2>1, <2>2 DEF Button!Next, Requests
<1>7. CASE RequestFails
  <2>1. request \in Requests /\ ~Idle
    BY <1>7, NoRequestIsNone DEF RequestFails, ActionInv, TypeOK, Idle
  <2>2. /\ request.phase = "sent" /\ request'.phase = "refused" /\ ~Idle'
        /\ request'.copy = request.copy /\ request'.kind = request.kind
        /\ request'.old = request.old
        /\ UNCHANGED <<records, loaded, viewer, count>>
    BY <1>7, <2>1, NoRequestIsNone DEF RequestFails, Requests, Idle, server
  <2> QED BY <2>1, <2>2 DEF Button!vars, ButtonShows, OthersShown, Unsure, AskedFor, Told
<1>8. CASE Confirm \/ RollBack
  BY <1>8, HandlerEnds DEF Button!Next
<1> QED BY <1>1, <1>2, <1>3, <1>4, <1>5, <1>6, <1>7, <1>8 DEF Next

(* Every tap, with all that can go wrong with its request, is one step of  *)
(* the button LikeButton describes, or none, for any number of copies.     *)
THEOREM TapsAreAtomic == Spec => ImplementsButton
<1>1. ButtonInv /\ [Next]_vars => ButtonInv'
  BY AgreeInvStep, RecordsKnownStep DEF ButtonInv, AgreeInv
<1>2. Spec => []ButtonInv
  BY <1>1, InitIsButtonInit, PTL DEF Spec
<1>3. ButtonInv => ActionInv
  BY DEF ButtonInv, AgreeInv
<1> QED BY <1>2, <1>3, InitIsButtonInit, StepIsButtonStep, PTL DEF Spec, Button!Spec, ImplementsButton
=============================================================================
