--------------------------- MODULE FeedReader_proofs ---------------------------
(***************************************************************************)
(* Proofs about FeedReader, for any feeds, batches, and screens.           *)
(*                                                                         *)
(* The pages are proved about without regard to what the batches hold: a   *)
(* page starts where the pages before it ended (Trail, ReadSoFar), the     *)
(* list only grows at its end or is replaced together with everything that *)
(* holds indices into it, and every way into the feed view draws it        *)
(* (OnScreen).                                                             *)
(***************************************************************************)
EXTENDS FeedReader, SequenceTheorems, FiniteSetTheorems, TLAPS

Indices(list) == 0..(Len(list) - 1)

Modes ==
    /\ auth \in BOOLEAN /\ view \in Views /\ return_view \in {"feed", "thread"}
    /\ source \in Sources /\ feeds \subseteq Sources

List ==
    /\ items \in Seq(Posts)
    /\ cursor \in Cursors
    /\ cursor # NoCursor => cursor.pos <= Len(Feeds[cursor.src])
    /\ listed \in Sources \cup {NoSource}
    /\ page_start \in 0..Len(items)

Page ==
    /\ page_count \in 0..MaxFit
    /\ hits \subseteq Indices(items) /\ seen \subseteq Indices(items)

\* Where Previous leads: from any page, page by page, to the first.
Trail ==
    /\ page_history \in Seq(0..Len(items))
    /\ page_history = <<>> => page_start = 0
    /\ page_history # <<>> =>
         /\ page_history[1] = 0
         /\ page_history[Len(page_history)] <= page_start
    /\ \A i \in 1..(Len(page_history) - 1) : page_history[i] <= page_history[i + 1]

\* All that lies before the page was shown, whatever the view.
ReadSoFar == 0..(page_start - 1) \subseteq seen

\* The dashboard is not left for a feed that is not drawn.
NothingHeld == view = "dashboard" => hits = {} /\ seen = {}

\* What a drawing of the feed leaves.
Drawn ==
    /\ page_start + page_count <= Len(items)
    /\ hits = page_start..(page_start + page_count - 1)
    /\ hits \subseteq seen
    /\ DOMAIN shown = hits
    /\ \A i \in hits : shown[i] = items[i + 1]

OnScreen == view = "feed" => Drawn

Inv == Modes /\ List /\ Page /\ Trail /\ ReadSoFar /\ NothingHeld /\ OnScreen

-----------------------------------------------------------------------------
(* What is fetched. *)

LEMMA MinOfTwo ==
    ASSUME NEW a \in Int, NEW b \in Int
    PROVE  /\ Min({a, b}) \in Int
           /\ Min({a, b}) = a \/ Min({a, b}) = b
           /\ Min({a, b}) <= a /\ Min({a, b}) <= b
<1>1. \E x \in {a, b} : \A y \in {a, b} : x <= y
    <2>1. CASE a <= b
        BY <2>1
    <2>2. CASE ~(a <= b)
        BY <2>2
    <2> QED BY <2>1, <2>2
<1> QED BY <1>1 DEF Min

LEMMA FeedLength == ASSUME NEW s \in Sources PROVE Len(Feeds[s]) \in Nat
BY SourcesAssumption

(* What the filter leaves, in order. *)

UpTo(K, n) == {m \in K : m <= n}

(* A finite set of places can be counted: its k-th member exists, and is   *)
(* the only one with k members up to it.                                   *)
LEMMA MembersAreCounted ==
    ASSUME NEW K \in SUBSET Int, IsFiniteSet(K)
    PROVE  /\ Cardinality(K) \in Nat
           /\ \A n \in K : Cardinality(UpTo(K, n)) \in 1..Cardinality(K)
           /\ \A m, n \in K : Cardinality(UpTo(K, m)) = Cardinality(UpTo(K, n)) => m = n
           /\ \A k \in 1..Cardinality(K) :
                /\ Ranked(K, k) \in K
                /\ Cardinality(UpTo(K, Ranked(K, k))) = k
<1> DEFINE c == Cardinality(K)
           rank == [n \in K |-> Cardinality(UpTo(K, n))]
<1>1. c \in Nat
    BY FS_CardinalityType
<1>2. \A n \in K : IsFiniteSet(UpTo(K, n)) /\ Cardinality(UpTo(K, n)) \in 1..c
    <2> SUFFICES ASSUME NEW n \in K
                 PROVE  IsFiniteSet(UpTo(K, n)) /\ Cardinality(UpTo(K, n)) \in 1..c
        OBVIOUS
    <2>1. UpTo(K, n) \in SUBSET K /\ n \in UpTo(K, n)
        BY DEF UpTo
    <2>2. IsFiniteSet(UpTo(K, n)) /\ Cardinality(UpTo(K, n)) <= c /\ Cardinality(UpTo(K, n)) \in Nat
        BY <2>1, FS_Subset, FS_CardinalityType
    <2>3. Cardinality(UpTo(K, n)) # 0
        BY <2>1, <2>2, FS_EmptySet
    <2> QED BY <1>1, <2>2, <2>3
<1>3. ASSUME NEW m \in K, NEW n \in K, m < n
      PROVE  Cardinality(UpTo(K, m)) # Cardinality(UpTo(K, n))
    <2>1. UpTo(K, m) \in SUBSET UpTo(K, n) /\ n \in UpTo(K, n) /\ n \notin UpTo(K, m)
        <3>1. m \in Int /\ n \in Int /\ \A x \in K : x \in Int
            OBVIOUS
        <3>2. \A x \in K : x <= m => x <= n
            BY <1>3, <3>1
        <3>3. n <= n /\ ~(n <= m)
            BY <1>3, <3>1
        <3> QED BY <3>2, <3>3 DEF UpTo
    <2> QED BY <1>2, <2>1, FS_Subset
<1>4. \A m, n \in K : Cardinality(UpTo(K, m)) = Cardinality(UpTo(K, n)) => m = n
    <2> SUFFICES ASSUME NEW m \in K, NEW n \in K, m # n
                 PROVE  Cardinality(UpTo(K, m)) # Cardinality(UpTo(K, n))
        OBVIOUS
    <2>1. m < n \/ n < m
        OBVIOUS
    <2> QED BY <1>3, <2>1
<1>5. rank \in Injection(K, 1..c)
    <2>1. rank \in [K -> 1..c]
        BY <1>2
    <2>2. IsInjective(rank)
        BY <1>4 DEF IsInjective
    <2> QED BY <2>1, <2>2 DEF Injection
<1>6. IsFiniteSet(1..c) /\ Cardinality(1..c) = c
    BY <1>1, FS_Interval
<1> HIDE DEF rank
<1>7. rank \in Surjection(K, 1..c)
    BY <1>5, <1>6, FS_Injection
<1>8. \A k \in 1..c : \E n \in K : Cardinality(UpTo(K, n)) = k
    <2>1. \A k \in 1..c : \E n \in K : rank[n] = k
        BY <1>7 DEF Surjection
    <2> QED BY <2>1 DEF rank
<1>9. \A k \in 1..c : Ranked(K, k) \in K /\ Cardinality(UpTo(K, Ranked(K, k))) = k
    BY <1>8 DEF Ranked, UpTo
<1> QED BY <1>1, <1>2, <1>4, <1>9

LEMMA IncludedCounted ==
    ASSUME NEW s \in Sources, NEW first \in Nat, NEW last \in Nat
    PROVE  /\ Included(s, first, last) \in SUBSET Nat
           /\ Included(s, first, last) \in SUBSET Int
           /\ IsFiniteSet(Included(s, first, last))
<1>1. Included(s, first, last) \in SUBSET ((first + 1)..last)
    BY DEF Included
<1>2. IsFiniteSet((first + 1)..last)
    BY FS_Interval
<1>3. IsFiniteSet(Included(s, first, last))
    BY <1>1, <1>2, FS_Subset
<1>4. (first + 1)..last \subseteq Nat
    OBVIOUS
<1> QED BY <1>1, <1>3, <1>4

LEMMA BatchIsPosts ==
    ASSUME NEW s \in Sources, NEW first \in Nat, NEW last \in Nat
    PROVE  /\ Batch(s, first, last) \in Seq(Posts)
           /\ Len(Batch(s, first, last)) = Cardinality(Included(s, first, last))
           /\ \A k \in 1..Cardinality(Included(s, first, last)) :
                Batch(s, first, last)[k] = [src |-> s, n |-> Ranked(Included(s, first, last), k)]
<1> DEFINE K == Included(s, first, last)
           c == Cardinality(K)
<1>1. K \in SUBSET Nat /\ K \in SUBSET Int /\ IsFiniteSet(K)
    BY IncludedCounted
<1>2. Batch(s, first, last) = [k \in 1..c |-> [src |-> s, n |-> Ranked(K, k)]]
    BY DEF Batch
<1> HIDE DEF K
<1>3. c \in Nat /\ \A k \in 1..c : Ranked(K, k) \in K
    BY <1>1, MembersAreCounted
<1>4. \A k \in 1..c : [src |-> s, n |-> Ranked(K, k)] \in Posts
    BY <1>1, <1>3 DEF Posts
<1> HIDE DEF c
<1>5. Batch(s, first, last) \in [1..c -> Posts]
    BY <1>2, <1>4
<1>6. Batch(s, first, last) \in Seq(Posts) /\ Len(Batch(s, first, last)) = c
    BY <1>3, <1>5
<1> QED BY <1>2, <1>6 DEF K, c

(* What is fetched after the first posts is what follows them: filtering   *)
(* batch by batch is filtering the whole.                                  *)
LEMMA BatchesAdjoin ==
    ASSUME NEW s \in Sources, NEW a \in Nat, NEW b \in Nat, a <= b
    PROVE  Batch(s, 0, a) \o Batch(s, a, b) = Batch(s, 0, b)
<1> DEFINE K1 == Included(s, 0, a)
           K2 == Included(s, a, b)
           K == Included(s, 0, b)
           c1 == Cardinality(K1)
           c2 == Cardinality(K2)
<1>1. /\ K1 \in SUBSET Int /\ IsFiniteSet(K1)
      /\ K2 \in SUBSET Int /\ IsFiniteSet(K2)
      /\ K \in SUBSET Int /\ IsFiniteSet(K)
    BY IncludedCounted
<1>2. K = K1 \cup K2 /\ K1 \cap K2 = {} /\ \A m \in K1, n \in K2 : m < n
    BY DEF Included
<1>3. /\ Batch(s, 0, a) \in Seq(Posts) /\ Len(Batch(s, 0, a)) = c1
      /\ \A k \in 1..c1 : Batch(s, 0, a)[k] = [src |-> s, n |-> Ranked(K1, k)]
    BY BatchIsPosts
<1>a. /\ Batch(s, a, b) \in Seq(Posts) /\ Len(Batch(s, a, b)) = c2
      /\ \A k \in 1..c2 : Batch(s, a, b)[k] = [src |-> s, n |-> Ranked(K2, k)]
    BY BatchIsPosts
<1>b. /\ Batch(s, 0, b) \in Seq(Posts) /\ Len(Batch(s, 0, b)) = Cardinality(K)
      /\ \A k \in 1..Cardinality(K) : Batch(s, 0, b)[k] = [src |-> s, n |-> Ranked(K, k)]
    BY BatchIsPosts
<1> HIDE DEF K1, K2, K
<1>c. /\ \A m \in K1 : m \in Int /\ \A n \in K2 : n \in Int /\ m < n
      /\ \A p, q \in K : Cardinality(UpTo(K, p)) = Cardinality(UpTo(K, q)) => p = q
    BY <1>1, <1>2, MembersAreCounted
<1>4. c1 \in Nat /\ c2 \in Nat /\ Cardinality(K) = c1 + c2
    <2>1. Cardinality(K1 \cap K2) = 0
        BY <1>2, FS_EmptySet
    <2>2. c1 \in Nat /\ c2 \in Nat
        BY <1>1, FS_CardinalityType
    <2>3. Cardinality(K) = c1 + c2 - Cardinality(K1 \cap K2)
        BY <1>1, <1>2, FS_Union
    <2> QED BY <2>1, <2>2, <2>3
<1>5. ASSUME NEW k \in 1..c1
      PROVE  Ranked(K, k) = Ranked(K1, k)
    <2> DEFINE n == Ranked(K1, k)
    <2>1. n \in K1 /\ Cardinality(UpTo(K1, n)) = k
        BY <1>1, MembersAreCounted
    <2> HIDE DEF n
    <2>2. UpTo(K, n) = UpTo(K1, n)
        <3>1. \A m \in K2 : ~(m <= n)
            BY <1>c, <2>1
        <3> QED BY <1>2, <3>1 DEF UpTo
    <2>3. k \in 1..Cardinality(K)
        BY <1>4
    <2>4. Ranked(K, k) \in K /\ Cardinality(UpTo(K, Ranked(K, k))) = k
        BY <1>1, <2>3, MembersAreCounted
    <2>5. Ranked(K, k) = n
        BY <1>2, <1>c, <2>1, <2>2, <2>4
    <2> QED BY <2>5 DEF n
<1>6. ASSUME NEW k \in 1..c2
      PROVE  Ranked(K, c1 + k) = Ranked(K2, k)
    <2> DEFINE n == Ranked(K2, k)
    <2>1. n \in K2 /\ Cardinality(UpTo(K2, n)) = k
        BY <1>1, MembersAreCounted
    <2> HIDE DEF n
    <2>2. UpTo(K, n) = K1 \cup UpTo(K2, n) /\ K1 \cap UpTo(K2, n) = {}
        <3>1. \A m \in K1 : m <= n
            BY <1>c, <2>1
        <3> QED BY <1>2, <3>1 DEF UpTo
    <2>3. IsFiniteSet(UpTo(K2, n))
        <3>1. UpTo(K2, n) \in SUBSET K2
            BY DEF UpTo
        <3> QED BY <1>1, <3>1, FS_Subset
    <2>4. Cardinality(UpTo(K, n)) = c1 + k
        <3>1. Cardinality(K1 \cap UpTo(K2, n)) = 0
            BY <2>2, FS_EmptySet
        <3>2. Cardinality(UpTo(K, n)) = c1 + k - Cardinality(K1 \cap UpTo(K2, n))
            BY <1>1, <2>1, <2>2, <2>3, FS_Union
        <3> QED BY <1>4, <3>1, <3>2
    <2>5. c1 + k \in 1..Cardinality(K)
        BY <1>4
    <2>6. Ranked(K, c1 + k) \in K /\ Cardinality(UpTo(K, Ranked(K, c1 + k))) = c1 + k
        BY <1>1, <2>5, MembersAreCounted
    <2>7. Ranked(K, c1 + k) = n
        BY <1>2, <1>c, <2>1, <2>4, <2>6
    <2> QED BY <2>7 DEF n
<1> DEFINE both == Batch(s, 0, a) \o Batch(s, a, b)
<1>7. /\ both \in Seq(Posts) /\ Len(both) = c1 + c2
      /\ \A k \in 1..(c1 + c2) :
            both[k] = IF k <= c1 THEN Batch(s, 0, a)[k] ELSE Batch(s, a, b)[k - c1]
    <2> DEFINE p == Batch(s, 0, a)
               q == Batch(s, a, b)
    <2>1. p \in Seq(Posts) /\ q \in Seq(Posts) /\ Len(p) = c1 /\ Len(q) = c2
        BY <1>3, <1>a
    <2> HIDE DEF p, q, c1, c2
    <2>2. /\ p \o q \in Seq(Posts) /\ Len(p \o q) = Len(p) + Len(q)
          /\ \A k \in 1..(Len(p) + Len(q)) :
                (p \o q)[k] = IF k <= Len(p) THEN p[k] ELSE q[k - Len(p)]
        BY <2>1, ConcatProperties
    <2> QED BY <2>1, <2>2 DEF p, q
<1> HIDE DEF both, c1, c2
<1>8. \A k \in 1..(c1 + c2) : both[k] = Batch(s, 0, b)[k]
    <2> SUFFICES ASSUME NEW k \in 1..(c1 + c2) PROVE both[k] = Batch(s, 0, b)[k]
        OBVIOUS
    <2>1. CASE k <= c1
        <3>1. k \in 1..c1
            BY <1>4, <2>1
        <3> QED BY <1>3, <1>4, <1>5, <1>7, <1>b, <2>1, <3>1
    <2>2. CASE ~(k <= c1)
        <3>1. k - c1 \in 1..c2 /\ c1 + (k - c1) = k
            BY <1>4, <2>2
        <3>2. Ranked(K, k) = Ranked(K2, k - c1)
            BY <1>6, <3>1
        <3> QED BY <1>4, <1>7, <1>a, <1>b, <2>2, <3>1, <3>2
    <2> QED BY <2>1, <2>2
<1>9. both = Batch(s, 0, b)
    <2>1. Len(both) = Len(Batch(s, 0, b)) /\ Len(both) = c1 + c2
        BY <1>4, <1>7, <1>b
    <2> QED BY <1>7, <1>8, <1>b, <2>1
<1> QED BY <1>9 DEF both

(***************************************************************************)
(* An answer is a batch, of posts that follow the cursor if it is of the   *)
(* feed that was asked for, and its cursor is where the batch ended.       *)
(***************************************************************************)
LEMMA AnswersAre ==
    ASSUME NEW s \in Sources, NEW c \in Cursors,
           c # NoCursor => c.pos <= Len(Feeds[c.src]),
           NEW a \in Answers(s, c)
    PROVE  \E first \in 0..Len(Feeds[s]) : \E last \in first..Len(Feeds[s]) :
             /\ c = NoCursor => first = 0
             /\ c # NoCursor /\ c.src = s => first = c.pos
             /\ a.posts = Batch(s, first, last)
             /\ \/ a.cursor = [src |-> s, pos |-> last]
                \/ a.cursor = NoCursor /\ last = Len(Feeds[s])
<1> DEFINE n == Len(Feeds[s])
           firsts == IF c = NoCursor THEN {0} ELSE IF c.src = s THEN {c.pos} ELSE 0..n
<1>1. n \in Nat
    BY FeedLength
<1>2. firsts \subseteq 0..n
    <2>1. CASE c = NoCursor
        BY <1>1, <2>1
    <2>2. CASE c # NoCursor /\ c.src = s
        <3>1. c \in [src : Sources, pos : Nat]
            BY <2>2 DEF Cursors
        <3>2. c.pos \in Nat
            BY <3>1
        <3>3. c.pos <= n
            BY <2>2
        <3>4. firsts = {c.pos}
            BY <2>2
        <3> QED BY <1>1, <3>2, <3>3, <3>4
    <2>3. CASE c # NoCursor /\ c.src # s
        BY <2>3
    <2> QED BY <2>1, <2>2, <2>3
<1>3. PICK first \in firsts :
        a \in (LET last == Min({first + Limit, n})
               IN  {[posts |-> Batch(s, first, last), cursor |-> next] :
                      next \in (IF first < last THEN {[src |-> s, pos |-> last]} ELSE {})
                               \cup (IF last = n THEN {NoCursor} ELSE {})})
    BY DEF Answers
<1> DEFINE last == Min({first + Limit, n})
<1>4. first \in 0..n /\ last \in first..n
    <2>1. first \in 0..n
        BY <1>2
    <2>2. first + Limit \in Int /\ n \in Int /\ first <= first + Limit
        BY <1>1, <2>1, SizesAssumption
    <2>3. last \in Int /\ (last = first + Limit \/ last = n) /\ last <= n
        BY <2>2, MinOfTwo
    <2> QED BY <2>1, <2>2, <2>3
<1> HIDE DEF last
<1>5. PICK next \in (IF first < last THEN {[src |-> s, pos |-> last]} ELSE {})
                    \cup (IF last = n THEN {NoCursor} ELSE {}) :
        a = [posts |-> Batch(s, first, last), cursor |-> next]
    BY <1>3 DEF last
<1>6. a.posts = Batch(s, first, last) /\ a.cursor = next
    BY <1>5
<1>7. (c = NoCursor => first = 0) /\ (c # NoCursor /\ c.src = s => first = c.pos)
    OBVIOUS
<1>8. next = [src |-> s, pos |-> last] \/ (next = NoCursor /\ last = n)
    BY <1>5
<1> QED BY <1>4, <1>6, <1>7, <1>8

LEMMA AnswersArePosts ==
    ASSUME NEW s \in Sources, NEW c \in Cursors,
           c # NoCursor => c.pos <= Len(Feeds[c.src]),
           NEW a \in Answers(s, c)
    PROVE  /\ a.posts \in Seq(Posts)
           /\ a.cursor \in Cursors
           /\ a.cursor # NoCursor => a.cursor.pos <= Len(Feeds[a.cursor.src])
<1>1. \E first \in 0..Len(Feeds[s]) : \E last \in first..Len(Feeds[s]) :
        /\ c = NoCursor => first = 0
        /\ c # NoCursor /\ c.src = s => first = c.pos
        /\ a.posts = Batch(s, first, last)
        /\ \/ a.cursor = [src |-> s, pos |-> last]
           \/ a.cursor = NoCursor /\ last = Len(Feeds[s])
    BY AnswersAre
<1>2. PICK first \in 0..Len(Feeds[s]) :
        \E last \in first..Len(Feeds[s]) :
          /\ a.posts = Batch(s, first, last)
          /\ a.cursor = [src |-> s, pos |-> last] \/ a.cursor = NoCursor
    BY <1>1
<1>3. PICK last \in first..Len(Feeds[s]) :
        /\ a.posts = Batch(s, first, last)
        /\ a.cursor = [src |-> s, pos |-> last] \/ a.cursor = NoCursor
    BY <1>2
<1>4. first \in Nat /\ last \in Nat /\ last <= Len(Feeds[s])
    BY FeedLength
<1>5. a.posts \in Seq(Posts)
    BY <1>3, <1>4, BatchIsPosts
<1>6. CASE a.cursor = NoCursor
    BY <1>5, <1>6 DEF Cursors
<1>7. CASE a.cursor = [src |-> s, pos |-> last]
    <2>1. a.cursor \in Cursors
        BY <1>4, <1>7 DEF Cursors
    <2>2. a.cursor.pos = last /\ a.cursor.src = s
        BY <1>7
    <2> QED BY <1>4, <1>5, <2>1, <2>2
<1> QED BY <1>3, <1>6, <1>7

-----------------------------------------------------------------------------
(* Drawing. *)

LEMMA FitsBounds ==
    ASSUME NEW total \in Nat, NEW start \in 0..total, NEW n \in Fits(total, start)
    PROVE  n \in 0..MaxFit /\ start + n <= total
<1>1. CASE start < total
    <2>3. MaxFit \in Int /\ total - start \in Int
        BY SizesAssumption
    <2>1. Min({MaxFit, total - start}) <= MaxFit /\ Min({MaxFit, total - start}) <= total - start
          /\ Min({MaxFit, total - start}) \in Int
        BY <2>3, MinOfTwo
    <2>2. n \in 1..Min({MaxFit, total - start})
        BY <1>1 DEF Fits
    <2> QED BY <2>1, <2>2, SizesAssumption
<1>2. CASE ~(start < total)
    BY <1>2, SizesAssumption DEF Fits
<1> QED BY <1>1, <1>2

LEMMA PageIsInside ==
    ASSUME NEW start \in Nat, NEW n \in Nat, NEW total \in Nat, start + n <= total
    PROVE  start..(start + n - 1) \subseteq 0..(total - 1)
OBVIOUS

(***************************************************************************)
(* A drawing shows the page that starts at page_start, and lays out its    *)
(* hits; what was read before remains read.                                *)
(***************************************************************************)
LEMMA RenderDraws ==
    ASSUME NEW before, RenderFeed(before),
           items' \in Seq(Posts), page_start' \in 0..Len(items'), before \subseteq Indices(items')
    PROVE  /\ Drawn'
           /\ page_count' \in 0..MaxFit
           /\ hits' \subseteq Indices(items') /\ seen' \subseteq Indices(items')
           /\ before \subseteq seen'
<1>1. PICK n \in Fits(Len(items'), page_start') :
        /\ page_count' = n
        /\ hits' = page_start' .. (page_start' + n - 1)
        /\ shown' = [i \in hits' |-> items'[i + 1]]
        /\ seen' = before \cup hits'
    BY DEF RenderFeed
<1>2. Len(items') \in Nat
    OBVIOUS
<1>3. n \in 0..MaxFit /\ page_start' + n <= Len(items')
    BY <1>2, FitsBounds
<1>4. hits' \subseteq Indices(items')
    <2>1. hits' = page_start' .. (page_start' + n - 1)
        BY <1>1
    <2>2. page_start' \in Nat /\ n \in Nat /\ page_start' + n <= Len(items')
        BY <1>2, <1>3
    <2>3. page_start' .. (page_start' + n - 1) \subseteq 0..(Len(items') - 1)
        BY <1>2, <2>2, PageIsInside
    <2> QED BY <2>1, <2>3 DEF Indices
<1>5. DOMAIN shown' = hits' /\ \A i \in hits' : shown'[i] = items'[i + 1]
    BY <1>1
<1>6. page_start' + page_count' <= Len(items') /\ hits' = page_start'..(page_start' + page_count' - 1)
    BY <1>1, <1>3
<1>7. hits' \subseteq seen' /\ before \subseteq seen' /\ seen' \subseteq Indices(items')
    BY <1>1, <1>4
<1> QED BY <1>1, <1>3, <1>4, <1>5, <1>6, <1>7 DEF Drawn

-----------------------------------------------------------------------------
(* The trail of pages. *)

LEMMA FrontIsPrefix ==
    ASSUME NEW S, NEW s \in Seq(S), s # <<>>
    PROVE  /\ Front(s) \in Seq(S) /\ Len(Front(s)) = Len(s) - 1
           /\ \A i \in 1..(Len(s) - 1) : Front(s)[i] = s[i]
<1> DEFINE n == Len(s)
           before == SubSeq(s, 1, n - 1)
<1>1. n \in Nat /\ n > 0
    OBVIOUS
<1>2. 1 \in Int /\ n - 1 \in Int /\ \A i \in 1..(n - 1) : s[i] \in S
    BY <1>1
<1>3. Front(s) = before
    BY DEF Front
<1> HIDE DEF n
<1>4. /\ before \in Seq(S)
      /\ 1 <= n - 1 => Len(before) = (n - 1) - 1 + 1
      /\ ~(1 <= n - 1) => Len(before) = 0
      /\ \A i \in 1..((n - 1) - 1 + 1) : before[i] = s[1 + i - 1]
    BY <1>2, SubSeqProperties
<1> HIDE DEF before
<1>5. Len(before) = n - 1
    <2>1. CASE n = 1
        BY <1>4, <2>1
    <2>2. CASE n # 1
        BY <1>1, <1>4, <2>2
    <2> QED BY <2>1, <2>2
<1>6. \A i \in 1..(n - 1) : before[i] = s[i]
    BY <1>1, <1>4
<1> QED BY <1>3, <1>4, <1>5, <1>6 DEF n

LEMMA TrailBegins ==
    ASSUME page_history' = <<>>, page_start' = 0
    PROVE  Trail'
BY DEF Trail

LEMMA TrailStays ==
    ASSUME Trail, page_history' = page_history, page_start' = page_start, Len(items') = Len(items)
    PROVE  Trail'
BY DEF Trail

\* The next page, of a list that may have grown.
LEMMA TrailExtends ==
    ASSUME Trail, Len(items) \in Nat, Len(items') \in Nat, Len(items) <= Len(items'),
           page_start \in 0..Len(items), page_start' \in page_start..Len(items'),
           page_history' = Append(page_history, page_start)
    PROVE  Trail'
<1> DEFINE n == Len(page_history)
<1>1. page_history \in Seq(0..Len(items')) /\ page_start \in 0..Len(items') /\ n \in Nat
    <2>1. 0..Len(items) \subseteq 0..Len(items')
        OBVIOUS
    <2>2. page_history \in Seq(0..Len(items))
        BY DEF Trail
    <2> QED BY <2>1, <2>2
<1>2. /\ page_history' \in Seq(0..Len(items')) /\ Len(page_history') = n + 1
      /\ page_history'[n + 1] = page_start
      /\ \A i \in 1..n : page_history'[i] = page_history[i]
    BY <1>1
<1>3. page_history' # <<>>
    BY <1>1, <1>2
<1>4. page_history'[1] = 0
    <2>1. CASE n = 0
        <3>1. page_history = <<>> /\ page_start = 0
            BY <1>1, <2>1 DEF Trail
        <3> QED BY <1>2, <2>1, <3>1
    <2>2. CASE n > 0
        <3>1. page_history # <<>>
            BY <1>1, <2>2
        <3> QED BY <1>1, <1>2, <2>2, <3>1 DEF Trail
    <2> QED BY <1>1, <2>1, <2>2
<1>5. \A i \in 1..n : page_history'[i] <= page_history'[i + 1]
    <2> SUFFICES ASSUME NEW i \in 1..n PROVE page_history'[i] <= page_history'[i + 1]
        OBVIOUS
    <2>1. CASE i < n
        <3>1. i \in 1..(n - 1) /\ i + 1 \in 1..n
            BY <1>1, <2>1
        <3>2. page_history[i] <= page_history[i + 1]
            BY <3>1 DEF Trail
        <3> QED BY <1>2, <3>1, <3>2
    <2>2. CASE i = n
        <3>1. page_history # <<>>
            BY <1>1, <2>2
        <3>2. page_history[n] <= page_start
            BY <3>1 DEF Trail
        <3> QED BY <1>2, <2>2, <3>2
    <2> QED BY <1>1, <2>1, <2>2
<1>6. page_history'[Len(page_history')] <= page_start'
    BY <1>2
<1>7. \A i \in 1..(Len(page_history') - 1) : page_history'[i] <= page_history'[i + 1]
    <2>1. Len(page_history') - 1 = n
        BY <1>1, <1>2
    <2> QED BY <1>5, <2>1
<1>8. page_history' \in Seq(0..Len(items'))
    BY <1>2
<1> HIDE DEF n
<1> QED BY <1>3, <1>4, <1>6, <1>7, <1>8 DEF Trail

\* The page before.
LEMMA TrailRetreats ==
    ASSUME Trail, items' = items, Len(items) \in Nat, page_start \in 0..Len(items),
           page_history # <<>>,
           page_start' = Last(page_history), page_history' = Front(page_history)
    PROVE  Trail' /\ page_start' \in 0..page_start
<1> DEFINE n == Len(page_history)
<1>1. page_history \in Seq(0..Len(items)) /\ n \in Nat /\ n > 0
    BY DEF Trail
<1>2. page_start' = page_history[n] /\ page_history[n] \in 0..Len(items) /\ page_history[n] <= page_start
    BY <1>1 DEF Last, Trail
<1>3. /\ page_history' \in Seq(0..Len(items)) /\ Len(page_history') = n - 1
      /\ \A i \in 1..(n - 1) : page_history'[i] = page_history[i]
    BY <1>1, FrontIsPrefix
<1>4. page_history' = <<>> => page_start' = 0
    <2> SUFFICES ASSUME page_history' = <<>> PROVE page_start' = 0
        OBVIOUS
    <2>1. n = 1
        BY <1>1, <1>3
    <2> QED BY <1>1, <1>2, <2>1 DEF Trail
<1>5. page_history' # <<>> =>
        page_history'[1] = 0 /\ page_history'[Len(page_history')] <= page_start'
    <2> SUFFICES ASSUME page_history' # <<>>
                 PROVE  page_history'[1] = 0 /\ page_history'[Len(page_history')] <= page_start'
        OBVIOUS
    <2>1. n - 1 \in 1..(n - 1) /\ 1 \in 1..(n - 1)
        BY <1>1, <1>3
    <2>2. page_history[n - 1] <= page_history[(n - 1) + 1] /\ (n - 1) + 1 = n
        BY <1>1, <2>1 DEF Trail
    <2>3. page_history[1] = 0
        BY <1>1 DEF Trail
    <2> QED BY <1>2, <1>3, <2>1, <2>2, <2>3
<1>6. \A i \in 1..(Len(page_history') - 1) : page_history'[i] <= page_history'[i + 1]
    <2> SUFFICES ASSUME NEW i \in 1..(n - 2) PROVE page_history'[i] <= page_history'[i + 1]
        BY <1>1, <1>3
    <2>1. i \in 1..(n - 1) /\ i + 1 \in 1..(n - 1)
        BY <1>1
    <2>2. page_history[i] <= page_history[i + 1]
        BY <2>1 DEF Trail
    <2> QED BY <1>3, <2>1, <2>2
<1>7. Trail'
    BY <1>3, <1>4, <1>5, <1>6 DEF Trail
<1>8. page_start' \in 0..page_start
    BY <1>2
<1> QED BY <1>7, <1>8

-----------------------------------------------------------------------------
(* Steps, by what they leave to be shown. *)

\* A step that draws, once the list is known to be in order.
LEMMA RenderInv ==
    ASSUME Modes', List', Trail', view' # "dashboard",
           NEW before, before \subseteq Indices(items'), 0..(page_start' - 1) \subseteq before,
           RenderFeed(before)
    PROVE  Inv'
<1>1. items' \in Seq(Posts) /\ page_start' \in 0..Len(items')
    BY DEF List
<1>2. /\ Drawn'
      /\ page_count' \in 0..MaxFit
      /\ hits' \subseteq Indices(items') /\ seen' \subseteq Indices(items')
      /\ before \subseteq seen'
    BY <1>1, RenderDraws
<1>3. Page'
    BY <1>2 DEF Page, Indices
<1>4. ReadSoFar'
    BY <1>2 DEF ReadSoFar
<1>5. NothingHeld' /\ OnScreen'
    BY <1>2 DEF NothingHeld, OnScreen
<1> QED BY <1>3, <1>4, <1>5 DEF Inv

\* The same list is drawn again.
LEMMA RedrawInv ==
    ASSUME Inv, Modes', view' # "dashboard",
           UNCHANGED <<listVars, page_start, page_history>>, RenderFeed(seen)
    PROVE  Inv'
<1>1. UNCHANGED <<items, cursor, listed, page_start, page_history>>
    BY DEF listVars
<1>2. List'
    BY <1>1 DEF Inv, List
<1>3. Trail'
    BY <1>1, TrailStays DEF Inv
<1>4. seen \subseteq Indices(items') /\ 0..(page_start' - 1) \subseteq seen
    BY <1>1 DEF Inv, Page, ReadSoFar
<1> QED BY <1>2, <1>3, <1>4, RenderInv

\* Another view than the feed's opens, or stays.
LEMMA OtherViewInv ==
    ASSUME Inv, Modes', view' # "dashboard", view' = "feed" => view = "feed",
           UNCHANGED <<listVars, pageVars>>
    PROVE  Inv'
<1>1. UNCHANGED <<items, cursor, listed, page_start, page_count, page_history, hits, shown, seen>>
    BY DEF listVars, pageVars
<1>2. List' /\ Page'
    BY <1>1 DEF Inv, List, Page, Indices
<1>3. Trail'
    BY <1>1, TrailStays DEF Inv
<1>4. ReadSoFar' /\ NothingHeld'
    BY <1>1 DEF Inv, ReadSoFar, NothingHeld
<1>5. OnScreen'
    BY <1>1 DEF Inv, OnScreen, Drawn
<1> QED BY <1>2, <1>3, <1>4, <1>5 DEF Inv

\* A feed is loaded from its start, or could not be.
LEMMA FreshList ==
    ASSUME source' \in Sources, FeedLoads \/ FeedLoadFails
    PROVE  List' /\ Trail' /\ page_start' = 0
<1>1. page_start' = 0 /\ page_history' = <<>> /\ listed' = source'
    BY DEF FeedLoads, FeedLoadFails
<1>2. CASE FeedLoads
    <2>1. PICK a \in Answers(source', NoCursor) : items' = a.posts /\ cursor' = a.cursor
        BY <1>2 DEF FeedLoads
    <2>2. NoCursor \in Cursors
        BY DEF Cursors
    <2>3. /\ a.posts \in Seq(Posts)
          /\ a.cursor \in Cursors
          /\ a.cursor # NoCursor => a.cursor.pos <= Len(Feeds[a.cursor.src])
        BY <2>2, AnswersArePosts
    <2>4. page_start' \in 0..Len(items')
        BY <1>1, <2>1, <2>3
    <2>5. List'
        BY <1>1, <2>1, <2>3, <2>4 DEF List
    <2> QED BY <1>1, <2>5, TrailBegins
<1>3. CASE FeedLoadFails
    <2>1. items' = <<>> /\ cursor' = NoCursor
        BY <1>3 DEF FeedLoadFails
    <2>2. List'
        BY <1>1, <2>1 DEF List, Cursors
    <2> QED BY <1>1, <2>2, TrailBegins
<1> QED BY <1>2, <1>3

\* load_feed and a drawing.
LEMMA LoadAndRenderInv ==
    ASSUME Inv, Modes', view' # "dashboard", LoadAndRenderFeed
    PROVE  Inv'
<1>1. CASE (FeedLoads \/ FeedLoadFails) /\ RenderFeed({})
    <2>1. source' \in Sources
        BY DEF Modes
    <2>2. List' /\ Trail' /\ page_start' = 0
        BY <1>1, <2>1, FreshList
    <2>3. {} \subseteq Indices(items') /\ 0..(page_start' - 1) \subseteq {}
        BY <2>2
    <2> QED BY <1>1, <2>2, <2>3, RenderInv
<1>2. CASE FeedLoadSkipped /\ RenderFeed(seen)
    <2>1. UNCHANGED <<listVars, page_start, page_history>>
        BY <1>2 DEF FeedLoadSkipped
    <2> QED BY <1>2, <2>1, RedrawInv
<1> QED BY <1>1, <1>2 DEF LoadAndRenderFeed

-----------------------------------------------------------------------------
(* The steps. *)

LEMMA InitInv == Init => Inv
<1> SUFFICES ASSUME Init PROVE Inv
    OBVIOUS
<1> USE DEF Init
<1>1. Modes
    BY SourcesAssumption DEF Modes, Views
<1>2. List /\ Page
    BY SourcesAssumption, SizesAssumption DEF List, Page, Cursors, Indices
<1>3. Trail
    BY DEF Trail
<1>4. ReadSoFar /\ NothingHeld /\ OnScreen
    BY DEF ReadSoFar, NothingHeld, OnScreen
<1> QED BY <1>1, <1>2, <1>3, <1>4 DEF Inv

\* The list is known by its posts, the page by where it ends.
LEMMA PageEnds ==
    ASSUME Inv, view = "feed"
    PROVE  /\ Len(items) \in Nat
           /\ page_start \in 0..Len(items) /\ page_count \in Nat
           /\ page_start + page_count <= Len(items)
           /\ 0..(page_start + page_count - 1) \subseteq seen
<1>1. items \in Seq(Posts) /\ page_start \in 0..Len(items)
    BY DEF Inv, List
<1>2. page_count \in Nat
    BY SizesAssumption DEF Inv, Page
<1>3. Len(items) \in Nat
    BY <1>1
<1>4. Drawn
    BY DEF Inv, OnScreen
<1>5. page_start + page_count <= Len(items)
    BY <1>4 DEF Drawn
<1>6. 0..(page_start - 1) \subseteq seen /\ page_start..(page_start + page_count - 1) \subseteq seen
    BY <1>4 DEF Inv, ReadSoFar, Drawn
<1>7. 0..(page_start + page_count - 1) \subseteq seen
    BY <1>1, <1>2, <1>3, <1>6
<1> QED BY <1>1, <1>2, <1>3, <1>5, <1>7

LEMMA NextLoadedInv == Inv /\ NextLoaded => Inv'
<1> SUFFICES ASSUME Inv, NextLoaded PROVE Inv'
    OBVIOUS
<1>1. /\ view = "feed" /\ page_start + page_count < Len(items)
      /\ page_history' = Append(page_history, page_start)
      /\ page_start' = page_start + page_count
      /\ UNCHANGED <<auth, view, return_view, source, feeds>>
      /\ UNCHANGED <<items, cursor, listed>>
      /\ RenderFeed(seen)
    BY DEF NextLoaded, listVars
<1>2. /\ Len(items) \in Nat /\ page_start \in 0..Len(items) /\ page_count \in Nat
      /\ 0..(page_start + page_count - 1) \subseteq seen
    BY <1>1, PageEnds
<1>3. Len(items') \in Nat /\ Len(items) <= Len(items') /\ page_start' \in page_start..Len(items')
    BY <1>1, <1>2
<1>4. Modes' /\ view' # "dashboard"
    BY <1>1 DEF Inv, Modes
<1>5. List'
    BY <1>1, <1>2, <1>3 DEF Inv, List
<1>6. Trail'
    BY <1>1, <1>2, <1>3, TrailExtends DEF Inv
<1>7. seen \subseteq Indices(items') /\ 0..(page_start' - 1) \subseteq seen
    BY <1>1, <1>2 DEF Inv, Page
<1> QED BY <1>1, <1>4, <1>5, <1>6, <1>7, RenderInv

LEMMA NextFetchedInv == Inv /\ NextFetched => Inv'
<1> SUFFICES ASSUME Inv, NextFetched PROVE Inv'
    OBVIOUS
<1>1. /\ view = "feed" /\ page_start + page_count >= Len(items)
      /\ listed' = IF listed = source THEN listed ELSE NoSource
      /\ page_history' = Append(page_history, page_start)
      /\ page_start' = Len(items)
      /\ UNCHANGED <<auth, view, return_view, source, feeds>>
      /\ RenderFeed(seen)
    BY DEF NextFetched, AtEndOfList
<1>2. /\ Len(items) \in Nat /\ page_start \in 0..Len(items) /\ page_count \in Nat
      /\ 0..(page_start + page_count - 1) \subseteq seen
    BY <1>1, PageEnds
<1>3. PICK a \in Answers(source, cursor) : items' = items \o a.posts /\ cursor' = a.cursor
    BY DEF NextFetched
<1>4. source \in Sources /\ items \in Seq(Posts) /\ cursor \in Cursors
      /\ (cursor # NoCursor => cursor.pos <= Len(Feeds[cursor.src]))
      /\ listed \in Sources \cup {NoSource}
    BY DEF Inv, Modes, List
<1>5. /\ a.posts \in Seq(Posts)
      /\ a.cursor \in Cursors
      /\ a.cursor # NoCursor => a.cursor.pos <= Len(Feeds[a.cursor.src])
    BY <1>4, AnswersArePosts
<1>6. items' \in Seq(Posts) /\ Len(items') = Len(items) + Len(a.posts) /\ Len(a.posts) \in Nat
    BY <1>3, <1>4, <1>5
<1>7. Len(items') \in Nat /\ Len(items) <= Len(items') /\ page_start' \in page_start..Len(items')
    BY <1>1, <1>2, <1>6
<1>8. Modes' /\ view' # "dashboard"
    BY <1>1 DEF Inv, Modes
<1>9. List'
    <2>1. page_start' \in 0..Len(items') /\ listed' \in Sources \cup {NoSource}
        BY <1>1, <1>2, <1>4, <1>7
    <2> QED BY <1>3, <1>5, <1>6, <2>1 DEF List
<1>10. Trail'
    BY <1>1, <1>2, <1>7, TrailExtends DEF Inv
<1>11. seen \subseteq Indices(items') /\ 0..(page_start' - 1) \subseteq seen
    <2>1. seen \subseteq 0..(Len(items) - 1)
        BY DEF Inv, Page, Indices
    <2>2. seen \subseteq 0..(Len(items') - 1)
        BY <1>2, <1>7, <2>1
    <2>3. 0..(page_start' - 1) \subseteq 0..(page_start + page_count - 1)
        BY <1>1, <1>2
    <2> QED BY <1>2, <2>2, <2>3 DEF Indices
<1> QED BY <1>1, <1>8, <1>9, <1>10, <1>11, RenderInv

LEMMA NextFailsInv == Inv /\ NextFails => Inv'
<1> SUFFICES ASSUME Inv, NextFails PROVE Inv'
    OBVIOUS
<1>1. /\ view = "feed"
      /\ UNCHANGED <<auth, view, return_view, source, feeds>>
      /\ UNCHANGED <<listVars, page_start, page_history>>
      /\ RenderFeed(seen) \/ NoRender
    BY DEF NextFails, AtEndOfList
<1>2. Modes' /\ view' # "dashboard"
    BY <1>1 DEF Inv, Modes
<1>3. CASE RenderFeed(seen)
    BY <1>1, <1>2, <1>3, RedrawInv
<1>4. CASE NoRender
    <2>1. UNCHANGED <<listVars, pageVars>>
        BY <1>1, <1>4 DEF NoRender, pageVars
    <2> QED BY <1>1, <1>2, <2>1, OtherViewInv
<1> QED BY <1>1, <1>3, <1>4

LEMMA PreviousInv == Inv /\ Previous => Inv'
<1> SUFFICES ASSUME Inv, Previous PROVE Inv'
    OBVIOUS
<1>1. /\ view = "feed" /\ page_history # <<>>
      /\ page_start' = Last(page_history) /\ page_history' = Front(page_history)
      /\ UNCHANGED <<auth, view, return_view, source, feeds>>
      /\ UNCHANGED <<items, cursor, listed>>
      /\ RenderFeed(seen)
    BY DEF Previous, listVars
<1>2. /\ Len(items) \in Nat /\ page_start \in 0..Len(items) /\ page_count \in Nat
      /\ 0..(page_start + page_count - 1) \subseteq seen
    BY <1>1, PageEnds
<1>3. Trail' /\ page_start' \in 0..page_start
    BY <1>1, <1>2, TrailRetreats DEF Inv
<1>4. Modes' /\ view' # "dashboard"
    BY <1>1 DEF Inv, Modes
<1>5. List'
    BY <1>1, <1>2, <1>3 DEF Inv, List
<1>6. seen \subseteq Indices(items') /\ 0..(page_start' - 1) \subseteq seen
    BY <1>1, <1>2, <1>3 DEF Inv, Page
<1> QED BY <1>1, <1>3, <1>4, <1>5, <1>6, RenderInv

LEMMA ReadingInv == Inv /\ FeedView => Inv'
<1> SUFFICES ASSUME Inv, FeedView PROVE Inv'
    OBVIOUS
<1>1. CASE NextLoaded
    BY <1>1, NextLoadedInv
<1>2. CASE NextFetched
    BY <1>2, NextFetchedInv
<1>3. CASE NextFails
    BY <1>3, NextFailsInv
<1>4. CASE Previous
    BY <1>4, PreviousInv
<1>5. CASE RefreshFeed
    <2>1. Modes' /\ view' # "dashboard"
        BY <1>5 DEF RefreshFeed, Inv, Modes
    <2> QED BY <1>5, <2>1, LoadAndRenderInv DEF RefreshFeed
<1>6. CASE Redraw
    <2>1. Modes' /\ view' # "dashboard"
        BY <1>6 DEF Redraw, Inv, Modes
    <2> QED BY <1>6, <2>1, RedrawInv DEF Redraw
<1> QED BY <1>1, <1>2, <1>3, <1>4, <1>5, <1>6 DEF FeedView

LEMMA NavigationInv == Inv /\ Navigation => Inv'
<1> SUFFICES ASSUME Inv, Navigation PROVE Inv'
    OBVIOUS
<1>1. CASE OpenThread
    <2>1. Modes' /\ view' = "thread"
        BY <1>1 DEF OpenThread, Inv, Modes, Views
    <2>2. UNCHANGED <<listVars, pageVars>>
        BY <1>1 DEF OpenThread, NoRender, pageVars
    <2> QED BY <2>1, <2>2, OtherViewInv
<1>2. CASE OpenFeedList
    <2>1. feeds' \subseteq Sources
        BY <1>2, SourcesAssumption DEF OpenFeedList, PinnedFeeds
    <2>2. Modes' /\ view' = "feed_list"
        BY <1>2, <2>1 DEF OpenFeedList, Inv, Modes, Views
    <2>3. UNCHANGED <<listVars, pageVars>>
        BY <1>2 DEF OpenFeedList, NoRender, pageVars
    <2> QED BY <2>2, <2>3, OtherViewInv
<1>3. CASE SelectFeed
    <2>1. Modes' /\ view' = "feed"
        BY <1>3 DEF SelectFeed, Inv, Modes, Views, LoadAndRenderFeed
    <2> QED BY <1>3, <2>1, LoadAndRenderInv DEF SelectFeed
<1>4. CASE BackToFeed
    <2>1. Modes' /\ view' = "feed"
        BY <1>4 DEF BackToFeed, Inv, Modes, Views
    <2> QED BY <1>4, <2>1, RedrawInv DEF BackToFeed
<1>5. CASE OpenSettings
    <2>1. Modes' /\ view' = "settings"
        BY <1>5 DEF OpenSettings, Inv, Modes, Views
    <2> QED BY <1>5, <2>1, OtherViewInv DEF OpenSettings
<1>6. CASE BackToThread
    <2>1. Modes' /\ view' = "thread"
        BY <1>6 DEF BackToThread, Inv, Modes, Views
    <2> QED BY <1>6, <2>1, OtherViewInv DEF BackToThread
<1>7. CASE OpenDiagnostics
    <2>1. Modes' /\ view' = "diagnostics"
        BY <1>7 DEF OpenDiagnostics, Inv, Modes, Views
    <2> QED BY <1>7, <2>1, OtherViewInv DEF OpenDiagnostics
<1>8. CASE LeaveDiagnostics
    <2>1. Modes' /\ view' = "settings"
        BY <1>8 DEF LeaveDiagnostics, Inv, Modes, Views
    <2> QED BY <1>8, <2>1, OtherViewInv DEF LeaveDiagnostics
<1> QED BY <1>1, <1>2, <1>3, <1>4, <1>5, <1>6, <1>7, <1>8 DEF Navigation

\* Nothing is listed and nothing shown: after a sign-out or a restart.
LEMMA EmptyInv ==
    ASSUME Modes', listed' = Timeline, view' = "dashboard",
           items' = <<>>, cursor' = NoCursor,
           page_start' = 0, page_count' = 0, page_history' = <<>>,
           hits' = {}, seen' = {}
    PROVE  Inv'
<1>1. List' /\ Page'
    BY SourcesAssumption, SizesAssumption DEF List, Page, Cursors, Indices
<1>2. Trail'
    BY TrailBegins
<1>3. ReadSoFar' /\ NothingHeld' /\ OnScreen'
    BY DEF ReadSoFar, NothingHeld, OnScreen
<1> QED BY <1>1, <1>2, <1>3 DEF Inv

LEMMA SignOutInv == Inv /\ (SignOut \/ Exit) => Inv'
<1> SUFFICES ASSUME Inv, SignOut \/ Exit PROVE Inv'
    OBVIOUS
<1>1. /\ listed' = Timeline /\ view' = "dashboard"
      /\ items' = <<>> /\ cursor' = NoCursor
      /\ page_start' = 0 /\ page_count' = 0 /\ page_history' = <<>>
      /\ hits' = {} /\ seen' = {}
    BY DEF SignOut, Exit
<1>2. Modes'
    BY SourcesAssumption DEF SignOut, Exit, Inv, Modes, Views
<1> QED BY <1>1, <1>2, EmptyInv

LEMMA EnterFeedInv == Inv /\ EnterFeed => Inv'
<1> SUFFICES ASSUME Inv, EnterFeed PROVE Inv'
    OBVIOUS
<1>1. view = "dashboard" /\ auth' \in BOOLEAN /\ UNCHANGED <<return_view, source, feeds>>
    BY DEF EnterFeed
<1>2. source' \in Sources
    BY <1>1 DEF Inv, Modes
<1>3. CASE FeedLoads /\ view' = "feed" /\ RenderFeed({})
    <2>1. List' /\ Trail' /\ page_start' = 0
        BY <1>2, <1>3, FreshList
    <2>2. {} \subseteq Indices(items') /\ 0..(page_start' - 1) \subseteq {}
        BY <2>1
    <2>3. Modes'
        BY <1>1, <1>3 DEF Inv, Modes, Views
    <2> QED BY <1>3, <2>1, <2>2, <2>3, RenderInv
<1>4. CASE FeedLoadFails /\ page_count' = 0 /\ UNCHANGED <<view, hits, shown, seen>>
    <2>1. List' /\ Trail' /\ page_start' = 0
        BY <1>2, <1>4, FreshList
    <2>2. hits' = {} /\ seen' = {} /\ view' = "dashboard"
        BY <1>1, <1>4 DEF Inv, NothingHeld
    <2>3. Modes'
        BY <1>1, <1>4 DEF Inv, Modes
    <2>4. Page'
        BY <1>4, <2>2, SizesAssumption DEF Page
    <2>5. ReadSoFar' /\ NothingHeld' /\ OnScreen'
        BY <2>1, <2>2 DEF ReadSoFar, NothingHeld, OnScreen
    <2> QED BY <2>1, <2>3, <2>4, <2>5 DEF Inv
<1>5. CASE FeedLoadSkipped /\ UNCHANGED <<view, page_count, hits, shown, seen>>
    <2>1. UNCHANGED <<items, cursor, listed, page_start, page_count, page_history, hits, shown, seen, view>>
        BY <1>5 DEF FeedLoadSkipped, listVars
    <2>2. Modes'
        BY <1>1, <2>1 DEF Inv, Modes
    <2>3. List' /\ Page'
        BY <2>1 DEF Inv, List, Page, Indices
    <2>4. Trail'
        BY <2>1, TrailStays DEF Inv
    <2>5. ReadSoFar' /\ NothingHeld' /\ OnScreen'
        BY <1>1, <2>1 DEF Inv, ReadSoFar, NothingHeld, OnScreen
    <2> QED BY <2>2, <2>3, <2>4, <2>5 DEF Inv
<1> QED BY <1>3, <1>4, <1>5 DEF EnterFeed

LEMMA NextInv == Inv /\ [Next]_vars => Inv'
<1> SUFFICES ASSUME Inv, [Next]_vars PROVE Inv'
    OBVIOUS
<1>1. CASE FeedView
    BY <1>1, ReadingInv
<1>2. CASE Navigation
    BY <1>2, NavigationInv
<1>3. CASE RefreshDiagnostics
    <2>1. Modes' /\ view' = "diagnostics"
        BY <1>3 DEF RefreshDiagnostics, Inv, Modes
    <2> QED BY <1>3, <2>1, OtherViewInv DEF RefreshDiagnostics
<1>4. CASE SignOut \/ Exit
    BY <1>4, SignOutInv
<1>5. CASE EnterFeed
    BY <1>5, EnterFeedInv
<1>6. CASE UNCHANGED vars
    <2>1. UNCHANGED <<auth, view, return_view, source, feeds, items, cursor, listed,
                      page_start, page_count, page_history, hits, shown, seen>>
        BY <1>6 DEF vars
    <2>2. Modes' /\ List' /\ Page'
        BY <2>1 DEF Inv, Modes, List, Page, Indices
    <2>3. Trail'
        BY <2>1, TrailStays DEF Inv
    <2>4. ReadSoFar' /\ NothingHeld' /\ OnScreen'
        BY <2>1 DEF Inv, ReadSoFar, NothingHeld, OnScreen, Drawn
    <2> QED BY <2>2, <2>3, <2>4 DEF Inv
<1> QED BY <1>1, <1>2, <1>3, <1>4, <1>5, <1>6 DEF Next

LEMMA Invariance == Spec => []Inv
BY InitInv, NextInv, PTL DEF Spec

-----------------------------------------------------------------------------
(* What the runs check, for all feeds and all screens. *)

(* Every variable keeps to its domain: neither the page nor the hits ever  *)
(* point behind the end of a list that was replaced or cut short.          *)
THEOREM TypeCorrect == Spec => []TypeOK
<1>1. Inv => TypeOK
    BY DEF Inv, Modes, List, Page, Trail, Indices, TypeOK
<1> QED BY <1>1, Invariance, PTL

(* A tap in the feed view acts on the post that is drawn where it lands,   *)
(* through every replacement of the list, its source and the account.      *)
THEOREM TapsMeanThePostShown == Spec => []TapHitsShownPost
<1>1. Inv => TapHitsShownPost
    <2> SUFFICES ASSUME Inv, view = "feed"
                 PROVE  /\ hits = DOMAIN shown
                        /\ \A i \in hits : i < Len(items) /\ items[i + 1] = shown[i]
        BY DEF TapHitsShownPost
    <2>1. Drawn
        BY DEF Inv, OnScreen
    <2>2. Len(items) \in Nat /\ hits \subseteq 0..(Len(items) - 1)
        BY DEF Inv, List, Page, Indices
    <2> QED BY <2>1, <2>2 DEF Drawn
<1> QED BY <1>1, Invariance, PTL

(* Reading on never skips a post, however many posts fit on a page from    *)
(* one drawing to the next.                                                *)
THEOREM ReadingIsComplete == Spec => []NothingSkipped
<1>1. Inv => NothingSkipped
    BY PageEnds DEF NothingSkipped
<1> QED BY <1>1, Invariance, PTL

(* Going back goes back, page by page, to the first page of this list.     *)
THEOREM BackLeadsToTheTop == Spec => []HistoryAscends
<1>1. Inv => HistoryAscends
    <2> SUFFICES ASSUME Inv PROVE HistoryAscends
        OBVIOUS
    <2> DEFINE n == Len(page_history)
               trail == Append(page_history, page_start)
    <2>1. page_history \in Seq(0..Len(items)) /\ page_start \in 0..Len(items) /\ n \in Nat
        BY DEF Inv, List, Trail
    <2>2. Len(trail) = n + 1 /\ trail[n + 1] = page_start
          /\ \A i \in 1..n : trail[i] = page_history[i]
        BY <2>1
    <2> HIDE DEF trail
    <2>3. trail[1] = 0
        <3>1. CASE n = 0
            <4>1. page_history = <<>> /\ page_start = 0
                BY <2>1, <3>1 DEF Inv, Trail
            <4> QED BY <2>2, <3>1, <4>1
        <3>2. CASE n > 0
            <4>1. page_history # <<>>
                BY <2>1, <3>2
            <4>2. page_history[1] = 0
                BY <4>1 DEF Inv, Trail
            <4> QED BY <2>1, <2>2, <3>2, <4>2
        <3> QED BY <2>1, <3>1, <3>2
    <2>4. \A i \in 1..n : trail[i] <= trail[i + 1]
        <3> SUFFICES ASSUME NEW i \in 1..n PROVE trail[i] <= trail[i + 1]
            OBVIOUS
        <3>1. CASE i < n
            <4>1. i \in 1..(n - 1) /\ i + 1 \in 1..n
                BY <2>1, <3>1
            <4>2. page_history[i] <= page_history[i + 1]
                BY <4>1 DEF Inv, Trail
            <4> QED BY <2>2, <4>1, <4>2
        <3>2. CASE i = n
            <4>1. page_history # <<>>
                BY <2>1, <3>2
            <4>2. page_history[n] <= page_start
                BY <4>1 DEF Inv, Trail
            <4> QED BY <2>2, <3>2, <4>2
        <3> QED BY <2>1, <3>1, <3>2
    <2>5. \A i \in 1..(Len(trail) - 1) : trail[i] <= trail[i + 1]
        <3>1. Len(trail) - 1 = n
            BY <2>1, <2>2
        <3> QED BY <2>4, <3>1
    <2> QED BY <2>3, <2>5 DEF HistoryAscends, trail
<1> QED BY <1>1, Invariance, PTL

-----------------------------------------------------------------------------
(* The list under the name of a feed. *)

\* While all of the list came from one feed, its cursor is of that feed, and
\* the list is what the filter leaves up to there.
PrefixInv ==
    listed \in Sources =>
        /\ cursor # NoCursor =>
             /\ cursor.src = listed
             /\ items = Batch(listed, 0, cursor.pos)
        /\ cursor = NoCursor /\ items # <<>> => items = Batch(listed, 0, Len(Feeds[listed]))

LEMMA ListChanges ==
    ASSUME [Next]_vars
    PROVE  \/ UNCHANGED listVars
           \/ FeedLoads
           \/ NextFetched
           \/ items' = <<>> /\ cursor' = NoCursor
<1> USE DEF listVars
<1>1. CASE FeedView
    BY <1>1 DEF FeedView, NextLoaded, NextFails, Previous, RefreshFeed, Redraw,
                LoadAndRenderFeed, FeedLoadFails, FeedLoadSkipped
<1>2. CASE Navigation
    BY <1>2 DEF Navigation, OpenThread, OpenFeedList, SelectFeed, BackToFeed, OpenSettings,
                BackToThread, OpenDiagnostics, LeaveDiagnostics,
                LoadAndRenderFeed, FeedLoadFails, FeedLoadSkipped
<1>3. CASE RefreshDiagnostics \/ SignOut \/ EnterFeed \/ Exit
    BY <1>3 DEF RefreshDiagnostics, SignOut, EnterFeed, Exit, FeedLoadFails, FeedLoadSkipped
<1>4. CASE UNCHANGED vars
    BY <1>4 DEF vars
<1> QED BY <1>1, <1>2, <1>3, <1>4 DEF Next

LEMMA PrefixStep == Inv /\ Inv' /\ PrefixInv /\ [Next]_vars => PrefixInv'
<1> SUFFICES ASSUME Inv, Inv', PrefixInv, [Next]_vars, listed' \in Sources PROVE PrefixInv'
    BY DEF PrefixInv
<1>1. CASE UNCHANGED listVars
    BY <1>1 DEF PrefixInv, listVars
<1>2. CASE items' = <<>> /\ cursor' = NoCursor
    BY <1>2 DEF PrefixInv
<1>3. CASE FeedLoads
    <2>1. listed' = source' /\ source' \in Sources
        BY <1>3 DEF FeedLoads, Inv, Modes
    <2>2. PICK a \in Answers(source', NoCursor) : items' = a.posts /\ cursor' = a.cursor
        BY <1>3 DEF FeedLoads
    <2>3. NoCursor \in Cursors
        BY DEF Cursors
    <2>4. PICK last \in 0..Len(Feeds[source']) :
            /\ a.posts = Batch(source', 0, last)
            /\ \/ a.cursor = [src |-> source', pos |-> last]
               \/ a.cursor = NoCursor /\ last = Len(Feeds[source'])
        BY <2>1, <2>3, AnswersAre
    <2>5. CASE cursor' = NoCursor
        <3>1. a.cursor # [src |-> source', pos |-> last]
            <4>1. last \in Nat
                BY <2>1, FeedLength
            <4> QED BY <2>1, <2>2, <2>5, <4>1, NoCursorAssumption
        <3> QED BY <2>1, <2>2, <2>4, <2>5, <3>1 DEF PrefixInv
    <2>6. CASE cursor' # NoCursor
        <3>1. cursor'.src = source' /\ cursor'.pos = last
            BY <2>2, <2>4, <2>6
        <3> QED BY <2>1, <2>2, <2>4, <2>6, <3>1 DEF PrefixInv
    <2> QED BY <2>5, <2>6
<1>4. CASE NextFetched
    <2>1. listed = source /\ listed' = source /\ source \in Sources /\ cursor # NoCursor
        BY <1>4, SourcesAssumption DEF NextFetched, Inv, Modes
    <2>2. cursor.src = source /\ items = Batch(source, 0, cursor.pos)
        BY <2>1 DEF PrefixInv
    <2>3. cursor \in Cursors /\ cursor.pos <= Len(Feeds[source])
        BY <2>1, <2>2 DEF Inv, List
    <2>4. cursor.pos \in Nat
        <3>1. cursor \in [src : Sources, pos : Nat]
            BY <2>1, <2>3 DEF Cursors
        <3> QED BY <3>1
    <2>5. PICK a \in Answers(source, cursor) : items' = items \o a.posts /\ cursor' = a.cursor
        BY <1>4 DEF NextFetched
    <2>6. PICK last \in cursor.pos..Len(Feeds[source]) :
            /\ a.posts = Batch(source, cursor.pos, last)
            /\ \/ a.cursor = [src |-> source, pos |-> last]
               \/ a.cursor = NoCursor /\ last = Len(Feeds[source])
        <3>1. cursor # NoCursor => cursor.pos <= Len(Feeds[cursor.src])
            BY <2>2, <2>3
        <3>2. \E first \in 0..Len(Feeds[source]) : \E last \in first..Len(Feeds[source]) :
                /\ cursor = NoCursor => first = 0
                /\ cursor # NoCursor /\ cursor.src = source => first = cursor.pos
                /\ a.posts = Batch(source, first, last)
                /\ \/ a.cursor = [src |-> source, pos |-> last]
                   \/ a.cursor = NoCursor /\ last = Len(Feeds[source])
            BY <2>1, <2>3, <3>1, AnswersAre
        <3> QED BY <2>1, <2>2, <3>2
    <2>7. last \in Nat /\ cursor.pos <= last
        BY <2>1, <2>4, <2>6, FeedLength
    <2>8. items' = Batch(source, 0, last)
        BY <2>1, <2>2, <2>4, <2>5, <2>6, <2>7, BatchesAdjoin
    <2>9. CASE cursor' = NoCursor
        <3>1. a.cursor # [src |-> source, pos |-> last]
            BY <2>1, <2>5, <2>7, <2>9, NoCursorAssumption
        <3> QED BY <2>1, <2>5, <2>6, <2>8, <2>9, <3>1 DEF PrefixInv
    <2>10. CASE cursor' # NoCursor
        <3>1. cursor'.src = source /\ cursor'.pos = last
            BY <2>5, <2>6, <2>10
        <3> QED BY <2>1, <2>8, <2>10, <3>1 DEF PrefixInv
    <2> QED BY <2>9, <2>10
<1> QED BY <1>1, <1>2, <1>3, <1>4, ListChanges

(* A list that was loaded from the active feed, and only read on since, is *)
(* what the filter leaves of that feed up to the cursor, however the feed  *)
(* is cut into batches, and whatever other feeds were selected, loaded or  *)
(* not, in between.                                                        *)
THEOREM ListIsTheFeed == Spec => []ListIsFeedPrefix
<1>1. Init => PrefixInv
    BY DEF Init, PrefixInv
<1>2. Inv /\ PrefixInv => ListIsFeedPrefix
    BY DEF PrefixInv, ListIsFeedPrefix, Inv, Modes
<1> QED BY <1>1, <1>2, PrefixStep, Invariance, PTL DEF Spec

-----------------------------------------------------------------------------
(* When the name of the list is wrong. *)

\* The list was loaded from the feed it is named for.
NamedRight == listed = source /\ source \in Sources

\* Nobody is signed out while the feeds to select are shown.
SelectsSignedIn == view = "feed_list" => auth

LEMMA NameStep ==
    ASSUME NamedRight, Inv, [Next]_vars, ~(SelectFeed /\ ~auth)
    PROVE  NamedRight'
<1> USE DEF NamedRight, listVars
<1>1. CASE FeedView
    BY <1>1 DEF FeedView, NextLoaded, NextFetched, NextFails, Previous, RefreshFeed, Redraw,
                LoadAndRenderFeed, FeedLoads, FeedLoadFails, FeedLoadSkipped
<1>2. CASE SelectFeed
    BY <1>2 DEF SelectFeed, LoadAndRenderFeed, FeedLoads, FeedLoadFails, FeedLoadSkipped,
                Inv, Modes
<1>3. CASE Navigation /\ ~SelectFeed
    BY <1>3 DEF Navigation, OpenThread, OpenFeedList, BackToFeed, OpenSettings,
                BackToThread, OpenDiagnostics, LeaveDiagnostics
<1>4. CASE RefreshDiagnostics \/ SignOut \/ EnterFeed \/ Exit
    BY <1>4, SourcesAssumption
       DEF RefreshDiagnostics, SignOut, EnterFeed, Exit, FeedLoads, FeedLoadFails, FeedLoadSkipped
<1>5. CASE UNCHANGED vars
    BY <1>5 DEF vars
<1> QED BY <1>1, <1>2, <1>3, <1>4, <1>5 DEF Next

LEMMA NamedAtFirst == Init => NamedRight
BY SourcesAssumption DEF Init, NamedRight

(* Nothing but selecting a feed while signed out gives a list the name of  *)
(* another feed: not a refresh or a batch that fails, not signing out, not *)
(* a bootstrap run again from the diagnostics. (feed_result and            *)
(* active_feed_source are written by different handlers)                   *)
THEOREM OnlySignedOutSelectionRenames ==
    Spec => [][listed = source /\ listed' # source' => SelectFeed /\ ~auth]_vars
<1>1. Inv /\ [Next]_vars => [listed = source /\ listed' # source' => SelectFeed /\ ~auth]_vars
    BY NameStep DEF NamedRight, Inv, Modes
<1> QED BY <1>1, Invariance, PTL DEF Spec

(* What the screen says of a list is true of every post in it, as long as  *)
(* feeds are selected signed in only: what the violation of                *)
(* ListIsActiveFeed shows is the only way to it.                           *)
THEOREM ListIsOfItsName == Spec /\ []SelectsSignedIn => []ListIsActiveFeed
<1>1. SelectsSignedIn => ~(SelectFeed /\ ~auth)
    BY DEF SelectsSignedIn, SelectFeed
<1>2. Inv /\ NamedRight /\ SelectsSignedIn /\ [Next]_vars => NamedRight'
    BY <1>1, NameStep
<1>3. NamedRight /\ ListIsFeedPrefix => ListIsActiveFeed
    <2> SUFFICES ASSUME NamedRight, ListIsFeedPrefix, NEW k \in 1..Len(items)
                 PROVE  items[k].src = source
        BY DEF ListIsActiveFeed
    <2> DEFINE last == IF cursor = NoCursor THEN Len(Feeds[source]) ELSE cursor.pos
    <2>1. items # <<>>
        OBVIOUS
    <2>2. items = Batch(source, 0, last)
        BY <2>1 DEF NamedRight, ListIsFeedPrefix
    <2>3. k \in DOMAIN Batch(source, 0, last)
        BY <2>2
    <2> QED BY <2>2, <2>3 DEF Batch
<1> QED BY <1>2, <1>3, NamedAtFirst, ListIsTheFeed, Invariance, PTL DEF Spec

=============================================================================
