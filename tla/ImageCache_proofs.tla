--------------------------- MODULE ImageCache_proofs ---------------------------
(***************************************************************************)
(* Proofs about ImageCache, for any keys, sources and capacity.            *)
(*                                                                         *)
(* The order of accesses is of no account but to the choice of a victim:   *)
(* every step is summed up by what it does to the state and the pixels of  *)
(* each entry (the lemmas ...Effect), and the properties follow from that  *)
(* and from the counts of replies.                                         *)
(***************************************************************************)
EXTENDS ImageCache, FiniteSetTheorems, FunctionTheorems, WellFoundedInduction, TLAPS

Pixels == Sources \cup {NoPixels}

\* An entry whose time of access is not yet a rank.
Accessed(T) == [state : States, img : Pixels, last_accessed : T, rested : BOOLEAN]

\* Entry j is what it was, but for its rank and its rest.
Kept(j) ==
    /\ entries'[j].state = entries[j].state
    /\ entries'[j].img = entries[j].img

-----------------------------------------------------------------------------
(* Operators *)

LEMMA MaxOfTwo ==
    ASSUME NEW a \in Int, NEW b \in Int
    PROVE  /\ Max({a, b}) \in {a, b}
           /\ Max({a, b}) >= a /\ Max({a, b}) >= b
<1>1. \E x \in {a, b} : \A y \in {a, b} : x >= y
    <2>1. CASE a >= b
        BY <2>1
    <2>2. CASE ~(a >= b)
        BY <2>2
    <2> QED BY <2>1, <2>2
<1> QED BY <1>1 DEF Max

LEMMA KeySetFinite ==
    ASSUME NEW D \in SUBSET Keys
    PROVE  IsFiniteSet(D) /\ Cardinality(D) \in Nat
BY KeysFinite, FS_Subset, FS_CardinalityType

LEMMA RanksFinite ==
    ASSUME NEW D \in SUBSET Keys, NEW f, NEW S \in SUBSET {f[j] : j \in D}
    PROVE  Cardinality(S) \in Nat
<1> DEFINE T == {f[j] : j \in D}
           g == [j \in D |-> f[j]]
<1>1. g \in Surjection(D, T)
    BY DEF Surjection
<1>2. IsFiniteSet(D)
    BY KeySetFinite
<1>3. IsFiniteSet(T)
    BY <1>1, <1>2, FS_Surjection
<1>4. IsFiniteSet(S)
    BY <1>3, FS_Subset
<1> QED BY <1>4, FS_CardinalityType

(***************************************************************************)
(* Ranking replaces the times of access by numbers, and nothing else.      *)
(***************************************************************************)
LEMMA RankedKeeps ==
    ASSUME NEW T, NEW D \in SUBSET Keys, NEW c \in [D -> Accessed(T)]
    PROVE  /\ Ranked(c) \in [D -> Entry]
           /\ \A j \in D : Ranked(c)[j].state = c[j].state /\ Ranked(c)[j].img = c[j].img
<1> DEFINE times == {c[j].last_accessed : j \in D}
           rank(k) == Cardinality({n \in times : n < c[k].last_accessed})
<1>1. DOMAIN c = D
    OBVIOUS
<1>2. Ranked(c) = [k \in D |-> [c[k] EXCEPT !.last_accessed = rank(k)]]
    BY <1>1 DEF Ranked
<1>3. \A k \in D : rank(k) \in Nat
    <2> SUFFICES ASSUME NEW k \in D PROVE rank(k) \in Nat
        OBVIOUS
    <2> DEFINE f == [j \in D |-> c[j].last_accessed]
               S == {n \in times : n < c[k].last_accessed}
    <2>1. times = {f[j] : j \in D}
        OBVIOUS
    <2>2. S \in SUBSET {f[j] : j \in D}
        BY <2>1
    <2> HIDE DEF f, S
    <2>3. Cardinality(S) \in Nat
        BY <2>2, RanksFinite
    <2> QED BY <2>3 DEF S
<1> HIDE DEF rank
<1>4. \A k \in D : /\ [c[k] EXCEPT !.last_accessed = rank(k)] \in Entry
                   /\ [c[k] EXCEPT !.last_accessed = rank(k)].state = c[k].state
                   /\ [c[k] EXCEPT !.last_accessed = rank(k)].img = c[k].img
    BY <1>3 DEF Accessed, Entry, Pixels
<1> QED BY <1>2, <1>4

(***************************************************************************)
(* Unless everything is being loaded, there is a victim: some idle entry   *)
(* was accessed no later than any other.                                   *)
(***************************************************************************)
LEMMA VictimExists ==
    ASSUME NEW D \in SUBSET Keys, NEW c \in [D -> Entry],
           NEW k \in D, c[k].state # "Loading"
    PROVE  LruVictims(c) # {}
<1> DEFINE idle == {j \in D : c[j].state # "Loading"}
           before(j) == 0..(c[j].last_accessed - 1)
           befores == {before(j) : j \in idle}
<1>1. \A j \in idle : c[j].last_accessed \in Nat
    BY DEF Entry
<1>2. befores \subseteq FiniteSubsetsOf(Nat) /\ befores # {}
    <2>1. \A j \in idle : before(j) \in SUBSET Nat /\ IsFiniteSet(before(j))
        BY <1>1, FS_Interval
    <2> QED BY <2>1 DEF FiniteSubsetsOf
<1>3. PICK t \in befores : \A u \in befores : ~(<<u, t>> \in StrictSubsetOrdering(Nat))
    <2> HIDE DEF befores
    <2> QED BY <1>2, FS_StrictSubsetOrderingWellFounded, WFMin
<1>4. PICK j \in idle : before(j) = t
    OBVIOUS
<1>5. \A i \in idle : c[j].last_accessed <= c[i].last_accessed
    <2> SUFFICES ASSUME NEW i \in idle, c[i].last_accessed < c[j].last_accessed PROVE FALSE
        BY <1>1
    <2>1. before(i) \subseteq before(j) /\ before(i) # before(j)
        <3>1. c[i].last_accessed \in before(j) \ before(i)
            BY <1>1
        <3> QED BY <1>1, <3>1
    <2>2. before(i) \in befores /\ before(i) \in SUBSET Nat /\ before(j) \in SUBSET Nat
        BY <1>1
    <2>3. <<before(i), before(j)>> \in StrictSubsetOrdering(Nat)
        BY <2>1, <2>2 DEF StrictSubsetOrdering
    <2> QED BY <1>3, <1>4, <2>2, <2>3
<1> QED BY <1>5 DEF LruVictims

(***************************************************************************)
(* Eviction makes room, unless everything is being loaded, and never takes *)
(* an entry that is.                                                       *)
(***************************************************************************)
LEMMA EvictEffect ==
    ASSUME NEW D \in SUBSET Keys, NEW c \in [D -> Entry], NEW d \in EvictIfFull(c)
    PROVE  \E E \in SUBSET D :
             /\ d \in [E -> Entry]
             /\ \A j \in E : d[j] = c[j]
             /\ \A j \in D : c[j].state = "Loading" => j \in E
             /\ \/ Cardinality(E) < MAX_CACHE_ENTRIES
                \/ E = D /\ \A j \in D : c[j].state = "Loading"
                \/ Cardinality(E) = Cardinality(D) - 1
<1>1. DOMAIN c = D
    OBVIOUS
<1>2. CASE Cardinality(D) < MAX_CACHE_ENTRIES
    <2>1. d = c
        BY <1>1, <1>2 DEF EvictIfFull
    <2> QED BY <1>2, <2>1
<1>3. CASE LruVictims(c) = {}
    <2>1. d = c
        BY <1>3 DEF EvictIfFull
    <2>2. \A j \in D : c[j].state = "Loading"
        BY <1>3, VictimExists
    <2> QED BY <2>1, <2>2
<1>4. CASE ~(Cardinality(D) < MAX_CACHE_ENTRIES) /\ LruVictims(c) # {}
    <2>1. PICK k \in LruVictims(c) : d = Restrict(c, D \ {k})
        BY <1>1, <1>4 DEF EvictIfFull
    <2>2. k \in D /\ c[k].state # "Loading"
        BY <1>1 DEF LruVictims
    <2>3. Cardinality(D \ {k}) = Cardinality(D) - 1
        BY <2>2, KeySetFinite, FS_RemoveElement
    <2>4. d = [j \in D \ {k} |-> c[j]]
        BY <2>1 DEF Restrict
    <2>5. /\ d \in [D \ {k} -> Entry]
          /\ \A j \in D \ {k} : d[j] = c[j]
        BY <2>4
    <2>6. \A j \in D : c[j].state = "Loading" => j \in D \ {k}
        BY <2>2
    <2> QED BY <2>3, <2>5, <2>6
<1> QED BY <1>2, <1>3, <1>4

-----------------------------------------------------------------------------
(* What each step does to the entries. *)

Shape == Cached \subseteq Keys /\ entries \in [Cached -> Entry]

NamesAreSources == disk \in [Paths -> Sources \cup {NoFile, TornFile}]

LEMMA PutRanked ==
    ASSUME Shape, NEW k \in Keys, NEW E \in SUBSET (Cached \ {k}),
           NEW c \in [E -> Entry], \A j \in E : c[j] = entries[j],
           NEW S, NEW e \in Accessed(S), entries' = Ranked(Put(c, k, e))
    PROVE  /\ entries' \in [E \cup {k} -> Entry]
           /\ \A j \in E : Kept(j)
           /\ entries'[k].state = e.state /\ entries'[k].img = e.img
<1> DEFINE p == Put(c, k, e)
           D == E \cup {k}
           T == S \cup Nat
<1>1. e \in Accessed(T)
    BY DEF Accessed
<1>2. D \in SUBSET Keys
    BY DEF Shape
<1>3. entries' = Ranked(p)
    OBVIOUS
<1>4. p = [j \in D |-> IF j = k THEN e ELSE c[j]]
    BY DEF Put
<1> HIDE DEF p
<1>5. p[k] = e /\ \A j \in E \ {k} : p[j] = c[j]
    BY <1>4
<1>6. p \in [D -> Accessed(T)]
    <2>1. \A j \in E : c[j] \in Accessed(T)
        BY DEF Accessed, Entry, Pixels
    <2>2. \A j \in D : (IF j = k THEN e ELSE c[j]) \in Accessed(T)
        BY <1>1, <2>1
    <2> QED BY <1>4, <2>2
<1> HIDE DEF T, D
<1>7. /\ Ranked(p) \in [D -> Entry]
      /\ \A j \in D : Ranked(p)[j].state = p[j].state /\ Ranked(p)[j].img = p[j].img
    BY <1>2, <1>6, RankedKeeps
<1>8. \A j \in E : p[j] = entries[j]
    <2> SUFFICES ASSUME NEW j \in E PROVE p[j] = entries[j]
        OBVIOUS
    <2>1. j \in E \ {k}
        OBVIOUS
    <2>2. p[j] = c[j] /\ c[j] = entries[j]
        BY <1>5, <2>1
    <2> QED BY <2>2
<1> QED BY <1>1, <1>3, <1>5, <1>7, <1>8 DEF Kept, D

LEMMA UpdateRanked ==
    ASSUME Shape, NEW k \in Cached, NEW T, NEW e \in Accessed(T),
           entries' = Ranked([entries EXCEPT ![k] = e])
    PROVE  /\ entries' \in [Cached -> Entry]
           /\ \A j \in Cached \ {k} : Kept(j)
           /\ entries'[k].state = e.state /\ entries'[k].img = e.img
<1> DEFINE D == Cached
           S == T \cup Nat
           p == [entries EXCEPT ![k] = e]
<1>1. D \in SUBSET Keys /\ entries \in [D -> Entry] /\ k \in D
    BY DEF Shape
<1>2. p \in [D -> Accessed(S)]
    <2>1. e \in Accessed(S) /\ \A j \in D : entries[j] \in Accessed(S)
        BY <1>1 DEF Accessed, Entry, Pixels
    <2> HIDE DEF D, S
    <2> QED BY <1>1, <2>1
<1>3. p[k] = e /\ \A j \in D \ {k} : p[j] = entries[j]
    BY <1>1
<1> HIDE DEF p, S, D
<1>4. /\ Ranked(p) \in [D -> Entry]
      /\ \A j \in D : Ranked(p)[j].state = p[j].state /\ Ranked(p)[j].img = p[j].img
    BY <1>1, <1>2, RankedKeeps
<1>5. entries' = Ranked(p)
    BY DEF p
<1> QED BY <1>1, <1>3, <1>4, <1>5 DEF Kept, D

\* A lookup that hits, or a failure that rests, changes no entry's state.
LEMMA QuietEffect ==
    ASSUME Shape, NEW k \in Keys, LookupReady(k) \/ FailureRests(k)
    PROVE  /\ entries' \in [Cached -> Entry]
           /\ \A j \in Cached : Kept(j)
<1>1. k \in Cached /\ entries[k] \in Entry
    BY DEF LookupReady, FailureRests, IsState, Shape
<1>2. CASE LookupReady(k)
    <2>1. PICK now : entries' = Ranked([entries EXCEPT ![k].last_accessed = now])
        BY <1>2 DEF LookupReady
    <2> DEFINE e == [entries[k] EXCEPT !.last_accessed = now]
    <2>2. entries' = Ranked([entries EXCEPT ![k] = e])
        BY <2>1
    <2>3. e \in Accessed({now}) /\ e.state = entries[k].state /\ e.img = entries[k].img
        BY <1>1 DEF Entry, Accessed, Pixels
    <2> HIDE DEF e
    <2>4. /\ entries' \in [Cached -> Entry]
          /\ \A j \in Cached \ {k} : Kept(j)
          /\ entries'[k].state = e.state /\ entries'[k].img = e.img
        BY <1>1, <2>2, <2>3, UpdateRanked
    <2> QED BY <2>3, <2>4 DEF Kept
<1>3. CASE FailureRests(k)
    <2>1. entries' = [entries EXCEPT ![k].rested = TRUE]
        BY <1>3 DEF FailureRests
    <2>2. [entries[k] EXCEPT !.rested = TRUE] \in Entry
        BY <1>1 DEF Entry
    <2> QED BY <1>1, <2>1, <2>2 DEF Shape, Kept, Entry
<1> QED BY <1>2, <1>3

LEMMA FailedEffect ==
    ASSUME Shape, NEW k \in Keys, FinishedFailed(k)
    PROVE  /\ k \in Cached /\ entries' \in [Cached -> Entry]
           /\ \A j \in Cached \ {k} : Kept(j)
           /\ entries'[k].state = "Failed" /\ entries'[k].img = entries[k].img
<1>1. k \in Cached /\ entries[k] \in Entry
    BY DEF FinishedFailed, Shape
<1>2. PICK now : entries' = Ranked([entries EXCEPT ![k].state = "Failed",
                                                   ![k].last_accessed = now,
                                                   ![k].rested = FALSE])
    BY DEF FinishedFailed
<1> DEFINE e == [entries[k] EXCEPT !.state = "Failed", !.last_accessed = now, !.rested = FALSE]
<1>3. entries' = Ranked([entries EXCEPT ![k] = e])
    <2>1. [entries EXCEPT ![k].state = "Failed", ![k].last_accessed = now, ![k].rested = FALSE]
          = [entries EXCEPT ![k] = e]
        BY <1>1 DEF Shape
    <2> QED BY <1>2, <2>1
<1>4. e \in Accessed({now}) /\ e.state = "Failed" /\ e.img = entries[k].img
    BY <1>1 DEF Entry, Accessed, Pixels, States
<1> HIDE DEF e
<1> QED BY <1>1, <1>3, <1>4, UpdateRanked

LEMMA ReadyEffect ==
    ASSUME Shape, NEW k \in Keys, FinishedReady(k)
    PROVE  /\ k \in Cached /\ entries' \in [Cached -> Entry]
           /\ \A j \in Cached \ {k} : Kept(j)
           /\ entries'[k].state = "Ready" /\ entries'[k].img = SourceOf[k]
<1>1. k \in Cached /\ entries[k] \in Entry
    BY DEF FinishedReady, Shape
<1>2. PICK now : entries' = Ranked([entries EXCEPT ![k].state = "Ready",
                                                   ![k].img = SourceOf[k],
                                                   ![k].last_accessed = now])
    BY DEF FinishedReady
<1> DEFINE e == [entries[k] EXCEPT !.state = "Ready", !.img = SourceOf[k], !.last_accessed = now]
<1>3. entries' = Ranked([entries EXCEPT ![k] = e])
    <2>1. [entries EXCEPT ![k].state = "Ready", ![k].img = SourceOf[k], ![k].last_accessed = now]
          = [entries EXCEPT ![k] = e]
        BY <1>1 DEF Shape
    <2> QED BY <1>2, <2>1
<1>4. e \in Accessed({now}) /\ e.state = "Ready" /\ e.img = SourceOf[k]
    BY <1>1, NamingAssumption DEF Entry, Accessed, Pixels, States
<1> HIDE DEF e
<1> QED BY <1>1, <1>3, <1>4, UpdateRanked

(***************************************************************************)
(* A lookup that misses keeps the entries E and adds one for its key,      *)
(* ready from the disk or loading.                                         *)
(***************************************************************************)
Room(E, base) ==
    \/ Cardinality(E) < MAX_CACHE_ENTRIES
    \/ E = base /\ \A j \in base : entries[j].state = "Loading"
    \/ Cardinality(E) = Cardinality(base) - 1

MissLeaves(k, E) ==
    /\ entries' \in [E \cup {k} -> Entry]
    /\ \A j \in E : Kept(j)
    /\ \A j \in Cached \ {k} : entries[j].state = "Loading" => j \in E
    /\ Room(E, Cached \ {k})
    /\ \/ /\ entries'[k].state = "Ready" /\ DiskHasImage(PathOf[SourceOf[k]])
          /\ entries'[k].img = disk[PathOf[SourceOf[k]]]
          /\ redraw' = TRUE /\ unseen' = unseen \cup {k} /\ live' = live
       \/ /\ entries'[k].state = "Loading" /\ entries'[k].img = NoPixels
          /\ live' = [live EXCEPT ![k] = @ + 1]
          /\ UNCHANGED <<redraw, unseen>>

LEMMA MissEffect ==
    ASSUME Shape, NamesAreSources, NEW k \in Keys, LookupMiss(k)
    PROVE  \E E \in SUBSET (Cached \ {k}) : MissLeaves(k, E)
<1> DEFINE base == Cached \ {k}
           m == MissingFrom(entries, k)
           found == DiskHasImage(PathOf[SourceOf[k]])
<1>1. m \in [base -> Entry] /\ \A j \in base : m[j] = entries[j]
    BY DEF Shape, MissingFrom, Restrict
<1>2. PICK c \in EvictIfFull(m) : IF found THEN FoundOnDisk(c, k) ELSE FetchStarted(c, k)
    BY DEF LookupMiss
<1>3. base \in SUBSET Keys
    BY DEF Shape
<1> HIDE DEF m, base, found
<1>4. PICK E \in SUBSET base :
             /\ c \in [E -> Entry]
             /\ \A j \in E : c[j] = m[j]
             /\ \A j \in base : m[j].state = "Loading" => j \in E
             /\ \/ Cardinality(E) < MAX_CACHE_ENTRIES
                \/ E = base /\ \A j \in base : m[j].state = "Loading"
                \/ Cardinality(E) = Cardinality(base) - 1
    BY <1>1, <1>2, <1>3, EvictEffect
<1>5. E \in SUBSET (Cached \ {k}) /\ \A j \in E : c[j] = entries[j]
    BY <1>1, <1>4 DEF base
<1>6. \A j \in Cached \ {k} : entries[j].state = "Loading" => j \in E
    BY <1>1, <1>4 DEF base
<1>7. Room(E, Cached \ {k})
    BY <1>1, <1>4 DEF Room, base
<1>8. CASE found
    <2> DEFINE img == disk[PathOf[SourceOf[k]]]
               e(now) == [state |-> "Ready", img |-> img, last_accessed |-> now, rested |-> FALSE]
    <2>1. FoundOnDisk(c, k)
        BY <1>2, <1>8
    <2>2. PICK now : entries' = Ranked(Put(c, k, e(now)))
        BY <2>1 DEF FoundOnDisk
    <2>3. img \in Pixels
        BY <1>8, NamingAssumption DEF Pixels, NamesAreSources, DiskHasImage, found
    <2> HIDE DEF img
    <2>4. e(now) \in Accessed({now}) /\ e(now).state = "Ready" /\ e(now).img = img
        BY <2>3 DEF Accessed, States
    <2> HIDE DEF e
    <2>5. /\ entries' \in [E \cup {k} -> Entry]
          /\ \A j \in E : Kept(j)
          /\ entries'[k].state = "Ready" /\ entries'[k].img = img
        BY <1>4, <1>5, <2>2, <2>4, PutRanked
    <2>6. redraw' = TRUE /\ unseen' = unseen \cup {k} /\ live' = live
        BY <2>1 DEF FoundOnDisk
    <2>7. MissLeaves(k, E)
        BY <1>6, <1>7, <1>8, <2>5, <2>6 DEF MissLeaves, img, found
    <2> QED BY <1>5, <2>7
<1>9. CASE ~found
    <2> DEFINE e(now) == [state |-> "Loading", img |-> NoPixels, last_accessed |-> now, rested |-> FALSE]
    <2>1. FetchStarted(c, k)
        BY <1>2, <1>9
    <2>2. PICK now : entries' = Ranked(Put(c, k, e(now)))
        BY <2>1 DEF FetchStarted
    <2>3. e(now) \in Accessed({now}) /\ e(now).state = "Loading" /\ e(now).img = NoPixels
        BY DEF Accessed, States, Pixels
    <2> HIDE DEF e
    <2>4. /\ entries' \in [E \cup {k} -> Entry]
          /\ \A j \in E : Kept(j)
          /\ entries'[k].state = "Loading" /\ entries'[k].img = NoPixels
        BY <1>4, <1>5, <2>2, <2>3, PutRanked
    <2>5. live' = [live EXCEPT ![k] = @ + 1] /\ UNCHANGED <<redraw, unseen>>
        BY <2>1 DEF FetchStarted
    <2>6. MissLeaves(k, E)
        BY <1>6, <1>7, <2>4, <2>5 DEF MissLeaves
    <2> QED BY <1>5, <2>6
<1> QED BY <1>8, <1>9

-----------------------------------------------------------------------------
(* The invariant *)

Typed ==
    /\ Shape /\ NamesAreSources
    /\ redraw \in BOOLEAN /\ leaked \in BOOLEAN /\ cleared \in BOOLEAN
    /\ live \in [Keys -> 0..MaxReplies] /\ stale \in [Keys -> 0..MaxReplies]
    /\ unseen \subseteq Keys /\ peak \in Nat

Replies(k) == live[k] + stale[k]

\* Until a clear overtakes a reply, a key has one request, while it is
\* loading, and pixels, once it is ready.
FetchedOnce ==
    ~cleared => \A k \in Keys :
        /\ Replies(k) <= 1
        /\ Replies(k) = 1 => IsState(k, "Loading")
        /\ k \in Cached /\ entries[k].state # "Ready" => entries[k].img = NoPixels

\* The cache holds no more than it may, or than was in flight together.
Bounded ==
    /\ Cardinality(Loading) <= peak
    /\ \/ Cardinality(Cached) <= MAX_CACHE_ENTRIES
       \/ Cardinality(Cached) <= peak + 1

Inv == Typed /\ LoadingHasReply /\ ReadySignalled /\ FetchedOnce /\ PixelsFreed /\ Bounded

LEMMA EmptyIsBounded ==
    ASSUME Cached = {}
    PROVE  Loading = {} /\ Cardinality(Loading) = 0 /\ Cardinality(Cached) = 0
BY FS_EmptySet DEF Loading

\* A process that starts, or a cache that was cleared.
LEMMA EmptyInv ==
    ASSUME Typed', entries' = EmptyCache, unseen' = {}, leaked' => cleared',
           cleared' \/ \A k \in Keys : Replies(k)' = 0
    PROVE  Inv'
<1>1. Cached' = {}
    BY DEF Cached, EmptyCache
<1>2. LoadingHasReply' /\ ReadySignalled'
    BY <1>1 DEF LoadingHasReply, ReadySignalled, IsState
<1>3. FetchedOnce'
    <2> SUFFICES ASSUME ~cleared' PROVE FetchedOnce'
        BY DEF FetchedOnce
    <2>1. \A k \in Keys : Replies(k)' = 0
        OBVIOUS
    <2>2. \A k \in Keys : Replies(k)' <= 1 /\ Replies(k)' # 1
        BY <2>1
    <2> QED BY <1>1, <2>2 DEF FetchedOnce
<1>4. PixelsFreed'
    BY DEF PixelsFreed
<1>5. Bounded'
    <2>1. Loading' = {} /\ Cardinality(Loading') = 0 /\ Cardinality(Cached') = 0
        BY <1>1, FS_EmptySet DEF Loading
    <2>2. peak' \in Nat
        BY DEF Typed
    <2>3. 0 <= peak' /\ 0 <= MAX_CACHE_ENTRIES
        BY <2>2, CapacityAssumption
    <2> QED BY <2>1, <2>3 DEF Bounded
<1> QED BY <1>2, <1>3, <1>4, <1>5 DEF Inv

LEMMA InitInv == Init => Inv
<1> SUFFICES ASSUME Init PROVE Inv
    OBVIOUS
<1> USE DEF Init
<1>1. Cached = {}
    BY DEF Cached, EmptyCache
<1>2. Typed
    <2>1. Shape
        BY DEF Shape, Cached, EmptyCache
    <2>2. NamesAreSources
        BY DEF NamesAreSources
    <2>3. live \in [Keys -> 0..MaxReplies] /\ stale \in [Keys -> 0..MaxReplies]
        BY BoundAssumption
    <2> QED BY <2>1, <2>2, <2>3 DEF Typed
<1>3. LoadingHasReply /\ ReadySignalled
    BY <1>1 DEF LoadingHasReply, ReadySignalled, IsState
<1>4. FetchedOnce
    <2>1. \A k \in Keys : Replies(k) = 0
        BY DEF Replies
    <2> QED BY <1>1, <2>1 DEF FetchedOnce
<1>5. PixelsFreed
    BY DEF PixelsFreed
<1>6. Bounded
    BY <1>1, EmptyIsBounded, CapacityAssumption DEF Bounded
<1> QED BY <1>2, <1>3, <1>4, <1>5, <1>6 DEF Inv

\* No entry's state changes, and no reply is asked for or taken.
LEMMA QuietInv ==
    ASSUME Inv, entries' \in [Cached -> Entry], \A j \in Cached : Kept(j),
           UNCHANGED <<live, stale, disk, peak, leaked, cleared>>,
           redraw' \in BOOLEAN, unseen' \subseteq unseen, unseen' = {} \/ redraw' = redraw
    PROVE  Inv'
<1>1. Cached' = Cached
    BY DEF Cached
<1>2. \A k, s : IsState(k, s)' <=> IsState(k, s)
    BY <1>1 DEF IsState, Kept
<1>3. Loading' = Loading
    BY <1>1 DEF Loading, Kept
<1>4. Typed'
    BY <1>1 DEF Inv, Typed, Shape, NamesAreSources
<1>5. LoadingHasReply'
    BY <1>2 DEF Inv, LoadingHasReply
<1>6. ReadySignalled'
    <2>1. CASE unseen' = {}
        BY <2>1 DEF ReadySignalled
    <2>2. CASE redraw' = redraw
        BY <1>2, <2>2 DEF Inv, ReadySignalled
    <2> QED BY <2>1, <2>2
<1>7. FetchedOnce'
    BY <1>1, <1>2 DEF Inv, FetchedOnce, Replies, Kept
<1>8. PixelsFreed' /\ Bounded'
    BY <1>1, <1>3 DEF Inv, PixelsFreed, Bounded
<1> QED BY <1>4, <1>5, <1>6, <1>7, <1>8 DEF Inv

-----------------------------------------------------------------------------
(* Replies *)

LEMMA TakenEffect ==
    ASSUME Typed, NEW k \in Keys, ReplyTaken(k)
    PROVE  /\ live' \in [Keys -> 0..MaxReplies] /\ stale' \in [Keys -> 0..MaxReplies]
           /\ \A j \in Keys \ {k} : live'[j] = live[j] /\ Replies(j)' = Replies(j)
           /\ Replies(k) >= 1 /\ Replies(k)' = Replies(k) - 1 /\ Replies(k) \in Nat
<1>1. /\ live \in [Keys -> 0..MaxReplies] /\ stale \in [Keys -> 0..MaxReplies]
      /\ MaxReplies \in Nat
    BY BoundAssumption DEF Typed
<1>2. live[k] \in 0..MaxReplies /\ stale[k] \in 0..MaxReplies
    BY <1>1
<1>3. CASE live[k] > 0 /\ live' = [live EXCEPT ![k] = @ - 1] /\ stale' = stale
    <2>1. live[k] - 1 \in 0..MaxReplies
        BY <1>1, <1>2, <1>3
    <2>2. live' \in [Keys -> 0..MaxReplies] /\ live'[k] = live[k] - 1
          /\ \A j \in Keys \ {k} : live'[j] = live[j]
        BY <1>1, <1>3, <2>1
    <2> QED BY <1>1, <1>2, <1>3, <2>2 DEF Replies
<1>4. CASE stale[k] > 0 /\ stale' = [stale EXCEPT ![k] = @ - 1] /\ live' = live
    <2>1. stale[k] - 1 \in 0..MaxReplies
        BY <1>1, <1>2, <1>4
    <2>2. stale' \in [Keys -> 0..MaxReplies] /\ stale'[k] = stale[k] - 1
          /\ \A j \in Keys \ {k} : stale'[j] = stale[j]
        BY <1>1, <1>4, <2>1
    <2> QED BY <1>1, <1>2, <1>4, <2>2 DEF Replies
<1> QED BY <1>3, <1>4 DEF ReplyTaken

LEMMA UnwantedInv ==
    ASSUME Inv, NEW k \in Keys, FinishedUnwanted(k)
    PROVE  Inv'
<1>1. /\ ReplyTaken(k) /\ k \notin Cached
      /\ UNCHANGED <<entries, redraw, disk, unseen, peak, leaked, cleared>>
    BY DEF FinishedUnwanted
<1>2. Cached' = Cached /\ Loading' = Loading
    BY <1>1 DEF Cached, Loading
<1>3. \A j, s : IsState(j, s)' <=> IsState(j, s)
    BY <1>1, <1>2 DEF IsState
<1>4. /\ live' \in [Keys -> 0..MaxReplies] /\ stale' \in [Keys -> 0..MaxReplies]
      /\ \A j \in Keys \ {k} : live'[j] = live[j] /\ Replies(j)' = Replies(j)
      /\ Replies(k) >= 1 /\ Replies(k)' = Replies(k) - 1 /\ Replies(k) \in Nat
    BY <1>1, TakenEffect DEF Inv
<1>5. Typed'
    BY <1>1, <1>2, <1>4 DEF Inv, Typed, Shape, NamesAreSources
<1>6. LoadingHasReply'
    BY <1>1, <1>3, <1>4 DEF Inv, LoadingHasReply, IsState
<1>7. ReadySignalled'
    BY <1>1, <1>3 DEF Inv, ReadySignalled
<1>8. FetchedOnce'
    <2> SUFFICES ASSUME ~cleared PROVE FALSE
        BY <1>1 DEF FetchedOnce
    <2>1. Replies(k) <= 1 /\ (Replies(k) = 1 => IsState(k, "Loading"))
        BY DEF Inv, FetchedOnce
    <2>2. Replies(k) = 1
        BY <1>4, <2>1
    <2> QED BY <1>1, <2>1, <2>2 DEF IsState
<1>9. PixelsFreed' /\ Bounded'
    BY <1>1, <1>2 DEF Inv, PixelsFreed, Bounded
<1> QED BY <1>5, <1>6, <1>7, <1>8, <1>9 DEF Inv

\* A reply completes the entry of its key, in whichever way.
LEMMA CompletedInv ==
    ASSUME Inv, NEW k \in Cached, ReplyTaken(k),
           entries' \in [Cached -> Entry], \A j \in Cached \ {k} : Kept(j),
           \/ entries'[k].state = "Failed" /\ entries'[k].img = entries[k].img
              /\ UNCHANGED <<redraw, unseen, leaked>>
           \/ entries'[k].state = "Ready" /\ redraw' = TRUE /\ unseen' = unseen \cup {k}
              /\ leaked' = (leaked \/ entries[k].img # NoPixels),
           NamesAreSources', UNCHANGED <<peak, cleared>>
    PROVE  Inv'
<1>1. Cached' = Cached /\ k \in Keys
    BY DEF Cached, Inv, Typed, Shape
<1>2. Loading' \subseteq Loading \ {k}
    BY <1>1 DEF Loading, Kept
<1>3. /\ live' \in [Keys -> 0..MaxReplies] /\ stale' \in [Keys -> 0..MaxReplies]
      /\ \A j \in Keys \ {k} : live'[j] = live[j] /\ Replies(j)' = Replies(j)
      /\ Replies(k) >= 1 /\ Replies(k)' = Replies(k) - 1 /\ Replies(k) \in Nat
    BY <1>1, TakenEffect DEF Inv
<1>4. ~cleared => Replies(k) = 1 /\ entries[k].img = NoPixels
    <2> SUFFICES ASSUME ~cleared PROVE Replies(k) = 1 /\ entries[k].img = NoPixels
        OBVIOUS
    <2>1. /\ Replies(k) <= 1 /\ (Replies(k) = 1 => IsState(k, "Loading"))
          /\ entries[k].state # "Ready" => entries[k].img = NoPixels
        BY <1>1 DEF Inv, FetchedOnce
    <2>2. Replies(k) = 1
        BY <1>3, <2>1
    <2> QED BY <2>1, <2>2 DEF IsState
<1>5. Typed'
    <2>1. redraw' \in BOOLEAN /\ leaked' \in BOOLEAN /\ cleared' \in BOOLEAN
        BY DEF Inv, Typed
    <2>2. Shape' /\ unseen' \subseteq Keys /\ peak' \in Nat
        BY <1>1 DEF Inv, Typed, Shape
    <2> QED BY <1>3, <2>1, <2>2 DEF Typed
<1>6. LoadingHasReply'
    <2> SUFFICES ASSUME NEW j \in Keys, IsState(j, "Loading")' PROVE live'[j] > 0
        BY DEF LoadingHasReply
    <2>1. j \in Loading'
        BY DEF IsState, Loading
    <2>2. j \in Loading /\ j # k
        BY <1>2, <2>1
    <2>3. live[j] > 0
        BY <2>2 DEF Inv, LoadingHasReply, IsState, Loading
    <2> QED BY <1>3, <2>2, <2>3
<1>7. ReadySignalled'
    <2>1. CASE redraw' = TRUE
        BY <2>1 DEF ReadySignalled
    <2>2. CASE entries'[k].state = "Failed" /\ UNCHANGED <<redraw, unseen>>
        <3>1. \A j : IsState(j, "Ready")' => IsState(j, "Ready")
            BY <1>1, <2>2 DEF IsState, Kept
        <3> QED BY <2>2, <3>1 DEF Inv, ReadySignalled
    <2> QED BY <2>1, <2>2
<1>8. FetchedOnce'
    <2> SUFFICES ASSUME ~cleared, NEW j \in Keys
                 PROVE  /\ Replies(j)' <= 1
                        /\ Replies(j)' = 1 => IsState(j, "Loading")'
                        /\ j \in Cached /\ entries'[j].state # "Ready" => entries'[j].img = NoPixels
        BY <1>1 DEF FetchedOnce
    <2>1. CASE j = k
        <3>1. Replies(j)' = 0
            BY <1>3, <1>4, <2>1
        <3> QED BY <1>4, <2>1, <3>1
    <2>2. CASE j # k
        <3>1. Replies(j)' = Replies(j)
            BY <1>3, <2>2
        <3>2. /\ Replies(j) <= 1 /\ (Replies(j) = 1 => IsState(j, "Loading"))
              /\ j \in Cached /\ entries[j].state # "Ready" => entries[j].img = NoPixels
            BY DEF Inv, FetchedOnce
        <3>3. j \in Cached => Kept(j)
            BY <2>2
        <3> QED BY <1>1, <3>1, <3>2, <3>3 DEF IsState, Kept
    <2> QED BY <2>1, <2>2
<1>9. PixelsFreed'
    BY <1>4 DEF Inv, PixelsFreed
<1>10. Bounded'
    <2>1. IsFiniteSet(Loading) /\ Cardinality(Loading) \in Nat /\ peak \in Nat
        <3>1. Loading \in SUBSET Keys
            BY DEF Loading, Inv, Typed, Shape
        <3> QED BY <3>1, KeySetFinite DEF Inv, Typed
    <2>2. Cardinality(Loading') <= Cardinality(Loading) /\ IsFiniteSet(Loading')
        BY <1>2, <2>1, FS_Subset
    <2>3. Cardinality(Loading') \in Nat /\ Cardinality(Loading) <= peak
        BY <2>2, FS_CardinalityType DEF Inv, Bounded
    <2>4. Cardinality(Loading') <= peak
        BY <2>1, <2>2, <2>3
    <2> QED BY <1>1, <2>4 DEF Inv, Bounded
<1> QED BY <1>5, <1>6, <1>7, <1>8, <1>9, <1>10 DEF Inv

-----------------------------------------------------------------------------
(* Lookups that miss *)

\* Where an entry makes the cache grow, everything else was being loaded.
LEMMA MissBounded ==
    ASSUME Inv, NEW k \in Keys, NEW E \in SUBSET (Cached \ {k}), Room(E, Cached \ {k}),
           Cached' = E \cup {k}, NoteLoading
    PROVE  Bounded' /\ peak' \in Nat
<1> DEFINE base == Cached \ {k}
<1>1. Cached \in SUBSET Keys /\ base \in SUBSET Cached /\ E \in SUBSET Keys /\ Loading \in SUBSET Keys
    BY DEF Inv, Typed, Shape, Loading
<1>2. PICK n \in Nat, old \in Nat, loading \in Nat, was \in Nat :
        /\ IsFiniteSet(E) /\ n = Cardinality(E)
        /\ IsFiniteSet(Cached) /\ old = Cardinality(Cached)
        /\ IsFiniteSet(Loading) /\ loading = Cardinality(Loading)
        /\ was = peak
    <2>1. peak \in Nat
        BY DEF Inv, Typed
    <2> QED BY <1>1, <2>1, KeySetFinite
<1>3. Cardinality(E \cup {k}) = n + 1
    BY <1>2, FS_AddElement
<1>4. PICK loading2 \in Nat : loading2 = Cardinality(Loading')
    <2>1. Loading' \in SUBSET Keys
        BY <1>1 DEF Loading
    <2> QED BY <2>1, KeySetFinite
<1>5. loading <= was /\ (old <= MAX_CACHE_ENTRIES \/ old <= was + 1)
    BY <1>2 DEF Inv, Bounded
<1>6. PICK top \in Nat : top = peak' /\ was <= top /\ loading2 <= top
    <2>1. Max({was, loading2}) \in {was, loading2} /\ Max({was, loading2}) >= was
          /\ Max({was, loading2}) >= loading2
        BY MaxOfTwo
    <2>2. peak' = Max({was, loading2})
        BY <1>2, <1>4 DEF NoteLoading
    <2> QED BY <2>1, <2>2
<1>7. was <= top /\ loading2 <= top
    BY <1>6
<1>8. n + 1 <= MAX_CACHE_ENTRIES \/ n + 1 <= top + 1
    <2>1. CASE n < MAX_CACHE_ENTRIES
        BY <2>1, CapacityAssumption
    <2>2. CASE E = base /\ \A j \in base : entries[j].state = "Loading"
        <3>1. E \in SUBSET Loading
            BY <2>2 DEF Loading
        <3>2. n <= loading
            BY <1>2, <3>1, FS_Subset
        <3> QED BY <1>5, <1>7, <3>2
    <2>3. CASE n = Cardinality(base) - 1
        <3>1. IsFiniteSet(base) /\ Cardinality(base) <= old
            BY <1>1, <1>2, FS_Subset
        <3>2. Cardinality(base) \in Nat
            BY <3>1, FS_CardinalityType
        <3>3. n + 1 <= old
            BY <2>3, <3>1, <3>2
        <3> QED BY <1>5, <1>7, <3>3, CapacityAssumption
    <2> QED BY <1>2, <2>1, <2>2, <2>3 DEF Room
<1> QED BY <1>3, <1>4, <1>6, <1>7, <1>8 DEF Bounded

LEMMA MissInv ==
    ASSUME Inv, NEW k \in Keys, LookupMiss(k)
    PROVE  Inv'
<1>1. /\ Misses(k) /\ live[k] + stale[k] < MaxReplies
      /\ leaked' = (leaked \/ (k \in Cached /\ entries[k].img # NoPixels))
      /\ NoteLoading /\ UNCHANGED <<stale, disk, cleared>>
    BY DEF LookupMiss
<1>2. Shape /\ NamesAreSources
    BY DEF Inv, Typed
<1>3. PICK E \in SUBSET (Cached \ {k}) : MissLeaves(k, E)
    BY <1>2, MissEffect
<1>4. entries' \in [E \cup {k} -> Entry] /\ \A j \in E : Kept(j)
    BY <1>3 DEF MissLeaves
<1>5. Cached' = E \cup {k} /\ E \subseteq Cached /\ k \notin E
    BY <1>4 DEF Cached
<1>6. Bounded' /\ peak' \in Nat
    BY <1>1, <1>3, <1>5, MissBounded DEF MissLeaves
<1>7. \/ /\ entries'[k].state = "Ready" /\ redraw' = TRUE /\ unseen' = unseen \cup {k} /\ live' = live
      \/ /\ entries'[k].state = "Loading" /\ entries'[k].img = NoPixels
         /\ live' = [live EXCEPT ![k] = @ + 1] /\ UNCHANGED <<redraw, unseen>>
    BY <1>3 DEF MissLeaves
<1>8. /\ live \in [Keys -> 0..MaxReplies] /\ stale \in [Keys -> 0..MaxReplies]
      /\ live[k] \in Nat /\ stale[k] \in Nat /\ MaxReplies \in Nat
    BY BoundAssumption DEF Inv, Typed
<1>9. ~IsState(k, "Loading") /\ ~IsState(k, "Ready")
    BY <1>1 DEF Misses, IsState
<1>10. live' \in [Keys -> 0..MaxReplies] /\ (\A j \in Keys \ {k} : live'[j] = live[j])
    <2>1. CASE live' = live
        BY <1>8, <2>1
    <2>2. CASE live' = [live EXCEPT ![k] = @ + 1]
        <3>1. live[k] + 1 \in 0..MaxReplies
            BY <1>1, <1>8
        <3> QED BY <1>8, <2>2, <3>1
    <2> QED BY <1>7, <2>1, <2>2
<1>11. Typed'
    <2>1. redraw' \in BOOLEAN /\ unseen' \subseteq Keys
        BY <1>7 DEF Inv, Typed
    <2>2. leaked' \in BOOLEAN /\ cleared' \in BOOLEAN
        BY <1>1 DEF Inv, Typed
    <2>3. Shape' /\ NamesAreSources'
        BY <1>1, <1>2, <1>4, <1>5 DEF Shape, NamesAreSources
    <2> QED BY <1>1, <1>6, <1>8, <1>10, <2>1, <2>2, <2>3 DEF Typed
<1>12. LoadingHasReply'
    <2> SUFFICES ASSUME NEW j \in Keys, IsState(j, "Loading")' PROVE live'[j] > 0
        BY DEF LoadingHasReply
    <2>1. CASE j = k
        <3>1. live' = [live EXCEPT ![k] = @ + 1]
            BY <1>7, <2>1 DEF IsState
        <3> QED BY <1>8, <2>1, <3>1
    <2>2. CASE j # k
        <3>1. IsState(j, "Loading")
            BY <1>4, <1>5, <2>2 DEF IsState, Kept
        <3> QED BY <1>10, <2>2, <3>1 DEF Inv, LoadingHasReply
    <2> QED BY <2>1, <2>2
<1>13. ReadySignalled'
    <2>1. CASE redraw' = TRUE
        BY <2>1 DEF ReadySignalled
    <2>2. CASE entries'[k].state = "Loading" /\ UNCHANGED <<redraw, unseen>>
        <3>1. \A j : IsState(j, "Ready")' => IsState(j, "Ready")
            BY <1>4, <1>5, <2>2 DEF IsState, Kept
        <3> QED BY <2>2, <3>1 DEF Inv, ReadySignalled
    <2> QED BY <1>7, <2>1, <2>2
<1>14. ~cleared => Replies(k) = 0
    <2> SUFFICES ASSUME ~cleared PROVE Replies(k) = 0
        OBVIOUS
    <2>1. Replies(k) <= 1 /\ Replies(k) # 1
        BY <1>9 DEF Inv, FetchedOnce
    <2>2. Replies(k) \in Nat
        BY <1>8 DEF Replies
    <2> QED BY <2>1, <2>2
<1>15. FetchedOnce'
    <2> SUFFICES ASSUME ~cleared, NEW j \in Keys
                 PROVE  /\ Replies(j)' <= 1
                        /\ Replies(j)' = 1 => IsState(j, "Loading")'
                        /\ j \in Cached' /\ entries'[j].state # "Ready" => entries'[j].img = NoPixels
        BY <1>1 DEF FetchedOnce
    <2>1. CASE j = k
        <3>1. CASE entries'[k].state = "Ready" /\ live' = live
            <4>1. Replies(k)' = 0
                BY <1>1, <1>14, <3>1 DEF Replies
            <4>2. j \in Cached' /\ entries'[j].state # "Ready" => entries'[j].img = NoPixels
                BY <2>1, <3>1
            <4>3. Replies(j)' = 0
                BY <2>1, <4>1
            <4>4. Replies(j)' <= 1 /\ Replies(j)' # 1
                BY <4>3
            <4> QED BY <4>2, <4>4
        <3>2. CASE entries'[k].state = "Loading" /\ entries'[k].img = NoPixels
                   /\ live' = [live EXCEPT ![k] = @ + 1]
            <4>1. live'[k] = live[k] + 1
                BY <1>8, <3>2
            <4>2. Replies(k)' = 1
                BY <1>1, <1>8, <1>14, <4>1 DEF Replies
            <4>3. IsState(k, "Loading")'
                BY <1>5, <3>2 DEF IsState
            <4> QED BY <2>1, <3>2, <4>2, <4>3
        <3> QED BY <1>7, <3>1, <3>2
    <2>2. CASE j # k
        <3>1. Replies(j)' = Replies(j)
            BY <1>1, <1>10, <2>2 DEF Replies
        <3>2. /\ Replies(j) <= 1 /\ (Replies(j) = 1 => IsState(j, "Loading"))
              /\ j \in Cached /\ entries[j].state # "Ready" => entries[j].img = NoPixels
            BY DEF Inv, FetchedOnce
        <3>3. j \in Cached' => j \in Cached /\ Kept(j)
            BY <1>4, <1>5, <2>2
        <3>4. IsState(j, "Loading") => IsState(j, "Loading")'
            <4> SUFFICES ASSUME IsState(j, "Loading") PROVE IsState(j, "Loading")'
                OBVIOUS
            <4>1. j \in Cached \ {k} /\ entries[j].state = "Loading"
                BY <2>2 DEF IsState
            <4>2. j \in E
                BY <1>3, <4>1 DEF MissLeaves
            <4> QED BY <1>4, <1>5, <4>1, <4>2 DEF IsState, Kept
        <3> QED BY <3>1, <3>2, <3>3, <3>4 DEF Kept
    <2> QED BY <2>1, <2>2
<1>16. PixelsFreed'
    <2> SUFFICES ASSUME leaked', ~cleared PROVE FALSE
        BY <1>1 DEF PixelsFreed
    <2>1. leaked \/ (k \in Cached /\ entries[k].img # NoPixels)
        BY <1>1
    <2>2. k \in Cached /\ entries[k].img # NoPixels
        BY <2>1 DEF Inv, PixelsFreed
    <2>3. entries[k].state # "Ready"
        BY <1>9, <2>2 DEF IsState
    <2> QED BY <2>2, <2>3 DEF Inv, FetchedOnce
<1> QED BY <1>6, <1>11, <1>12, <1>13, <1>15, <1>16 DEF Inv

-----------------------------------------------------------------------------
(* The steps *)

LEMMA FailedInv ==
    ASSUME Inv, NEW k \in Keys, FinishedFailed(k)
    PROVE  Inv'
<1>1. Shape /\ NamesAreSources
    BY DEF Inv, Typed
<1>2. /\ k \in Cached /\ entries' \in [Cached -> Entry]
      /\ \A j \in Cached \ {k} : Kept(j)
      /\ entries'[k].state = "Failed" /\ entries'[k].img = entries[k].img
    BY <1>1, FailedEffect
<1>3. ReplyTaken(k) /\ UNCHANGED <<redraw, disk, unseen, peak, leaked, cleared>>
    BY DEF FinishedFailed
<1>4. NamesAreSources'
    BY <1>1, <1>3 DEF NamesAreSources
<1> QED BY <1>2, <1>3, <1>4, CompletedInv

LEMMA WrittenIsSource ==
    ASSUME Typed, NEW k \in Keys, disk' \in Written(SourceOf[k])
    PROVE  NamesAreSources'
<1>1. disk \in [Paths -> Sources \cup {NoFile, TornFile}]
    BY DEF Typed, NamesAreSources
<1>2. SourceOf[k] \in Sources /\ PathOf[SourceOf[k]] \in Paths
    BY NamingAssumption
<1>3. PICK f \in {SourceOf[k], TornFile, disk[PathOf[SourceOf[k]]]} :
        disk' = [disk EXCEPT ![PathOf[SourceOf[k]]] = f]
    BY DEF Written
<1>4. f \in Sources \cup {NoFile, TornFile}
    BY <1>1, <1>2
<1> QED BY <1>1, <1>3, <1>4 DEF NamesAreSources

LEMMA ReadyInv ==
    ASSUME Inv, NEW k \in Keys, FinishedReady(k)
    PROVE  Inv'
<1>1. Shape
    BY DEF Inv, Typed
<1>2. /\ k \in Cached /\ entries' \in [Cached -> Entry]
      /\ \A j \in Cached \ {k} : Kept(j)
      /\ entries'[k].state = "Ready"
    BY <1>1, ReadyEffect
<1>3. /\ ReplyTaken(k) /\ redraw' = TRUE /\ unseen' = unseen \cup {k}
      /\ leaked' = (leaked \/ entries[k].img # NoPixels)
      /\ disk' \in Written(SourceOf[k]) /\ UNCHANGED <<peak, cleared>>
    BY DEF FinishedReady
<1>4. NamesAreSources'
    BY <1>3, WrittenIsSource DEF Inv
<1> QED BY <1>2, <1>3, <1>4, CompletedInv

\* The cache is emptied with a process, or under its replies.
LEMMA NewProcessInv ==
    ASSUME Inv, NewProcess, NamesAreSources'
    PROVE  Inv'
<1>1. /\ entries' = EmptyCache /\ redraw' = FALSE
      /\ live' = [k \in Keys |-> 0] /\ stale' = [k \in Keys |-> 0]
      /\ unseen' = {} /\ peak' = 0 /\ leaked' = FALSE /\ cleared' = FALSE
    BY DEF NewProcess
<1>2. Shape'
    BY <1>1 DEF Shape, Cached, EmptyCache
<1>3. live' \in [Keys -> 0..MaxReplies] /\ stale' \in [Keys -> 0..MaxReplies]
    BY <1>1, BoundAssumption
<1>4. Typed'
    BY <1>1, <1>2, <1>3 DEF Typed
<1>5. \A k \in Keys : Replies(k)' = 0
    BY <1>1 DEF Replies
<1> QED BY <1>1, <1>4, <1>5, EmptyInv

LEMMA ClearInv ==
    ASSUME Inv, Clear
    PROVE  Inv'
<1>1. /\ entries' = EmptyCache /\ redraw' = FALSE /\ unseen' = {}
      /\ stale' = [k \in Keys |-> Replies(k)] /\ live' = [k \in Keys |-> 0]
      /\ disk' = [p \in Paths |-> NoFile]
      /\ UNCHANGED <<peak, leaked>>
      /\ cleared' = (cleared \/ \E k \in Keys : Replies(k) > 0)
      /\ \A k \in Keys : Replies(k) < MaxReplies
    BY DEF Clear, Replies
<1>2. Shape' /\ NamesAreSources'
    BY <1>1 DEF Shape, Cached, EmptyCache, NamesAreSources
<1>3. \A k \in Keys : Replies(k) \in 0..MaxReplies
    <2> SUFFICES ASSUME NEW k \in Keys PROVE Replies(k) \in 0..MaxReplies
        OBVIOUS
    <2>1. live[k] \in Nat /\ stale[k] \in Nat /\ MaxReplies \in Nat
        BY BoundAssumption DEF Inv, Typed
    <2>2. live[k] + stale[k] < MaxReplies
        BY <1>1 DEF Replies
    <2> QED BY <2>1, <2>2 DEF Replies
<1>4. live' \in [Keys -> 0..MaxReplies] /\ stale' \in [Keys -> 0..MaxReplies]
    BY <1>1, <1>3, BoundAssumption
<1>5. Typed'
    BY <1>1, <1>2, <1>4 DEF Inv, Typed
<1>6. leaked' => cleared'
    BY <1>1 DEF Inv, PixelsFreed
<1>7. cleared' \/ \A k \in Keys : Replies(k)' = 0
    <2> SUFFICES ASSUME ~cleared', NEW k \in Keys PROVE Replies(k)' = 0
        OBVIOUS
    <2>1. ~(Replies(k) > 0)
        BY <1>1
    <2>2. Replies(k) = 0
        BY <1>3, <2>1, BoundAssumption
    <2>3. live'[k] = 0 /\ stale'[k] = 0
        BY <1>1, <2>2
    <2> QED BY <2>3 DEF Replies
<1> QED BY <1>1, <1>5, <1>6, <1>7, EmptyInv

LEMMA NextInv == Inv /\ [Next]_vars => Inv'
<1> SUFFICES ASSUME Inv, [Next]_vars PROVE Inv'
    OBVIOUS
<1>1. ASSUME NEW k \in Keys, LookupReady(k) \/ FailureRests(k) PROVE Inv'
    <2>1. Shape
        BY DEF Inv, Typed
    <2>2. entries' \in [Cached -> Entry] /\ \A j \in Cached : Kept(j)
        BY <1>1, <2>1, QuietEffect
    <2>3. UNCHANGED <<redraw, live, stale, disk, unseen, peak, leaked, cleared>>
        BY <1>1 DEF LookupReady, FailureRests
    <2> QED BY <2>2, <2>3, QuietInv DEF Inv, Typed
<1>2. ASSUME NEW k \in Keys, LookupMiss(k) PROVE Inv'
    BY <1>2, MissInv
<1>3. ASSUME NEW k \in Keys, Finished(k) PROVE Inv'
    BY <1>3, UnwantedInv, FailedInv, ReadyInv DEF Finished
<1>4. CASE RedrawNeeded
    <2>1. entries' \in [Cached -> Entry] /\ \A j \in Cached : Kept(j)
        BY <1>4 DEF RedrawNeeded, Inv, Typed, Shape, Kept
    <2> QED BY <1>4, <2>1, QuietInv DEF RedrawNeeded
<1>5. CASE Clear
    BY <1>5, ClearInv
<1>6. CASE Exit \/ Crash
    <2>1. disk \in [Paths -> Sources \cup {NoFile, TornFile}]
        BY DEF Inv, Typed, NamesAreSources
    <2>2. NamesAreSources'
        BY <1>6, <2>1 DEF Exit, Crash, NamesAreSources
    <2> QED BY <1>6, <2>2, NewProcessInv DEF Exit, Crash
<1>7. CASE UNCHANGED vars
    <2>1. entries' \in [Cached -> Entry] /\ \A j \in Cached : Kept(j)
        BY <1>7 DEF vars, Inv, Typed, Shape, Kept
    <2>2. UNCHANGED <<redraw, live, stale, disk, unseen, peak, leaked, cleared>>
        BY <1>7 DEF vars
    <2> QED BY <2>1, <2>2, QuietInv DEF Inv, Typed
<1> QED BY <1>1, <1>2, <1>3, <1>4, <1>5, <1>6, <1>7 DEF Next, Lookup

LEMMA Invariance == Spec => []Inv
BY InitInv, NextInv, PTL DEF Spec

-----------------------------------------------------------------------------
(* What the run checks, for any keys, sources and capacity. *)

(* Every variable keeps to its domain. *)
THEOREM TypeCorrect == Spec => []TypeOK
<1>1. Inv => TypeOK
    BY DEF Inv, Typed, Shape, NamesAreSources, TypeOK
<1> QED BY <1>1, Invariance, PTL

(* An entry that says Loading has a request under way, so that something   *)
(* will complete it: whatever is evicted, retried, cleared or answered     *)
(* late.                                                                   *)
THEOREM NothingLoadsForNobody == Spec => []LoadingHasReply
<1>1. Inv => LoadingHasReply
    BY DEF Inv
<1> QED BY <1>1, Invariance, PTL

(* An image that became ready is announced to the main loop.               *)
THEOREM ArrivalIsSignalled == Spec => []ReadySignalled
<1>1. Inv => ReadySignalled
    BY DEF Inv
<1> QED BY <1>1, Invariance, PTL

(* No pixels leave the cache without being freed, but after a clear under  *)
(* replies in flight.                                                      *)
THEOREM NothingLeaks == Spec => []PixelsFreed
<1>1. Inv => PixelsFreed
    BY DEF Inv
<1> QED BY <1>1, Invariance, PTL

(* Nor is a key asked for again while its reply is under way.              *)
THEOREM NothingFetchedTwice == Spec => []SingleFetch
<1>1. Inv => SingleFetch
    <2> SUFFICES ASSUME Inv, NEW k \in Keys, live[k] + stale[k] > 1, ~cleared PROVE FALSE
        BY DEF SingleFetch
    <2>1. Replies(k) <= 1
        BY DEF Inv, FetchedOnce
    <2>2. live[k] \in Nat /\ stale[k] \in Nat
        BY BoundAssumption DEF Inv, Typed
    <2> QED BY <2>1, <2>2 DEF Replies
<1> QED BY <1>1, Invariance, PTL

(* The cache outgrows its limit only by what was in flight together.       *)
THEOREM CacheIsBounded == Spec => []SizeBounded
<1>1. Inv => SizeBounded
    <2> SUFFICES ASSUME Inv PROVE SizeBounded
        OBVIOUS
    <2>1. Cached \in SUBSET Keys /\ peak \in Nat
        BY DEF Inv, Typed, Shape
    <2>2. PICK n \in Nat, top \in Nat : n = Cardinality(Cached) /\ top = peak + 1
        BY <2>1, KeySetFinite
    <2>3. n <= MAX_CACHE_ENTRIES \/ n <= top
        BY <2>2 DEF Inv, Bounded
    <2>4. Max({MAX_CACHE_ENTRIES, top}) \in {MAX_CACHE_ENTRIES, top}
          /\ Max({MAX_CACHE_ENTRIES, top}) >= MAX_CACHE_ENTRIES /\ Max({MAX_CACHE_ENTRIES, top}) >= top
        BY CapacityAssumption, MaxOfTwo
    <2>5. n <= Max({MAX_CACHE_ENTRIES, top})
        BY <2>3, <2>4, CapacityAssumption
    <2> QED BY <2>2, <2>5 DEF SizeBounded
<1> QED BY <1>1, Invariance, PTL

-----------------------------------------------------------------------------
(* Own images.  The file of a source is named by a hash of its url alone,  *)
(* so what a file holds, and what a key is shown, is an image whose name   *)
(* is the same.                                                            *)

NamedAs(img, p) == img \in Sources /\ PathOf[img] = p

FilesHoldTheirNames == \A p \in Paths : disk[p] \in {NoFile, TornFile} \/ NamedAs(disk[p], p)

(* A ready entry never shows a piece of a file, nor the pixels of an image *)
(* that lies in another file: if it is not the one its key asked for, then *)
(* the urls of the two have the same hash.                                 *)
(* (image_load_cached and image_write_cache agree on the name, and a short *)
(* read is no image; nothing compares the urls themselves)                 *)
ShowsImageOfItsFile ==
    \A k \in Keys : IsState(k, "Ready") => NamedAs(entries[k].img, PathOf[SourceOf[k]])

NameInv == FilesHoldTheirNames /\ ShowsImageOfItsFile

LEMMA SourcesAreNamed ==
    ASSUME NEW k \in Keys
    PROVE  SourceOf[k] \in Sources /\ PathOf[SourceOf[k]] \in Paths
BY NamingAssumption

LEMMA FilesKeepTheirNames ==
    ASSUME Inv, FilesHoldTheirNames, [Next]_vars
    PROVE  FilesHoldTheirNames'
<1> SUFFICES ASSUME NEW p \in Paths PROVE disk'[p] \in {NoFile, TornFile} \/ NamedAs(disk'[p], p)
    BY DEF FilesHoldTheirNames, NamedAs
<1>1. disk \in [Paths -> Sources \cup {NoFile, TornFile}]
    BY DEF Inv, Typed, NamesAreSources
<1>2. disk[p] \in {NoFile, TornFile} \/ NamedAs(disk[p], p)
    BY DEF FilesHoldTheirNames
<1>3. CASE disk' = disk
    BY <1>2, <1>3
<1>4. ASSUME NEW k \in Keys, FinishedReady(k)
      PROVE  disk'[p] \in {NoFile, TornFile} \/ NamedAs(disk'[p], p)
    <2> DEFINE t == SourceOf[k]
    <2>1. PICK f \in {t, TornFile, disk[PathOf[t]]} : disk' = [disk EXCEPT ![PathOf[t]] = f]
        BY <1>4 DEF FinishedReady, Written
    <2>2. t \in Sources
        BY SourcesAreNamed
    <2> HIDE DEF t
    <2>3. CASE p = PathOf[t]
        BY <1>1, <1>2, <2>1, <2>2, <2>3 DEF NamedAs
    <2>4. CASE p # PathOf[t]
        BY <1>1, <1>2, <2>1, <2>4
    <2> QED BY <2>3, <2>4
<1>5. CASE Clear
    BY <1>5 DEF Clear
<1>6. CASE Exit
    BY <1>1, <1>2, <1>6 DEF Exit
<1>7. CASE Crash
    BY <1>1, <1>2, <1>7 DEF Crash
<1>8. ASSUME NEW k \in Keys,
             Lookup(k) \/ FailureRests(k) \/ FinishedUnwanted(k) \/ FinishedFailed(k)
      PROVE  disk' = disk
    BY <1>8 DEF Lookup, LookupReady, LookupMiss, FailureRests, FinishedUnwanted, FinishedFailed
<1>9. CASE RedrawNeeded \/ UNCHANGED vars
    <2>1. disk' = disk
        BY <1>9 DEF RedrawNeeded, vars
    <2> QED BY <1>3, <2>1
<1> QED BY <1>3, <1>4, <1>5, <1>6, <1>7, <1>8, <1>9 DEF Next, Finished

LEMMA ImagesKeepTheirNames ==
    ASSUME Inv, NameInv, [Next]_vars
    PROVE  ShowsImageOfItsFile'
<1>1. Shape /\ NamesAreSources
    BY DEF Inv, Typed
<1> DEFINE Own(j) == IsState(j, "Ready") => NamedAs(entries[j].img, PathOf[SourceOf[j]])
<1>2. \A j \in Keys : Own(j)
    BY DEF NameInv, ShowsImageOfItsFile
<1>3. ASSUME NEW j \in Keys, j \in Cached' => j \in Cached /\ Kept(j) PROVE Own(j)'
    BY <1>2, <1>3 DEF IsState, Kept
<1>4. ASSUME entries' \in [Cached -> Entry], \A j \in Cached : Kept(j) PROVE ShowsImageOfItsFile'
    <2>1. Cached' = Cached
        BY <1>4 DEF Cached
    <2> QED BY <1>3, <1>4, <2>1 DEF ShowsImageOfItsFile
<1>5. ASSUME entries' = EmptyCache PROVE ShowsImageOfItsFile'
    BY <1>5 DEF ShowsImageOfItsFile, IsState, Cached, EmptyCache
<1>6. ASSUME NEW k \in Keys, LookupReady(k) \/ FailureRests(k) PROVE ShowsImageOfItsFile'
    BY <1>1, <1>4, <1>6, QuietEffect
<1>7. ASSUME NEW k \in Keys, LookupMiss(k) PROVE ShowsImageOfItsFile'
    <2>1. PICK E \in SUBSET (Cached \ {k}) : MissLeaves(k, E)
        BY <1>1, <1>7, MissEffect
    <2>2. entries' \in [E \cup {k} -> Entry] /\ \A j \in E : Kept(j)
        BY <2>1 DEF MissLeaves
    <2>3. Cached' = E \cup {k}
        BY <2>2 DEF Cached
    <2>4. \A j \in Keys \ {k} : Own(j)'
        BY <1>3, <2>2, <2>3
    <2>5. Own(k)'
        <3> SUFFICES ASSUME IsState(k, "Ready")' PROVE NamedAs(entries'[k].img, PathOf[SourceOf[k]])
            BY DEF NamedAs
        <3>1. DiskHasImage(PathOf[SourceOf[k]]) /\ entries'[k].img = disk[PathOf[SourceOf[k]]]
            BY <2>1 DEF IsState, MissLeaves
        <3> QED BY <3>1, SourcesAreNamed DEF NameInv, FilesHoldTheirNames, DiskHasImage
    <2> QED BY <2>4, <2>5 DEF ShowsImageOfItsFile
<1>8. ASSUME NEW k \in Keys, FinishedUnwanted(k) PROVE ShowsImageOfItsFile'
    BY <1>1, <1>4, <1>8 DEF FinishedUnwanted, Shape, Kept
<1>9. ASSUME NEW k \in Keys, FinishedFailed(k) \/ FinishedReady(k) PROVE ShowsImageOfItsFile'
    <2>1. /\ k \in Cached /\ entries' \in [Cached -> Entry]
          /\ \A j \in Cached \ {k} : Kept(j)
          /\ entries'[k].state = "Failed" \/ entries'[k].img = SourceOf[k]
        BY <1>1, <1>9, FailedEffect, ReadyEffect
    <2>2. Cached' = Cached
        BY <2>1 DEF Cached
    <2>3. \A j \in Keys \ {k} : Own(j)'
        BY <1>3, <2>1, <2>2
    <2>4. Own(k)'
        BY <2>1, SourcesAreNamed DEF IsState, NamedAs
    <2> QED BY <2>3, <2>4 DEF ShowsImageOfItsFile
<1>10. CASE RedrawNeeded \/ UNCHANGED vars
    <2>1. entries' = entries
        BY <1>10 DEF RedrawNeeded, vars
    <2> QED BY <1>1, <1>4, <2>1 DEF Shape, Kept
<1>11. CASE Clear \/ Exit \/ Crash
    BY <1>5, <1>11 DEF Clear, Exit, Crash, NewProcess
<1> QED BY <1>6, <1>7, <1>8, <1>9, <1>10, <1>11 DEF Next, Lookup, Finished

(* For any hash whatever.                                                  *)
THEOREM ImageOfItsFileShown == Spec => []ShowsImageOfItsFile
<1>1. Init => NameInv
    BY DEF Init, NameInv, FilesHoldTheirNames, ShowsImageOfItsFile, IsState, Cached, EmptyCache
<1>2. Inv /\ NameInv /\ [Next]_vars => NameInv'
    BY FilesKeepTheirNames, ImagesKeepTheirNames DEF NameInv
<1>3. NameInv => ShowsImageOfItsFile
    BY DEF NameInv
<1> QED BY <1>1, <1>2, <1>3, Invariance, PTL DEF Spec

FileNamesDiffer == \A s, t \in Sources : PathOf[s] = PathOf[t] => s = t

(* And if no two urls have the same hash, a ready entry shows the image    *)
(* its key asked for, through torn writes, crashes and clears.             *)
THEOREM OwnImageShown ==
    ASSUME FileNamesDiffer
    PROVE  Spec => []ShowsOwnImage
<1>1. ShowsImageOfItsFile => ShowsOwnImage
    BY SourcesAreNamed DEF FileNamesDiffer, ShowsImageOfItsFile, ShowsOwnImage, NamedAs
<1> QED BY <1>1, ImageOfItsFileShown, PTL

=============================================================================
