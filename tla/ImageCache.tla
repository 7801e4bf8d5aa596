------------------------------- MODULE ImageCache -------------------------------
(***************************************************************************)
(* util/image_cache.cpp: the in-memory image cache, the asynchronous       *)
(* fetches that fill it, and the disk cache below it.  A key stands for    *)
(* one (kind, url, size) triple; a source for the (kind, url) pair that is *)
(* fetched and names the file on disk.  Callbacks run whenever the Qt      *)
(* event loop does, hence between any two calls of the application.        *)
(***************************************************************************)
EXTENDS Integers, FiniteSets, FiniteSetsExt, Functions

CONSTANTS
    Keys,         \* memory cache keys
    Sources,      \* (kind, url) pairs
    Paths,        \* file names in the cache directory
    SourceOf,     \* SourceOf[k]: what key k is a scaled variant of
    PathOf,       \* PathOf[s]: the hash-derived file name of source s
    Avatars,      \* the sources of kind avatar
    MAX_CACHE_ENTRIES,
    MaxReplies,   \* bound: replies in flight for one key
    NoPixels, NoFile, TornFile

ASSUME KeysFinite == IsFiniteSet(Keys)
ASSUME CapacityAssumption == MAX_CACHE_ENTRIES \in Nat \ {0}
ASSUME BoundAssumption == MaxReplies \in Nat \ {0}
ASSUME NamingAssumption ==
    /\ SourceOf \in [Keys -> Sources]
    /\ PathOf \in [Sources -> Paths]
    /\ Avatars \subseteq Sources
    /\ {NoPixels, NoFile, TornFile} \cap Sources = {}
    /\ NoFile # TornFile

VARIABLES
    entries,  \* s_cache: a function from the cached keys to cache_entry_t
    redraw,   \* s_redraw_needed
    live,     \* live[k]: replies in flight, requested since the last clear
    stale,    \* stale[k]: replies in flight, requested before it
    disk,     \* disk[p]: the source whose pixels file p holds
    unseen,   \* history: keys that became ready since the flag was last read
    peak,     \* history: most entries that were loading at the same time
    leaked,   \* history: some pixel buffer became unreachable without a free
    cleared   \* history: the cache was cleared while replies were in flight

vars == <<entries, redraw, live, stale, disk, unseen, peak, leaked, cleared>>

-----------------------------------------------------------------------------
States == {"Loading", "Ready", "Failed"}

(* last_accessed is kept as a rank: 0 is the oldest access.  rested tells  *)
(* that a failed entry is older than kFailedRetryDelayMs.                  *)
Entry == [state : States, img : Sources \cup {NoPixels},
          last_accessed : Nat, rested : BOOLEAN]

Cached        == DOMAIN entries
IsState(k, s) == k \in Cached /\ entries[k].state = s
Loading       == {k \in Cached : entries[k].state = "Loading"}

EmptyCache == [k \in {} |-> NoPixels]

Ranked(c) ==
    [k \in DOMAIN c |->
        [c[k] EXCEPT !.last_accessed =
            Cardinality({n \in {c[j].last_accessed : j \in DOMAIN c} :
                            n < c[k].last_accessed})]]

(* The time of a new access: later than every earlier one, or within the   *)
(* same millisecond as the latest.                                         *)
Now(c) ==
    LET latest == Max({c[k].last_accessed : k \in DOMAIN c} \cup {0})
    IN  {latest, latest + 1}

(* Mutant of LruVictims: loading entries are not spared.                   *)
LruVictimsAnyState(c) ==
    {k \in DOMAIN c : \A j \in DOMAIN c : c[k].last_accessed <= c[j].last_accessed}

(* The entries that evict_if_full may pick: the oldest not being loaded.   *)
LruVictims(c) ==
    LET idle == {k \in DOMAIN c : c[k].state # "Loading"}
    IN  {k \in idle : \A j \in idle : c[k].last_accessed <= c[j].last_accessed}

(* Mutant of EvictIfFull: one entry too many.                              *)
EvictIfMoreThanFull(c) ==
    IF Cardinality(DOMAIN c) <= MAX_CACHE_ENTRIES \/ LruVictims(c) = {}
      THEN {c}
      ELSE {Restrict(c, DOMAIN c \ {k}) : k \in LruVictims(c)}

(* The caches that evict_if_full may leave.                                *)
EvictIfFull(c) ==
    IF Cardinality(DOMAIN c) < MAX_CACHE_ENTRIES \/ LruVictims(c) = {}
      THEN {c}
      ELSE {Restrict(c, DOMAIN c \ {k}) : k \in LruVictims(c)}

(* Mutant of DiskHasImage: a short read is not noticed.                    *)
TornLoads(p) == disk[p] # NoFile

(* image_load_file: a missing or short file is not an image.               *)
DiskHasImage(p) == disk[p] \notin {NoFile, TornFile}

(* s_cache with entry k replaced, or added.                                *)
Put(c, k, e) == [j \in DOMAIN c \cup {k} |-> IF j = k THEN e ELSE c[j]]

NoteLoading == peak' = Max({peak, Cardinality(Loading')})

-----------------------------------------------------------------------------
Init ==
    /\ entries = EmptyCache
    /\ redraw = FALSE
    /\ live = [k \in Keys |-> 0] /\ stale = [k \in Keys |-> 0]
    /\ disk \in [Paths -> {NoFile, TornFile}]
    /\ unseen = {} /\ peak = 0 /\ leaked = FALSE /\ cleared = FALSE

-----------------------------------------------------------------------------
(* image_cache_lookup *)

LookupReady(k) ==
    /\ IsState(k, "Ready")
    /\ \E now \in Now(entries) :
         entries' = Ranked([entries EXCEPT ![k].last_accessed = now])
    /\ UNCHANGED <<redraw, live, stale, disk, unseen, peak, leaked, cleared>>

(* Mutant of Misses: anything that is not ready is requested again.        *)
MissesUnlessReady(k) == ~IsState(k, "Ready")

(* An absent key, or a failure that is old enough to be retried.  A lookup *)
(* of a loading key, or of a recent failure, changes nothing.              *)
Misses(k) == k \notin Cached \/ (IsState(k, "Failed") /\ entries[k].rested)

(* A retried entry is erased as it is; eviction frees its victim's pixels.  *)
MissingFrom(c, k) == Restrict(c, DOMAIN c \ {k})

(* Mutant of FoundOnDisk: only downloads ask for a repaint.                *)
FoundOnDiskUnsignalled(c, k) ==
    \E now \in Now(c) :
      /\ entries' = Ranked(Put(c, k, [state |-> "Ready", img |-> disk[PathOf[SourceOf[k]]],
                                      last_accessed |-> now, rested |-> FALSE]))
      /\ unseen' = unseen \cup {k}
      /\ UNCHANGED <<redraw, live>>

FoundOnDisk(c, k) ==
    \E now \in Now(c) :
      /\ entries' = Ranked(Put(c, k, [state |-> "Ready", img |-> disk[PathOf[SourceOf[k]]],
                                      last_accessed |-> now, rested |-> FALSE]))
      /\ redraw' = TRUE
      /\ unseen' = unseen \cup {k}
      /\ UNCHANGED live

FetchStarted(c, k) ==
    \E now \in Now(c) :
      /\ entries' = Ranked(Put(c, k, [state |-> "Loading", img |-> NoPixels,
                                      last_accessed |-> now, rested |-> FALSE]))
      /\ live' = [live EXCEPT ![k] = @ + 1]
      /\ UNCHANGED <<redraw, unseen>>

LookupMiss(k) ==
    /\ Misses(k)
    /\ live[k] + stale[k] < MaxReplies
    /\ leaked' = (leaked \/ (k \in Cached /\ entries[k].img # NoPixels))
    /\ \E c \in EvictIfFull(MissingFrom(entries, k)) :
         IF DiskHasImage(PathOf[SourceOf[k]]) THEN FoundOnDisk(c, k) ELSE FetchStarted(c, k)
    /\ NoteLoading
    /\ UNCHANGED <<stale, disk, cleared>>

(* kFailedRetryDelayMs go by.                                              *)
FailureRests(k) ==
    /\ IsState(k, "Failed") /\ ~entries[k].rested
    /\ entries' = [entries EXCEPT ![k].rested = TRUE]
    /\ UNCHANGED <<redraw, live, stale, disk, unseen, peak, leaked, cleared>>

-----------------------------------------------------------------------------
(* The finished callback of a reply for key k.  It finds its entry by key  *)
(* alone, so a reply of before the last clear acts like any other.         *)

ReplyTaken(k) ==
    \/ /\ live[k] > 0
       /\ live' = [live EXCEPT ![k] = @ - 1]
       /\ UNCHANGED stale
    \/ /\ stale[k] > 0
       /\ stale' = [stale EXCEPT ![k] = @ - 1]
       /\ UNCHANGED live

FinishedUnwanted(k) ==
    /\ ReplyTaken(k)
    /\ k \notin Cached
    /\ UNCHANGED <<entries, redraw, disk, unseen, peak, leaked, cleared>>

(* Mutant of FinishedFailed: a failure returns without marking the entry.  *)
FinishedFailedSilently(k) ==
    /\ ReplyTaken(k)
    /\ k \in Cached
    /\ UNCHANGED <<entries, redraw, disk, unseen, peak, leaked, cleared>>

(* A network error, an empty body, or a body that does not decode.         *)
FinishedFailed(k) ==
    /\ ReplyTaken(k)
    /\ k \in Cached
    /\ \E now \in Now(entries) :
         entries' = Ranked([entries EXCEPT ![k].state = "Failed",
                                           ![k].last_accessed = now,
                                           ![k].rested = FALSE])
    /\ UNCHANGED <<redraw, disk, unseen, peak, leaked, cleared>>

(* What image_write_cache leaves: its results are not looked at, so the    *)
(* file can be unchanged (fopen failed) or cut short (the disk is full).   *)
Written(s) == {[disk EXCEPT ![PathOf[s]] = f] : f \in {s, TornFile, disk[PathOf[s]]}}

FinishedReady(k) ==
    /\ ReplyTaken(k)
    /\ k \in Cached
    /\ disk' \in Written(SourceOf[k])
    /\ leaked' = (leaked \/ entries[k].img # NoPixels)
    /\ \E now \in Now(entries) :
         entries' = Ranked([entries EXCEPT ![k].state = "Ready",
                                           ![k].img = SourceOf[k],
                                           ![k].last_accessed = now])
    /\ redraw' = TRUE
    /\ unseen' = unseen \cup {k}
    /\ UNCHANGED <<peak, cleared>>

-----------------------------------------------------------------------------
(* image_cache_redraw_needed *)
RedrawNeeded ==
    /\ redraw' = FALSE
    /\ unseen' = {}
    /\ UNCHANGED <<entries, live, stale, disk, peak, leaked, cleared>>

(* clear_all_cached_images: the memory cache, then every file.  The        *)
(* replies stay in flight.                                                 *)
Clear ==
    /\ \A k \in Keys : live[k] + stale[k] < MaxReplies
    /\ entries' = EmptyCache
    /\ redraw' = FALSE
    /\ unseen' = {}
    /\ stale' = [k \in Keys |-> live[k] + stale[k]]
    /\ live' = [k \in Keys |-> 0]
    /\ disk' = [p \in Paths |-> NoFile]
    /\ cleared' = (cleared \/ \E k \in Keys : live[k] + stale[k] > 0)
    /\ UNCHANGED <<peak, leaked>>

(* The process ends and a new one starts.  A normal exit deletes the embed *)
(* files; a crash deletes none and can cut a file short as it is written.  *)
NewProcess ==
    /\ entries' = EmptyCache
    /\ redraw' = FALSE
    /\ live' = [k \in Keys |-> 0] /\ stale' = [k \in Keys |-> 0]
    /\ unseen' = {} /\ peak' = 0 /\ leaked' = FALSE /\ cleared' = FALSE

Exit ==
    /\ disk' = [p \in Paths |->
                  IF \E s \in Avatars : PathOf[s] = p THEN disk[p] ELSE NoFile]
    /\ NewProcess

Crash ==
    /\ \/ disk' = disk
       \/ \E k \in Cached :
            /\ live[k] + stale[k] > 0
            /\ disk' = [disk EXCEPT ![PathOf[SourceOf[k]]] = TornFile]
    /\ NewProcess

-----------------------------------------------------------------------------
Lookup(k)   == LookupReady(k) \/ LookupMiss(k)
Finished(k) == FinishedUnwanted(k) \/ FinishedFailed(k) \/ FinishedReady(k)

Next ==
    \/ \E k \in Keys : Lookup(k) \/ FailureRests(k) \/ Finished(k)
    \/ RedrawNeeded \/ Clear \/ Exit \/ Crash

Spec == Init /\ [][Next]_vars

-----------------------------------------------------------------------------
(* Properties *)

(* Every variable keeps to its domain. *)
TypeOK ==
    /\ Cached \subseteq Keys
    /\ \A k \in Cached : entries[k] \in Entry
    /\ redraw \in BOOLEAN
    /\ live \in [Keys -> 0..MaxReplies]
    /\ stale \in [Keys -> 0..MaxReplies]
    /\ disk \in [Paths -> Sources \cup {NoFile, TornFile}]
    /\ unseen \subseteq Keys
    /\ peak \in Nat
    /\ leaked \in BOOLEAN
    /\ cleared \in BOOLEAN

(* An entry that says Loading has a request of its own under way.  No late  *)
(* reply, eviction, retry or clear leaves one behind that nothing would     *)
(* complete, retry or (since loading entries are spared) ever evict.        *)
LoadingHasReply ==
    \A k \in Keys : IsState(k, "Loading") => live[k] > 0

(* MAX_CACHE_ENTRIES is exceeded only by what had to be loaded at once: the *)
(* cache never outgrows the most entries that were in flight together, plus *)
(* the one that was then added. (evict_if_full spares loading entries)      *)
SizeBounded ==
    Cardinality(Cached) <= Max({MAX_CACHE_ENTRIES, peak + 1})

(* A ready entry shows the image its key asked for: neither a file cut      *)
(* short by a crash or a full disk, nor one of another source, is used.     *)
(* as long as no two urls have the same hash.                               *)
(* (image_load_cached's checks; file names are hashes of the url)           *)
ShowsOwnImage ==
    \A k \in Keys : IsState(k, "Ready") => entries[k].img = SourceOf[k]

(* image_cache.h:15 -- the flag "is set whenever a new image becomes ready  *)
(* so the main loop can trigger a repaint": until it is read, or the image  *)
(* is gone, no image that became ready is forgotten.                        *)
ReadySignalled ==
    (\E k \in unseen : IsState(k, "Ready")) => redraw

(* Unless the cache was cleared under replies in flight, every pixel        *)
(* buffer that leaves it was freed: a retry erases its entry and a reply    *)
(* overwrites img without freeing, so neither may ever meet an entry that   *)
(* has pixels.                                                              *)
PixelsFreed == leaked => cleared

(* Likewise a key is fetched at most once at a time: a key is not asked for *)
(* again while its reply is under way, whatever was evicted meanwhile.      *)
SingleFetch == (\E k \in Keys : live[k] + stale[k] > 1) => cleared

(* image_cache.h:32 -- "Discard all in-flight requests and cached images":  *)
(* a reply that was in flight when the cache was cleared no longer changes  *)
(* the cache. (image_cache_clear)                                           *)
ClearDiscardsRequests ==
    [][(\E k \in Keys : stale'[k] < stale[k] /\ live' = live) /\ entries' # EmptyCache
        => entries' = entries]_vars

=============================================================================
