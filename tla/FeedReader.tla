------------------------------ MODULE FeedReader ------------------------------
(***************************************************************************)
(* Reading feeds: what kobo/feed.cpp fetches, how main.cpp appends it to   *)
(* the list, cuts the list into pages and walks them, and the views from   *)
(* which the list, its source and the authentication can be replaced.      *)
(* Indices into the list count from 0, as in the code.                     *)
(***************************************************************************)
EXTENDS Integers, Sequences, SequencesExt, FiniteSetsExt

CONSTANTS
    Sources,         \* the feeds a user can have
    Timeline,        \* the default one
    Feeds,           \* Feeds[s][n]: is the n-th post of s shown, or filtered out?
    Limit,           \* posts per request
    MaxFit,          \* bound: the most posts that fit on a page
    MaxItems,        \* bound: posts loaded into one list
    NoCursor,
    NoSource

ASSUME SourcesAssumption ==
    /\ Timeline \in Sources
    /\ NoSource \notin Sources
    /\ Feeds \in [Sources -> Seq(BOOLEAN)]
ASSUME SizesAssumption ==
    /\ Limit \in Nat \ {0} /\ MaxFit \in Nat \ {0} /\ MaxItems \in Nat
ASSUME NoCursorAssumption == NoCursor \notin [src : Sources, pos : Nat]

VARIABLES
    auth,          \* app.bootstrap.authenticated; if not, its session is empty
    view,          \* app.view_mode
    return_view,   \* app.settings_return_view
    source,        \* app.active_feed_source
    feeds,         \* app.available_feeds
    items,         \* app.feed_result.feed.items
    cursor,        \* app.feed_result.feed.cursor
    page_start, page_count, page_history,
    hits,          \* app.visible_post_hits: the indices that taps act on
    shown,         \* history: what the last drawing of the feed showed, by index
    seen,          \* history: the indices shown since the list was loaded
    listed         \* history: the feed that all of items came from, or NoSource

listVars == <<items, cursor, listed>>
pageVars == <<page_start, page_count, page_history, hits, shown, seen>>
vars == <<auth, view, return_view, source, feeds, items, cursor, page_start,
          page_count, page_history, hits, shown, seen, listed>>

-----------------------------------------------------------------------------
Views   == {"dashboard", "feed", "feed_list", "thread", "settings", "diagnostics"}
Posts   == [src : Sources, n : Nat]
Cursors == [src : Sources, pos : Nat] \cup {NoCursor}

(* should_include_feed_post, which sees of a post whether it is a reply.   *)
ShouldInclude(s, n) == Feeds[s][n]

(* What the filter leaves of the posts of s that follow the first ones.    *)
Included(s, first, last) == {n \in (first + 1)..last : ShouldInclude(s, n)}

(* The k-th of a set of places. *)
Ranked(K, k) == CHOOSE n \in K : Cardinality({m \in K : m <= n}) = k

(* They are pushed to the back of the list in the order of the feed.       *)
Batch(s, first, last) ==
    LET kept == Included(s, first, last)
    IN  [k \in 1..Cardinality(kept) |-> [src |-> s, n |-> Ranked(kept, k)]]

(* What the server may answer: the posts that follow the cursor, and a     *)
(* cursor, unless there are no more and it knows.  A cursor that another   *)
(* feed gave out can mean any position in this one.                        *)
Answers(s, c) ==
    LET firsts == IF c = NoCursor THEN {0}
                  ELSE IF c.src = s THEN {c.pos} ELSE 0..Len(Feeds[s])
    IN  UNION {
          LET last == Min({first + Limit, Len(Feeds[s])})
          IN  {[posts |-> Batch(s, first, last), cursor |-> next] :
                 next \in (IF first < last THEN {[src |-> s, pos |-> last]} ELSE {})
                          \cup (IF last = Len(Feeds[s]) THEN {NoCursor} ELSE {})}
        : first \in firsts}

-----------------------------------------------------------------------------
Init ==
    /\ auth = FALSE
    /\ view = "dashboard" /\ return_view = "feed"
    /\ source = Timeline /\ feeds = {}
    /\ items = <<>> /\ cursor = NoCursor
    /\ page_start = 0 /\ page_count = 0 /\ page_history = <<>>
    /\ hits = {} /\ shown = <<>> /\ seen = {}
    /\ listed = Timeline

-----------------------------------------------------------------------------
(* render_feed_screen *)

(* How many posts fit from start on: at least the first, however tall.     *)
Fits(total, start) ==
    IF start < total THEN 1..Min({MaxFit, total - start}) ELSE {0}

(* Mutant of RenderFeed: the hits of the page before are not cleared.      *)
RenderFeedKeepsHits(before) ==
    \E n \in Fits(Len(items'), page_start') :
      /\ page_count' = n
      /\ hits' = hits \cup (page_start' .. (page_start' + n - 1))
      /\ shown' = [i \in page_start' .. (page_start' + n - 1) |-> items'[i + 1]]
      /\ seen' = before \cup hits'

(* Draws the page that starts at page_start' of the list items'.           *)
RenderFeed(before) ==
    \E n \in Fits(Len(items'), page_start') :
      /\ page_count' = n
      /\ hits' = page_start' .. (page_start' + n - 1)
      /\ shown' = [i \in hits' |-> items'[i + 1]]
      /\ seen' = before \cup hits'

NoRender == UNCHANGED <<page_count, hits, shown, seen>>

-----------------------------------------------------------------------------
(* load_feed, which returns early unless the bootstrap authenticated.      *)

(* Mutant of FeedLoads: the history of the replaced list stays. *)
FeedLoadsKeepsHistory ==
    /\ auth'
    /\ \E a \in Answers(source', NoCursor) :
         items' = a.posts /\ cursor' = a.cursor
    /\ listed' = source'
    /\ page_start' = 0 /\ UNCHANGED page_history

FeedLoads ==
    /\ auth'
    /\ \E a \in Answers(source', NoCursor) :
         items' = a.posts /\ cursor' = a.cursor
    /\ listed' = source'
    /\ page_start' = 0 /\ page_history' = <<>>

FeedLoadFails ==
    /\ auth'
    /\ items' = <<>> /\ cursor' = NoCursor /\ listed' = source'
    /\ page_start' = 0 /\ page_history' = <<>>

FeedLoadSkipped ==
    /\ ~auth'
    /\ UNCHANGED <<listVars, page_start, page_history>>

(* load_feed and the drawing of the feed view after it.                    *)
LoadAndRenderFeed ==
    \/ (FeedLoads \/ FeedLoadFails) /\ RenderFeed({})
    \/ FeedLoadSkipped /\ RenderFeed(seen)

-----------------------------------------------------------------------------
(* The feed view *)

(* Mutant of NextLoaded: pages are taken to be full.                       *)
NextLoadedFullPage ==
    /\ view = "feed"
    /\ page_start + MaxFit < Len(items)
    /\ page_history' = Append(page_history, page_start)
    /\ page_start' = page_start + MaxFit
    /\ UNCHANGED <<auth, view, return_view, source, feeds, listVars>>
    /\ RenderFeed(seen)

(* advance_feed_page's first half, by the button or a page-turn key.       *)
NextLoaded ==
    /\ view = "feed"
    /\ page_start + page_count < Len(items)
    /\ page_history' = Append(page_history, page_start)
    /\ page_start' = page_start + page_count
    /\ UNCHANGED <<auth, view, return_view, source, feeds, listVars>>
    /\ RenderFeed(seen)

AtEndOfList == view = "feed" /\ page_start + page_count >= Len(items)

(* Mutant of NextFetched: the cursor of the first request is kept.         *)
NextFetchedKeepsCursor ==
    /\ AtEndOfList
    /\ cursor # NoCursor
    /\ auth
    /\ Len(items) <= MaxItems
    /\ \E a \in Answers(source, cursor) :
         /\ items' = items \o a.posts
         /\ UNCHANGED cursor
    /\ listed' = IF listed = source THEN listed ELSE NoSource
    /\ page_history' = Append(page_history, page_start)
    /\ page_start' = Len(items)
    /\ UNCHANGED <<auth, view, return_view, source, feeds>>
    /\ RenderFeed(seen)

(* Its second half: the next batch arrives, and is appended even if the    *)
(* filter left nothing of it.                                              *)
NextFetched ==
    /\ AtEndOfList
    /\ cursor # NoCursor
    /\ auth
    /\ Len(items) <= MaxItems
    /\ \E a \in Answers(source, cursor) :
         /\ items' = items \o a.posts
         /\ cursor' = a.cursor
    /\ listed' = IF listed = source THEN listed ELSE NoSource
    /\ page_history' = Append(page_history, page_start)
    /\ page_start' = Len(items)
    /\ UNCHANGED <<auth, view, return_view, source, feeds>>
    /\ RenderFeed(seen)

(* No cursor, or a fetch that failed, as it must with an empty session.    *)
(* The button draws the feed all the same, a page-turn key does not.       *)
NextFails ==
    /\ AtEndOfList
    /\ UNCHANGED <<auth, view, return_view, source, feeds, listVars, page_start, page_history>>
    /\ RenderFeed(seen) \/ NoRender

Previous ==
    /\ view = "feed"
    /\ page_history # <<>>
    /\ page_start' = Last(page_history)
    /\ page_history' = Front(page_history)
    /\ UNCHANGED <<auth, view, return_view, source, feeds, listVars>>
    /\ RenderFeed(seen)

RefreshFeed ==
    /\ view = "feed"
    /\ UNCHANGED <<auth, view, return_view, source, feeds>>
    /\ LoadAndRenderFeed

(* Every other drawing of the feed view: an image became ready, 20 seconds *)
(* went by, Previous on the first page, a return from another view.        *)
Redraw ==
    /\ view = "feed"
    /\ UNCHANGED <<auth, view, return_view, source, feeds, listVars, page_start, page_history>>
    /\ RenderFeed(seen)

OpenThread ==
    /\ view = "feed"
    /\ \E i \in hits : i < Len(items)
    /\ view' = "thread"
    /\ UNCHANGED <<auth, return_view, source, feeds, listVars, page_start, page_history>>
    /\ NoRender

(* getPinnedFeeds: the timeline, and which generators and lists are pinned. *)
PinnedFeeds == {pinned \in SUBSET Sources : Timeline \in pinned}

(* load_feed_sources: a failure leaves the timeline alone in the list.     *)
OpenFeedList ==
    /\ view = "feed"
    /\ view' = "feed_list"
    /\ \/ auth /\ feeds' \in PinnedFeeds
       \/ feeds' = {Timeline}
    /\ UNCHANGED <<auth, return_view, source, listVars, page_start, page_history>>
    /\ NoRender

SelectFeed ==
    /\ view = "feed_list"
    /\ source' \in feeds
    /\ view' = "feed"
    /\ UNCHANGED <<auth, return_view, feeds>>
    /\ LoadAndRenderFeed

(* The back buttons of the feed list, the thread and the settings.         *)
BackToFeed ==
    /\ \/ view \in {"feed_list", "thread"}
       \/ view = "settings" /\ return_view = "feed"
    /\ view' = "feed"
    /\ UNCHANGED <<auth, return_view, source, feeds, listVars, page_start, page_history>>
    /\ RenderFeed(seen)

-----------------------------------------------------------------------------
(* The other views *)

OpenSettings ==
    /\ view \in {"feed", "thread"}
    /\ return_view' = view
    /\ view' = "settings"
    /\ UNCHANGED <<auth, source, feeds, listVars, pageVars>>

BackToThread ==
    /\ view = "settings" /\ return_view = "thread"
    /\ view' = "thread"
    /\ UNCHANGED <<auth, return_view, source, feeds, listVars, pageVars>>

OpenDiagnostics ==
    /\ view = "settings"
    /\ view' = "diagnostics"
    /\ UNCHANGED <<auth, return_view, source, feeds, listVars, pageVars>>

LeaveDiagnostics ==
    /\ view = "diagnostics"
    /\ view' = "settings"
    /\ UNCHANGED <<auth, return_view, source, feeds, listVars, pageVars>>

(* Diagnostics' Refresh runs the bootstrap and touches nothing else.       *)
RefreshDiagnostics ==
    /\ view = "diagnostics"
    /\ auth' \in BOOLEAN
    /\ UNCHANGED <<view, return_view, source, feeds, listVars, pageVars>>

(* clear_saved_session, then the bootstrap once more.                      *)
SignOut ==
    /\ view = "settings"
    /\ source' = Timeline /\ feeds' = {}
    /\ items' = <<>> /\ cursor' = NoCursor /\ listed' = Timeline
    /\ page_start' = 0 /\ page_count' = 0 /\ page_history' = <<>> /\ hits' = {}
    /\ auth' \in BOOLEAN
    /\ view' = "dashboard"
    /\ shown' = <<>> /\ seen' = {}
    /\ UNCHANGED return_view

(* The start of the program and the dashboard's Recheck: the bootstrap,    *)
(* then the feed, whose view opens only if it could be loaded.             *)
EnterFeed ==
    /\ view = "dashboard"
    /\ auth' \in BOOLEAN
    /\ UNCHANGED <<return_view, source, feeds>>
    /\ \/ FeedLoads /\ view' = "feed" /\ RenderFeed({})
       \/ FeedLoadFails /\ page_count' = 0 /\ UNCHANGED <<view, hits, shown, seen>>
       \/ FeedLoadSkipped /\ UNCHANGED <<view, page_count, hits, shown, seen>>

(* The exit button, the power key, a signal, a crash: nothing is kept.     *)
Exit ==
    /\ auth' = FALSE
    /\ view' = "dashboard" /\ return_view' = "feed"
    /\ source' = Timeline /\ feeds' = {}
    /\ items' = <<>> /\ cursor' = NoCursor /\ listed' = Timeline
    /\ page_start' = 0 /\ page_count' = 0 /\ page_history' = <<>>
    /\ hits' = {} /\ shown' = <<>> /\ seen' = {}

-----------------------------------------------------------------------------
FeedView == NextLoaded \/ NextFetched \/ NextFails \/ Previous \/ RefreshFeed \/ Redraw

Navigation ==
    \/ OpenThread \/ OpenFeedList \/ SelectFeed \/ BackToFeed \/ OpenSettings
    \/ BackToThread \/ OpenDiagnostics \/ LeaveDiagnostics

Next == FeedView \/ Navigation \/ RefreshDiagnostics \/ SignOut \/ EnterFeed \/ Exit

Spec == Init /\ [][Next]_vars

-----------------------------------------------------------------------------
(* Properties *)

(* Every variable keeps to its domain. *)
TypeOK ==
    /\ auth \in BOOLEAN
    /\ view \in Views
    /\ return_view \in {"feed", "thread"}
    /\ source \in Sources
    /\ feeds \subseteq Sources
    /\ items \in Seq(Posts)
    /\ cursor \in Cursors
    /\ page_start \in 0..Len(items)
    /\ page_count \in 0..MaxFit
    /\ page_history \in Seq(0..Len(items))
    /\ hits \subseteq 0..(Len(items) - 1)
    /\ seen \subseteq 0..(Len(items) - 1)
    /\ listed \in Sources \cup {NoSource}

(* A tap in the feed view acts on the post that is drawn where it lands:   *)
(* whatever replaced the list, the source or the account meanwhile, hits   *)
(* and list are those of the last drawing. (visible_post_hits keeps        *)
(* indices into feed_result.feed.items)                                    *)
TapHitsShownPost ==
    view = "feed" =>
        /\ hits = DOMAIN shown
        /\ \A i \in hits : i < Len(items) /\ items[i + 1] = shown[i]

(* Reading on never skips a post: all that lies before the current page    *)
(* was on an earlier one, though image loads and settings change how many  *)
(* posts fit between any two drawings. (advance_feed_page adds the         *)
(* feed_page_count of the last drawing)                                    *)
NothingSkipped ==
    view = "feed" => 0..(page_start + page_count - 1) \subseteq seen

(* Going back goes back: the history ascends to the current page and ends  *)
(* at the first. (feed_page_history over a list that grows or is replaced) *)
HistoryAscends ==
    LET trail == Append(page_history, page_start)
    IN  /\ trail[1] = 0
        /\ \A i \in 1..(Len(trail) - 1) : trail[i] <= trail[i + 1]

(* A list that was loaded from the active feed, and only read on since, is *)
(* exactly what the filter leaves of that feed up to the cursor: nothing   *)
(* doubled, nothing missing. (the cursor, the active source and the items  *)
(* are replaced by different functions)                                    *)
ListIsFeedPrefix ==
    listed = source /\ items # <<>> =>
        items = Batch(source, 0, IF cursor = NoCursor THEN Len(Feeds[source])
                                 ELSE cursor.pos)

(* main.cpp:3815 -- "Switching to <the feed's name>.": once a feed was      *)
(* selected, the list under its name holds posts of no other.               *)
ListIsActiveFeed ==
    view = "feed" => \A k \in 1..Len(items) : items[k].src = source

=============================================================================
