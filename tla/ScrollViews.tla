------------------------------ MODULE ScrollViews ------------------------------
(***************************************************************************)
(* The views of src/src/kobo/main.cpp that show a window of a longer list: *)
(* a thread, the pinned feeds, and the settings.  Scroll buttons, page     *)
(* keys and the track of the scroll bar move the window by what the last   *)
(* drawing showed; drawing clamps the window, counts what fits, and        *)
(* records where taps land.  (The pages of the feed itself work otherwise, *)
(* and are FeedReader's.)  The operations are here; who calls them, and    *)
(* when, is MainLoop's.                                                    *)
(*                                                                         *)
(* Posts differ in height, and change it with every image that arrives and *)
(* with the settings, so a drawing of a thread shows any number of posts,  *)
(* at least one.  Rows of feeds and settings are all of a height.          *)
(***************************************************************************)
EXTENDS Integers

CONSTANTS
    MaxPosts,     \* bound on the posts of a thread
    MaxFeeds,     \* bound on the pinned feeds
    FeedRows,     \* rows of feeds that fit on the screen
    SettingRows,  \* kScrollableSettingsRowCount
    VisibleRows,  \* kVisibleSettingsRowCount
    DiagnosticsRow, ScreenDimRow    \* places of two rows of the settings

ASSUME BoundsAssumption ==
    /\ MaxPosts \in Nat
    /\ {MaxFeeds, FeedRows, SettingRows, VisibleRows} \subseteq Nat \ {0}
    /\ {DiagnosticsRow, ScreenDimRow} \subseteq 0..SettingRows - 1

VARIABLES
    view,                    \* app.view_mode
    settings_return_view,
    window                   \* of each list: its window, and what was drawn of it

scrolling == <<view, settings_return_view, window>>

Lists == {"thread", "feed_list", "settings"}
Views == Lists \cup {"dashboard", "feed", "diagnostics"}

Least(a, b) == IF a < b THEN a ELSE b
Most(a, b) == IF a < b THEN b ELSE a

\* total is the length of the list; page_start and page_count are the window;
\* the hit boxes of a drawing are of the list it was made of, loaded still or not.
Windows ==
    [total : 0..MaxPosts \cup 0..MaxFeeds \cup {SettingRows},
     page_start : Nat, page_count : Nat,
     hits : [loaded : BOOLEAN, from : Nat, rows : Nat]]

NothingDrawn == [loaded |-> FALSE, from |-> 0, rows |-> 0]

\* The number of entries a drawing shows when rest entries follow.
Fitting(list, rest) ==
    CASE list = "thread" -> Least(1, rest)..rest
      [] list = "feed_list" -> {Least(FeedRows, rest)}
      [] list = "settings" -> {Least(VisibleRows, rest)}

\* Mutant of Clamped: drawing takes the start as it is.
Unclamped(page_start, total) == page_start

Clamped(page_start, total) == Most(0, Least(page_start, total - 1))

\* Mutant of Drawings: a thread that failed to load keeps the hits of the last.
DrawingsOfLoaded(list, w) ==
    LET start == Clamped(w.page_start, w.total)
    IN  {[w EXCEPT !.page_start = start,
                   !.page_count = shown,
                   !.hits = IF w.total = 0 THEN @ ELSE [loaded |-> TRUE, from |-> start, rows |-> shown]] :
             shown \in Fitting(list, w.total - start)}

Drawings(list, w) ==
    LET start == Clamped(w.page_start, w.total)
    IN  {[w EXCEPT !.page_start = start,
                   !.page_count = shown,
                   !.hits = [loaded |-> TRUE, from |-> start, rows |-> shown]] :
             shown \in Fitting(list, w.total - start)}

\* The list is drawn as w, by one of the render functions.
Render(list, w) == \E drawn \in Drawings(list, w) : window' = [window EXCEPT ![list] = drawn]

Redraw(list) == Render(list, window[list])

\* Another list takes the place of the one that was drawn.
Loaded(w, total) == [w EXCEPT !.total = total, !.hits.loaded = FALSE]

\* The session was restored and its feed loaded, or not.
ScrollInit ==
    /\ view \in {"dashboard", "feed"}
    /\ settings_return_view = "feed"
    /\ window = [list \in Lists |->
            [total |-> IF list = "settings" THEN SettingRows ELSE 0,
             page_start |-> 0, page_count |-> 0, hits |-> NothingDrawn]]

-----------------------------------------------------------------------------
(* Scrolling.  An entry of the window stays in sight when it moves. *)

\* Mutant of Step: the window moves past what was drawn.
StepPast(w) == w.page_count + 1

Step(w) == Most(1, w.page_count - 1)

\* Mutant of MaxStart: the last entry is left out.
MaxStartShort(w) == Most(0, w.total - Most(1, w.page_count) - 1)

MaxStart(w) == Most(0, w.total - Most(1, w.page_count))

ScrollDown(list) ==
    LET w == window[list]
    IN  /\ view = list
        /\ w.page_start < MaxStart(w)
        /\ Render(list, [w EXCEPT !.page_start = Least(MaxStart(w), @ + Step(w))])
        /\ UNCHANGED <<view, settings_return_view>>

ScrollUp(list) ==
    LET w == window[list]
    IN  /\ view = list
        /\ w.page_start > 0
        /\ Render(list, [w EXCEPT !.page_start = Most(0, @ - Step(w))])
        /\ UNCHANGED <<view, settings_return_view>>

AtAnEnd(w) == w.page_start = 0 \/ w.page_start >= MaxStart(w)

\* "Already at top", "Already at bottom": threads and settings are drawn again.
ScrollRefused(list) ==
    /\ view = list /\ list # "feed_list"
    /\ AtAnEnd(window[list])
    /\ Redraw(list)
    /\ UNCHANGED <<view, settings_return_view>>

\* The feed list just stays as it is.
FeedListStays ==
    /\ view = "feed_list"
    /\ AtAnEnd(window["feed_list"])
    /\ UNCHANGED scrolling

\* A tap on the track, anywhere from its top to its bottom.
TapTrack(list) ==
    LET w == window[list]
    IN  /\ view = list
        /\ MaxStart(w) > 0
        /\ \E start \in 0..MaxStart(w) : Render(list, [w EXCEPT !.page_start = start])
        /\ UNCHANGED <<view, settings_return_view>>

-----------------------------------------------------------------------------
(* Moving between the views. *)

\* The root and its replies are at least one post.
PostsOfThread == 1..MaxPosts

\* The request may fail, and leave a thread without posts.
FetchThread == {Loaded(window["thread"], total) : total \in PostsOfThread \cup {0}}

OpenThread ==
    /\ view = "feed"
    /\ view' = "thread"
    /\ \E w \in FetchThread : Render("thread", [w EXCEPT !.page_start = 0])
    /\ UNCHANGED settings_return_view

\* The list is never empty, Followers stands in for one that could not be fetched.
FetchPinnedFeeds == {Loaded(window["feed_list"], total) : total \in 1..MaxFeeds}

\* The window of the feed list stays where it was.
OpenFeedList ==
    /\ view = "feed"
    /\ view' = "feed_list"
    /\ \E w \in FetchPinnedFeeds : Render("feed_list", w)
    /\ UNCHANGED settings_return_view

\* Back, or a row was chosen.
BackToFeed ==
    /\ view \in {"thread", "feed_list"}
    /\ view' = "feed"
    /\ UNCHANGED <<settings_return_view, window>>

OpenSettings ==
    /\ view \in {"feed", "thread"}
    /\ view' = "settings"
    /\ settings_return_view' = view
    /\ Render("settings", [window["settings"] EXCEPT !.page_start = 0])

SettingsBack ==
    /\ view = "settings"
    /\ view' = settings_return_view
    /\ IF view' = "thread" THEN Redraw("thread") ELSE UNCHANGED window
    /\ UNCHANGED settings_return_view

\* The button of a row is laid out where the row is drawn, and nowhere else.
RowDrawn(row) ==
    LET hits == window["settings"].hits
    IN  row \in hits.from..hits.from + hits.rows - 1

OpenDiagnostics ==
    /\ view = "settings" /\ RowDrawn(DiagnosticsRow)
    /\ view' = "diagnostics"
    /\ UNCHANGED <<settings_return_view, window>>

DiagnosticsBack ==
    /\ view = "diagnostics"
    /\ view' = "settings"
    /\ Redraw("settings")
    /\ UNCHANGED settings_return_view

\* render_active_view: the other views have no window.
DrawAgain ==
    /\ IF view \in Lists THEN Redraw(view) ELSE UNCHANGED window
    /\ UNCHANGED <<view, settings_return_view>>

\* clear_saved_session forgets thread and feeds, but not where the feed list was.
SignOut ==
    /\ view = "settings"
    /\ view' = "dashboard"
    /\ window' = [window EXCEPT
            !["thread"] = [total |-> 0, page_start |-> 0, page_count |-> 0, hits |-> NothingDrawn],
            !["feed_list"].total = 0, !["feed_list"].hits = NothingDrawn]
    /\ UNCHANGED settings_return_view

\* The session is restored and its feed loaded.
SignIn ==
    /\ view = "dashboard"
    /\ view' = "feed"
    /\ UNCHANGED <<settings_return_view, window>>

=============================================================================
