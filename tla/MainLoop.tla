-------------------------------- MODULE MainLoop --------------------------------
(***************************************************************************)
(* The loop of main() in src/src/kobo/main.cpp: it polls for input, and    *)
(* hands taps and keys to the view that view_mode names; when no input     *)
(* comes, it draws images that arrived, dims the screen, and every twenty  *)
(* seconds probes the device.                                              *)
(*                                                                         *)
(* The screen is shared by the views and stays as it is until it is        *)
(* refreshed.  Which view it shows is not what view_mode says: a key that  *)
(* nobody handles draws the dashboard over whatever view is active, and a  *)
(* drawing in passing refreshes only a part of the feed or the thread.     *)
(***************************************************************************)
EXTENDS ScrollViews

VARIABLES
    running,    \* the loop has not ended
    dimmed,     \* app.screen_dimmed
    picker,     \* app.screen_dim_picker_visible
    screen,     \* of each band: the view it shows, and whether with the picker
    redraw,     \* the image cache's flag: an image has become ready
    undrawn     \* an image is ready that the last feed or thread was drawn without

control == <<running, dimmed, picker, redraw>>
vars == <<scrolling, control, screen, undrawn>>

Timelines == {"feed", "thread"}

\* From the top: a header, what is below it, and where the feed has its buttons.
Bands == {"header", "body", "buttons"}
Drawn(v, p) == [view |-> v, picker |-> p]
Dashboard == Drawn("dashboard", FALSE)

Init ==
    /\ ScrollInit
    /\ running = TRUE
    /\ dimmed = FALSE
    /\ picker = FALSE
    /\ screen = [band \in Bands |-> Drawn(view, FALSE)]
    /\ redraw \in BOOLEAN
    /\ undrawn \in {FALSE, redraw}

\* Mutant of Refreshed: the thread has buttons like the feed.
RefreshedAlike(v, full) == IF full \/ v \notin Timelines THEN Bands ELSE {"body"}

\* What reaches the panel when a view is drawn, in full or in passing.
Refreshed(v, full) ==
    IF full \/ v \notin Timelines THEN Bands
    ELSE IF v = "thread" THEN Bands \ {"header"} ELSE {"body"}

\* The drawing of the view that view_mode names when the handler ends.
DrawView(full) ==
    /\ screen' = [band \in Bands |->
            IF band \in Refreshed(view', full) THEN Drawn(view', view' = "settings" /\ picker')
            ELSE screen[band]]
    /\ undrawn' = (undrawn /\ view' \notin Timelines)

\* render_screen, whatever the view.
DrawDashboard ==
    /\ screen' = [band \in Bands |-> Dashboard]
    /\ UNCHANGED undrawn

-----------------------------------------------------------------------------
(* Taps.  The first event of a dimmed screen only lights it. *)

Wake ==
    /\ running /\ dimmed
    /\ dimmed' = FALSE
    /\ UNCHANGED <<scrolling, running, picker, redraw, screen, undrawn>>

Awake == running /\ ~dimmed

\* The picker takes every tap while it is there.
Tapped == Awake /\ ~picker

TapView(A, full) ==
    /\ Tapped
    /\ A
    /\ UNCHANGED control
    /\ DrawView(full)

TapScroll(list) ==
    \/ TapView(ScrollDown(list) \/ ScrollUp(list) \/ TapTrack(list), TRUE)
    \/ TapView(ScrollRefused(list), FALSE)

TapFeedListEnd ==
    /\ Tapped
    /\ FeedListStays
    /\ UNCHANGED <<control, screen, undrawn>>

TapThrough ==
    TapView(OpenThread \/ OpenFeedList \/ BackToFeed \/ OpenSettings \/ SettingsBack
            \/ OpenDiagnostics \/ DiagnosticsBack \/ SignOut \/ SignIn, TRUE)

\* The buttons of a feed, which draw in passing when there is no other page, a
\* setting, a button of the diagnostics, the dashboard.
TapStays ==
    /\ view \in {"feed", "settings", "diagnostics", "dashboard"}
    /\ \E full \in BOOLEAN : TapView(DrawAgain, full)

\* A like or a repost draws the counts of its post and nothing around them,
\* over whatever the body shows.
TapStats ==
    /\ Tapped
    /\ view \in Timelines
    /\ view = "thread" => window[view].hits.rows > 0
    /\ UNCHANGED <<scrolling, control, screen, undrawn>>

TapExit ==
    /\ Tapped
    /\ view = "dashboard"
    /\ running' = FALSE
    /\ DrawDashboard
    /\ UNCHANGED <<scrolling, dimmed, picker, redraw>>

ShowPicker ==
    /\ Tapped
    /\ view = "settings" /\ RowDrawn(ScreenDimRow)
    /\ picker' = TRUE
    /\ DrawAgain
    /\ DrawView(TRUE)
    /\ UNCHANGED <<running, dimmed, redraw>>

\* An option is chosen, or the picker dismissed.
TapPicker ==
    /\ Awake /\ picker /\ view = "settings"
    /\ picker' = FALSE
    /\ DrawAgain
    /\ DrawView(TRUE)
    /\ UNCHANGED <<running, dimmed, redraw>>

-----------------------------------------------------------------------------
(* Keys. *)

\* The page keys, which the picker does not keep from the settings.  One that
\* turns no page draws nothing.
PageKey ==
    /\ Awake
    /\ \/ \E list \in Lists : ScrollDown(list) \/ ScrollUp(list)
       \/ view = "feed" /\ DrawAgain
    /\ UNCHANGED control
    /\ DrawView(TRUE)

OtherKey ==
    /\ Awake
    /\ DrawDashboard
    /\ UNCHANGED <<scrolling, control>>

PowerKey ==
    /\ Awake
    /\ running' = FALSE
    /\ DrawDashboard
    /\ UNCHANGED <<scrolling, dimmed, picker, redraw>>

\* SIGINT, SIGTERM or SIGHUP.
Stop ==
    /\ running
    /\ running' = FALSE
    /\ UNCHANGED <<scrolling, dimmed, picker, redraw, screen, undrawn>>

-----------------------------------------------------------------------------
(* A pass of the loop without input. *)

\* In processEvents, or while a handler waits for an answer of the network.
ImageArrives ==
    /\ running
    /\ redraw' = TRUE
    /\ undrawn' = TRUE
    /\ UNCHANGED <<scrolling, running, dimmed, picker, screen>>

\* Mutant of Announced: the flag is read, and reset, while the screen is dimmed.
AnnouncedInTheDark == redraw

\* Reading the flag resets it, whichever view is active.
Announced == ~dimmed /\ redraw

\* Mutant of DrawsIdle: a probe leaves the feed and the thread alone, which show
\* nothing of the device.
DrawsIdleElsewhere(pollFailed, probe) ==
    \/ ~dimmed /\ (pollFailed \/ (Announced /\ view \in Timelines))
    \/ ~dimmed' /\ probe /\ view \notin Timelines

\* The light goes out between the two.
DrawsIdle(pollFailed, probe) ==
    \/ ~dimmed /\ (pollFailed \/ (Announced /\ view \in Timelines))
    \/ ~dimmed' /\ probe

\* pollFailed: the poll reported an error.  due: the timeout has passed, and the
\* light could be dimmed.  probe: twenty seconds have passed since the last one.
IdlePoll(pollFailed, due, probe) ==
    /\ running
    /\ UNCHANGED <<running, picker>>
    /\ redraw' = (redraw /\ ~Announced)
    /\ dimmed' = (dimmed \/ due)
    /\ IF DrawsIdle(pollFailed, probe)
       THEN DrawAgain /\ DrawView(FALSE)
       ELSE UNCHANGED <<scrolling, screen, undrawn>>

Idle == \E pollFailed, due, probe \in BOOLEAN : IdlePoll(pollFailed, due, probe)

\* A pass that only probes: nothing fails, and the timeout has not passed.
Probe == IdlePoll(FALSE, FALSE, TRUE)

-----------------------------------------------------------------------------
Next ==
    \/ Wake
    \/ \E list \in Lists : TapScroll(list)
    \/ TapFeedListEnd \/ TapThrough \/ TapStays \/ TapStats \/ TapExit
    \/ ShowPicker \/ TapPicker
    \/ PageKey \/ OtherKey \/ PowerKey \/ Stop
    \/ ImageArrives \/ Idle

\* The user pauses now and then for as long as a probe takes to come.
Spec == Init /\ [][Next]_vars /\ WF_vars(Probe)

-----------------------------------------------------------------------------
(***************************************************************************)
(* Every variable keeps to its domain, and the window of the list on the   *)
(* screen lies within the list: page_count is what follows page_start.     *)
(***************************************************************************)
TypeOK ==
    /\ view \in Views
    /\ settings_return_view \in {"feed", "thread"}
    /\ window \in [Lists -> Windows]
    /\ view \in Lists => window[view].page_start + window[view].page_count <= window[view].total
    /\ {running, dimmed, picker, redraw, undrawn} \subseteq BOOLEAN
    /\ screen \in [Bands -> [view : Views, picker : BOOLEAN]]

(***************************************************************************)
(* A tap means what is drawn: while a list is on the screen, its hit boxes *)
(* are of the list that is loaded, from the position rows are counted      *)
(* from.  The hit boxes of a thread hold pointers to its posts, which die  *)
(* with the thread; a row of the feed list is looked up by its place.      *)
(***************************************************************************)
HitsAreOfList ==
    view \in Lists =>
        LET w == window[view]
        IN  w.hits = [loaded |-> TRUE, from |-> w.page_start, rows |-> w.page_count]

(***************************************************************************)
(* Scrolling down skips nothing, however tall the entries are; it moves on *)
(* by an entry at least, and is refused only when the end of the list is   *)
(* drawn.  (In a thread it may show nothing new: one tall post, which was  *)
(* on the screen before, can fill it.  Rows are of a height, and show more *)
(* of their list every time.)                                              *)
(***************************************************************************)
DownSkipsNothing ==
    [][\A list \in Lists :
        LET w == window[list]
            moved == window'[list]
        IN  /\ ScrollDown(list) =>
                /\ w.page_start < moved.page_start
                /\ moved.page_start <= w.page_start + w.page_count
                /\ list # "thread" =>
                      w.page_start + w.page_count < moved.page_start + moved.page_count
            /\ view = list /\ w.page_start >= MaxStart(w) =>
                w.page_start + w.page_count = w.total]_vars

(***************************************************************************)
(* Scrolling up skips nothing where entries are of a height.  (In a thread *)
(* it does: the step is counted in posts of the window below.)             *)
(***************************************************************************)
UpSkipsNoRow ==
    [][\A list \in {"feed_list", "settings"} :
        ScrollUp(list) =>
            /\ window'[list].page_start < window[list].page_start
            /\ window[list].page_start <= window'[list].page_start + window'[list].page_count]_vars

(***************************************************************************)
(* What the screen shows is the view, and the picker, that the next tap    *)
(* will be taken for, but for the dashboard that an unhandled key draws    *)
(* over it: all of it, or, once the feed or the thread was drawn over it   *)
(* in passing, what that leaves above and below.  (The dashboard's Exit    *)
(* may then be seen where Next is tapped.)  No order of keys, taps, probes *)
(* and dims leaves anything else behind.                                   *)
(***************************************************************************)
ScreenIsView ==
    running =>
        /\ \A band \in Bands : screen[band] \in {Drawn(view, picker), Dashboard}
        /\ screen["body"] = Dashboard => \A band \in Bands : screen[band] = Dashboard
        /\ view # "feed" => screen["buttons"] = screen["body"]
        /\ view \notin Timelines => screen["header"] = screen["body"]
        /\ picker => view = "settings"

(***************************************************************************)
(* A dashboard does not keep another view's body covered: it shows the     *)
(* view again, or the screen goes dark, or the program ends.  (The header, *)
(* and the place of the feed's buttons, may stay the dashboard's for as    *)
(* long as no page is turned and the view is not left.)                    *)
(***************************************************************************)
Hidden == screen["body"].view # view

StrayDashboardGoes == running /\ Hidden ~> ~Hidden \/ dimmed \/ ~running

(***************************************************************************)
(* No image is forgotten: one that became ready while the screen was       *)
(* dimmed, while another view was active, or in the middle of a handler    *)
(* is on the screen, or the flag is still up that will have it drawn.      *)
(***************************************************************************)
ArrivalsAnnounced == view \in Timelines /\ undrawn => redraw
=============================================================================
