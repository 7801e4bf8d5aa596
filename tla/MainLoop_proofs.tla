---------------------------- MODULE MainLoop_proofs ----------------------------
(***************************************************************************)
(* Proofs about MainLoop, for threads, feed lists and settings of any      *)
(* length and a screen of any height.                                      *)
(*                                                                         *)
(* The argument is about drawings.  Whatever window a handler asks for,    *)
(* Render leaves one that lies within its list, shows something of a list  *)
(* that has something, and whose hit boxes are its own (RenderDraws).  And *)
(* every handler that leaves a list active draws it: the window of the     *)
(* active list is a drawn one (Inv), and scrolling starts from there.      *)
(*                                                                         *)
(* And proofs about ThreadTree, for threads of any shape and length: what  *)
(* the list is that the thread's window moves in.                          *)
(***************************************************************************)
EXTENDS MainLoop, ThreadTree, WellFoundedInduction, SequenceTheorems, TLAPS

USE DEF Least, Most

\* The window as a drawing leaves it.
Settled(list, w) ==
    /\ w.page_start <= Most(0, w.total - 1)
    /\ w.page_count \in Fitting(list, w.total - w.page_start)
    /\ w.hits = [loaded |-> TRUE, from |-> w.page_start, rows |-> w.page_count]

WindowInv ==
    /\ view \in Views
    /\ settings_return_view \in {"feed", "thread"}
    /\ window \in [Lists -> Windows]
    /\ view \in Lists => Settled(view, window[view])

\* The screen: the view, or a dashboard with or without the view's bands over it.
Shown ==
    /\ \A band \in Bands : screen[band] \in {Drawn(view, picker), Dashboard}
    /\ screen["body"] = Dashboard => \A band \in Bands : screen[band] = Dashboard
    /\ view # "feed" => screen["buttons"] = screen["body"]
    /\ view \notin Timelines => screen["header"] = screen["body"]

ControlInv ==
    /\ running \in BOOLEAN /\ dimmed \in BOOLEAN /\ picker \in BOOLEAN
    /\ redraw \in BOOLEAN /\ undrawn \in BOOLEAN
    /\ screen \in [Bands -> [view : Views, picker : BOOLEAN]]
    /\ picker => view = "settings"
    /\ running => Shown
    /\ view \in Timelines /\ undrawn => redraw

Inv == WindowInv /\ ControlInv

-----------------------------------------------------------------------------
(* Drawing. *)

LEMMA ListsAreViews == Lists \subseteq Views
BY DEF Lists, Views

LEMMA TotalsAreNat == ASSUME NEW w \in Windows PROVE w.total \in Nat
BY BoundsAssumption DEF Windows

(***************************************************************************)
(* A drawing shows no more than there is, and something if there is any;   *)
(* rows of one height fill the screen.                                     *)
(***************************************************************************)
LEMMA FittingBounds ==
    ASSUME NEW list \in Lists, NEW rest \in Nat, NEW n \in Fitting(list, rest)
    PROVE  /\ n \in Nat /\ n <= rest /\ (rest > 0 => n > 0)
           /\ list = "feed_list" => n = Least(FeedRows, rest)
           /\ list = "settings" => n = Least(VisibleRows, rest)
<1>1. CASE list = "thread"
    <2>1. n \in Least(1, rest)..rest
        BY <1>1 DEF Fitting
    <2> QED BY <1>1, <2>1
<1>2. CASE list = "feed_list"
    <2>1. n = Least(FeedRows, rest)
        BY <1>2 DEF Fitting
    <2> QED BY <1>2, <2>1, BoundsAssumption
<1>3. CASE list = "settings"
    <2>1. n = Least(VisibleRows, rest)
        BY <1>3 DEF Fitting
    <2> QED BY <1>3, <2>1, BoundsAssumption
<1> QED BY <1>1, <1>2, <1>3 DEF Lists

LEMMA ClampedIsInside ==
    ASSUME NEW start \in Nat, NEW total \in Nat
    PROVE  /\ Clamped(start, total) \in Nat
           /\ Clamped(start, total) <= Most(0, total - 1)
           /\ start <= Most(0, total - 1) => Clamped(start, total) = start
           /\ total - Clamped(start, total) \in Nat
           /\ total > 0 => total - Clamped(start, total) > 0
BY DEF Clamped

(***************************************************************************)
(* Whatever window is asked for, the drawing settles it, in the same list, *)
(* and leaves the windows of the other lists alone.                        *)
(***************************************************************************)
LEMMA RenderDraws ==
    ASSUME NEW list \in Lists, NEW w \in Windows,
           window \in [Lists -> Windows], Render(list, w)
    PROVE  /\ window' \in [Lists -> Windows]
           /\ Settled(list, window'[list])
           /\ window'[list].total = w.total
           /\ window'[list].page_start = Clamped(w.page_start, w.total)
           /\ \A other \in Lists \ {list} : window'[other] = window[other]
<1> DEFINE start == Clamped(w.page_start, w.total)
           Shows(n) == [w EXCEPT !.page_start = start, !.page_count = n,
                                 !.hits = [loaded |-> TRUE, from |-> start, rows |-> n]]
<1>1. PICK n \in Fitting(list, w.total - start) : window' = [window EXCEPT ![list] = Shows(n)]
    BY DEF Render, Drawings
<1>2. w.total \in Nat /\ w.page_start \in Nat
    BY TotalsAreNat DEF Windows
<1>3. start \in Nat /\ start <= Most(0, w.total - 1) /\ w.total - start \in Nat
    BY <1>2, ClampedIsInside
<1> HIDE DEF start
<1>4. n \in Nat
    BY <1>3, FittingBounds
<1>5. Shows(n) \in Windows
    BY <1>3, <1>4 DEF Windows
<1>6. Shows(n).page_start = start /\ Shows(n).page_count = n /\ Shows(n).total = w.total
      /\ Shows(n).hits = [loaded |-> TRUE, from |-> start, rows |-> n]
    BY DEF Windows
<1> HIDE DEF Shows
<1>7. window'[list] = Shows(n)
    BY <1>1
<1>8. Settled(list, Shows(n))
    BY <1>3, <1>6 DEF Settled
<1> QED BY <1>1, <1>5, <1>6, <1>7, <1>8 DEF start

LEMMA MovedWindow ==
    ASSUME NEW w \in Windows, NEW start \in Nat
    PROVE  LET moved == [w EXCEPT !.page_start = start]
           IN  moved \in Windows /\ moved.page_start = start /\ moved.total = w.total
BY DEF Windows

LEMMA LoadedWindow ==
    ASSUME NEW w \in Windows, NEW total \in 0..MaxPosts \cup 0..MaxFeeds
    PROVE  Loaded(w, total) \in Windows
BY DEF Loaded, Windows

LEMMA StepBounds ==
    ASSUME NEW w \in Windows
    PROVE  /\ MaxStart(w) \in Nat
           /\ Step(w) \in Nat /\ Step(w) > 0
           /\ w.page_count > 1 => Step(w) = w.page_count - 1
           /\ w.page_count \in {0, 1} => Step(w) = 1
           /\ MaxStart(w) = Most(0, w.total - Most(1, w.page_count))
           /\ w.total \in Nat /\ w.page_start \in Nat /\ w.page_count \in Nat
<1>1. w.total \in Nat /\ w.page_start \in Nat /\ w.page_count \in Nat
    BY TotalsAreNat DEF Windows
<1> QED BY <1>1 DEF MaxStart, Step

-----------------------------------------------------------------------------
(* Every operation on a list leaves the active list drawn. *)

LEMMA DrawnView ==
    ASSUME WindowInv, NEW list \in Lists, NEW w \in Windows, Render(list, w),
           view' = list, settings_return_view' \in {"feed", "thread"}
    PROVE  WindowInv'
<1>1. window' \in [Lists -> Windows] /\ Settled(list, window'[list])
    BY RenderDraws DEF WindowInv
<1> QED BY <1>1, ListsAreViews DEF WindowInv, Settled

LEMMA NoListActive ==
    ASSUME WindowInv, view' \in Views \ Lists, window' \in [Lists -> Windows],
           settings_return_view' \in {"feed", "thread"}
    PROVE  WindowInv'
BY DEF WindowInv

LEMMA ScrollKeepsInv ==
    ASSUME WindowInv, NEW list \in Lists,
           ScrollDown(list) \/ ScrollUp(list) \/ ScrollRefused(list) \/ TapTrack(list)
    PROVE  WindowInv' /\ view' = view
<1> DEFINE w == window[list]
<1>1. w \in Windows
    BY DEF WindowInv
<1>2. /\ MaxStart(w) \in Nat /\ Step(w) \in Nat /\ w.page_start \in Nat
      /\ Least(MaxStart(w), w.page_start + Step(w)) \in Nat
      /\ Most(0, w.page_start - Step(w)) \in Nat
    <2>1. MaxStart(w) \in Nat /\ Step(w) \in Nat /\ w.page_start \in Nat
        BY <1>1, StepBounds
    <2> QED BY <2>1
<1>3. view = list /\ view' = view /\ settings_return_view' = settings_return_view
    BY DEF ScrollDown, ScrollUp, ScrollRefused, TapTrack, scrolling
<1>4. PICK start \in Nat : Render(list, [w EXCEPT !.page_start = start])
    <2>1. CASE ScrollDown(list)
        BY <2>1, <1>2 DEF ScrollDown
    <2>2. CASE ScrollUp(list)
        BY <2>2, <1>2 DEF ScrollUp
    <2>3. CASE ScrollRefused(list)
        <3>1. [w EXCEPT !.page_start = w.page_start] = w
            BY <1>1 DEF Windows
        <3> QED BY <2>3, <3>1, <1>2 DEF ScrollRefused, Redraw
    <2>4. CASE TapTrack(list)
        <3>1. PICK start \in 0..MaxStart(w) : Render(list, [w EXCEPT !.page_start = start])
            BY <2>4 DEF TapTrack
        <3> QED BY <3>1, <1>2
    <2> QED BY <2>1, <2>2, <2>3, <2>4
<1>5. [w EXCEPT !.page_start = start] \in Windows
    BY <1>1, MovedWindow
<1> HIDE DEF w
<1>6. WindowInv'
    BY <1>3, <1>4, <1>5, DrawnView DEF WindowInv
<1> QED BY <1>3, <1>6

LEMMA DrawAgainKeepsInv ==
    ASSUME WindowInv, DrawAgain
    PROVE  WindowInv' /\ view' = view
<1>1. view' = view /\ settings_return_view' = settings_return_view
    BY DEF DrawAgain
<1>2. CASE view \in Lists
    <2>1. Render(view, window[view]) /\ window[view] \in Windows
        BY <1>2 DEF DrawAgain, Redraw, WindowInv
    <2> QED BY <1>1, <1>2, <2>1, DrawnView DEF WindowInv
<1>3. CASE view \notin Lists
    <2>1. window' = window
        BY <1>3 DEF DrawAgain
    <2> QED BY <1>1, <1>3, <2>1, NoListActive DEF WindowInv
<1> QED BY <1>2, <1>3

Through ==
    OpenThread \/ OpenFeedList \/ BackToFeed \/ OpenSettings \/ SettingsBack
        \/ OpenDiagnostics \/ DiagnosticsBack \/ SignOut \/ SignIn

LEMMA ThroughKeepsInv ==
    ASSUME WindowInv, Through
    PROVE  WindowInv'
<1> USE DEF WindowInv
<1>1. \A list \in Lists : window[list] \in Windows
    OBVIOUS
<1>2. {"feed", "dashboard", "diagnostics"} \subseteq Views \ Lists
    BY DEF Views, Lists
<1>3. CASE OpenThread
    <2>1. PICK w \in FetchThread : Render("thread", [w EXCEPT !.page_start = 0])
        BY <1>3 DEF OpenThread
    <2>2. PICK total \in PostsOfThread \cup {0} : w = Loaded(window["thread"], total)
        BY DEF FetchThread
    <2>3. window["thread"] \in Windows /\ total \in 0..MaxPosts \cup 0..MaxFeeds
        BY <1>1, BoundsAssumption DEF PostsOfThread, Lists
    <2>4. w \in Windows
        BY <2>2, <2>3, LoadedWindow
    <2>5. [w EXCEPT !.page_start = 0] \in Windows
        BY <2>4, MovedWindow
    <2> QED BY <1>3, <2>1, <2>5, DrawnView DEF OpenThread, Lists
<1>4. CASE OpenFeedList
    <2>1. PICK w \in FetchPinnedFeeds : Render("feed_list", w)
        BY <1>4 DEF OpenFeedList
    <2>2. PICK total \in 1..MaxFeeds : w = Loaded(window["feed_list"], total)
        BY DEF FetchPinnedFeeds
    <2>3. window["feed_list"] \in Windows /\ total \in 0..MaxPosts \cup 0..MaxFeeds
        BY <1>1, BoundsAssumption DEF Lists
    <2>4. w \in Windows
        BY <2>2, <2>3, LoadedWindow
    <2> QED BY <1>4, <2>1, <2>4, DrawnView DEF OpenFeedList, Lists
<1>5. CASE BackToFeed
    BY <1>2, <1>5, NoListActive DEF BackToFeed
<1>6. CASE OpenSettings
    <2>1. view \in {"feed", "thread"} /\ settings_return_view' = view /\ view' = "settings"
        BY <1>6 DEF OpenSettings
    <2>2. [window["settings"] EXCEPT !.page_start = 0] \in Windows
        BY <1>1, MovedWindow DEF Lists
    <2>3. Render("settings", [window["settings"] EXCEPT !.page_start = 0])
        BY <1>6 DEF OpenSettings
    <2> QED BY <2>1, <2>2, <2>3, DrawnView DEF Lists
<1>7. CASE SettingsBack
    <2>1. view' = settings_return_view /\ settings_return_view' = settings_return_view
        BY <1>7 DEF SettingsBack
    <2>2. CASE view' = "thread"
        <3>1. Render("thread", window["thread"])
            BY <1>7, <2>2 DEF SettingsBack, Redraw
        <3> QED BY <1>1, <2>1, <2>2, <3>1, DrawnView DEF Lists
    <2>3. CASE view' = "feed"
        <3>1. window' = window
            BY <1>7, <2>3 DEF SettingsBack
        <3> QED BY <1>2, <2>1, <2>3, <3>1, NoListActive
    <2> QED BY <2>1, <2>2, <2>3
<1>8. CASE OpenDiagnostics
    BY <1>2, <1>8, NoListActive DEF OpenDiagnostics
<1>9. CASE DiagnosticsBack
    <2>1. Render("settings", window["settings"])
        BY <1>9 DEF DiagnosticsBack, Redraw
    <2> QED BY <1>1, <1>9, <2>1, DrawnView DEF DiagnosticsBack, Lists
<1>10. CASE SignOut
    <2>1. view' = "dashboard" /\ settings_return_view' = settings_return_view
        BY <1>10 DEF SignOut
    <2>2. NothingDrawn \in [loaded : BOOLEAN, from : Nat, rows : Nat]
        BY DEF NothingDrawn
    <2> DEFINE thread == [total |-> 0, page_start |-> 0, page_count |-> 0, hits |-> NothingDrawn]
               feeds == [window["feed_list"] EXCEPT !.total = 0, !.hits = NothingDrawn]
    <2>3. thread \in Windows
        <3>1. 0 \in 0..MaxPosts
            BY BoundsAssumption
        <3> QED BY <2>2, <3>1 DEF Windows
    <2>4. feeds \in Windows
        <3>1. 0 \in 0..MaxFeeds /\ window["feed_list"] \in Windows
            BY <1>1, BoundsAssumption DEF Lists
        <3> QED BY <2>2, <3>1 DEF Windows
    <2>5. window' = [window EXCEPT !["thread"] = thread, !["feed_list"] = feeds]
        BY <1>10 DEF SignOut, Lists
    <2> HIDE DEF thread, feeds
    <2>6. window' \in [Lists -> Windows]
        BY <2>3, <2>4, <2>5
    <2> QED BY <1>2, <2>1, <2>6, NoListActive
<1>11. CASE SignIn
    BY <1>2, <1>11, NoListActive DEF SignIn
<1> QED BY <1>3, <1>4, <1>5, <1>6, <1>7, <1>8, <1>9, <1>10, <1>11 DEF Through

-----------------------------------------------------------------------------
(* The invariant. *)

LEMMA InitInv == Init => Inv
<1> SUFFICES ASSUME Init PROVE Inv
    OBVIOUS
<1>1. NothingDrawn \in [loaded : BOOLEAN, from : Nat, rows : Nat]
    BY DEF NothingDrawn
<1>2. \A list \in Lists : window[list] \in Windows
    BY <1>1, BoundsAssumption DEF Init, ScrollInit, Lists, Windows
<1>3. window \in [Lists -> Windows]
    BY <1>2 DEF Init, ScrollInit
<1>4. view \in {"dashboard", "feed"} /\ settings_return_view = "feed"
    BY DEF Init, ScrollInit
<1>5. view \in Views \ Lists
    BY <1>4 DEF Views, Lists
<1>6. WindowInv
    BY <1>3, <1>4, <1>5 DEF WindowInv
<1>7. ControlInv
    <2>1. redraw \in BOOLEAN /\ undrawn \in BOOLEAN /\ (undrawn => redraw)
        <3>1. redraw \in BOOLEAN /\ undrawn \in {FALSE, redraw}
            BY DEF Init
        <3>2. undrawn = FALSE \/ undrawn = redraw
            BY <3>1, Zenon
        <3>3. CASE undrawn = FALSE
            BY <3>1, <3>3, Zenon
        <3>4. CASE undrawn = redraw
            BY <3>1, <3>4, Zenon
        <3> QED BY <3>2, <3>3, <3>4, Zenon
    <2>2. running = TRUE /\ dimmed = FALSE /\ picker = FALSE
        BY DEF Init
    <2>3. screen = [band \in Bands |-> Drawn(view, FALSE)]
        BY DEF Init
    <2>4. screen \in [Bands -> [view : Views, picker : BOOLEAN]] /\ Shown
        BY <1>5, <2>2, <2>3 DEF Shown, Bands, Drawn, Dashboard
    <2> QED BY <2>1, <2>2, <2>4 DEF ControlInv
<1> QED BY <1>6, <1>7 DEF Inv

(***************************************************************************)
(* A handler that ends with the drawing of its view leaves the screen      *)
(* right, and nothing undrawn on a timeline.                               *)
(***************************************************************************)
LEMMA DrawViewKeepsControl ==
    ASSUME ControlInv, running, NEW full \in BOOLEAN, DrawView(full), view' \in Views,
           running' \in BOOLEAN, dimmed' \in BOOLEAN, picker' \in BOOLEAN, redraw' \in BOOLEAN,
           picker' => view' = "settings",
           full \/ (view' = view /\ picker' = picker)
    PROVE  ControlInv'
<1> DEFINE drawn == Drawn(view', picker')
           fresh == Refreshed(view', full)
<1>1. /\ screen' = [band \in Bands |-> IF band \in fresh THEN drawn ELSE screen[band]]
      /\ drawn \in [view : Views, picker : BOOLEAN]
    BY DEF DrawView, Drawn, ControlInv
<1>2. screen' \in [Bands -> [view : Views, picker : BOOLEAN]]
    BY <1>1 DEF ControlInv
<1>3. "body" \in fresh /\ fresh \subseteq Bands
      /\ (full \/ view' \notin Timelines => fresh = Bands)
      /\ (view' = "thread" => "buttons" \in fresh)
    BY DEF Refreshed, Bands, Timelines
<1> HIDE DEF fresh
<1>4. \A band \in Bands : screen'[band] \in {drawn, Dashboard}
    BY <1>1, <1>3 DEF ControlInv, Shown
<1>5. screen'["body"] = drawn
    BY <1>1, <1>3
<1>6. drawn = Dashboard => view' = "dashboard"
    BY DEF Drawn, Dashboard
<1>7. screen'["body"] = Dashboard => \A band \in Bands : screen'[band] = Dashboard
    BY <1>1, <1>3, <1>5, <1>6 DEF Timelines
<1>8. view' # "feed" => screen'["buttons"] = screen'["body"]
    BY <1>1, <1>3, <1>5 DEF Timelines, Bands
<1>9. view' \notin Timelines => screen'["header"] = screen'["body"]
    BY <1>1, <1>3, <1>5 DEF Bands
<1>10. undrawn' \in BOOLEAN /\ ~(view' \in Timelines /\ undrawn')
    BY DEF DrawView, ControlInv
<1>11. Shown'
    BY <1>4, <1>7, <1>8, <1>9 DEF Shown
<1> QED BY <1>2, <1>10, <1>11 DEF ControlInv

(***************************************************************************)
(* The dashboard covers everything.                                        *)
(***************************************************************************)
LEMMA DashboardKeepsControl ==
    ASSUME Inv, DrawDashboard, UNCHANGED <<view, picker>>,
           running' \in BOOLEAN, dimmed' = dimmed, redraw' = redraw
    PROVE  ControlInv'
<1>1. /\ screen' = [band \in Bands |-> Dashboard]
      /\ Dashboard \in [view : Views, picker : BOOLEAN]
    BY DEF DrawDashboard, Dashboard, Drawn, Views
<1>2. Shown'
    BY <1>1 DEF Shown, Bands
<1>3. screen' \in [Bands -> [view : Views, picker : BOOLEAN]]
    BY <1>1
<1> QED BY <1>2, <1>3 DEF DrawDashboard, Inv, ControlInv

(***************************************************************************)
(* What does not touch the screen, or the view, leaves it right.           *)
(***************************************************************************)
LEMMA ScreenStays ==
    ASSUME ControlInv, UNCHANGED <<view, picker, screen>>, running' => running,
           running' \in BOOLEAN, dimmed' \in BOOLEAN, redraw' \in BOOLEAN, undrawn' \in BOOLEAN,
           view \in Timelines /\ undrawn' => redraw'
    PROVE  ControlInv'
BY DEF ControlInv, Shown

LEMMA TapViewKeepsInv ==
    ASSUME Inv, WindowInv', Tapped, UNCHANGED control, NEW full \in BOOLEAN, DrawView(full),
           full \/ view' = view
    PROVE  Inv'
<1>1. running /\ running' = running /\ dimmed' = dimmed /\ picker = FALSE /\ picker' = FALSE
      /\ redraw' = redraw
    BY DEF Tapped, Awake, control, Inv, ControlInv
<1>2. /\ view' \in Views /\ running' \in BOOLEAN /\ dimmed' \in BOOLEAN /\ redraw' \in BOOLEAN
      /\ picker' \in BOOLEAN /\ (picker' => view' = "settings")
    BY <1>1 DEF Inv, WindowInv, ControlInv
<1>3. ControlInv'
    BY <1>1, <1>2, DrawViewKeepsControl DEF Inv
<1> QED BY <1>3 DEF Inv

LEMMA WindowsUnchanged ==
    ASSUME WindowInv, UNCHANGED scrolling
    PROVE  WindowInv'
BY DEF WindowInv, scrolling, Settled

LEMMA NextInv == Inv /\ [Next]_vars => Inv'
<1> SUFFICES ASSUME Inv, [Next]_vars PROVE Inv'
    OBVIOUS
<1> USE DEF Inv
<1>1. CASE Wake
    BY <1>1, WindowsUnchanged, ScreenStays DEF Wake, ControlInv, scrolling
<1>2. CASE \E list \in Lists : TapScroll(list)
    <2>1. PICK list \in Lists : TapScroll(list)
        BY <1>2
    <2>2. WindowInv' /\ view' = view
        BY <2>1, ScrollKeepsInv DEF TapScroll, TapView
    <2> QED BY <2>1, <2>2, TapViewKeepsInv DEF TapScroll, TapView
<1>3. CASE TapFeedListEnd \/ TapStats
    <2>1. UNCHANGED vars
        BY <1>3 DEF TapFeedListEnd, TapStats, FeedListStays, vars
    <2> QED BY <2>1, WindowsUnchanged, ScreenStays DEF vars, control, ControlInv, scrolling
<1>4. CASE TapThrough
    <2>1. WindowInv'
        BY <1>4, ThroughKeepsInv DEF TapThrough, TapView, Through
    <2> QED BY <1>4, <2>1, TapViewKeepsInv DEF TapThrough, TapView
<1>5. CASE TapStays
    <2>1. PICK full \in BOOLEAN : TapView(DrawAgain, full)
        BY <1>5 DEF TapStays
    <2>2. WindowInv' /\ view' = view
        BY <2>1, DrawAgainKeepsInv DEF TapView
    <2> QED BY <2>1, <2>2, TapViewKeepsInv DEF TapView
<1>6. CASE TapExit
    BY <1>6, WindowsUnchanged, DashboardKeepsControl DEF TapExit, scrolling
<1>7. CASE ShowPicker
    <2>1. WindowInv' /\ view' = "settings"
        BY <1>7, DrawAgainKeepsInv DEF ShowPicker
    <2>2. DrawView(TRUE) /\ running /\ running' = running /\ dimmed' = dimmed /\ redraw' = redraw
          /\ picker' = TRUE
        BY <1>7 DEF ShowPicker, Tapped, Awake
    <2>3. ControlInv'
        BY <2>1, <2>2, DrawViewKeepsControl DEF ControlInv, WindowInv
    <2> QED BY <2>1, <2>3
<1>8. CASE TapPicker
    <2>1. WindowInv'
        BY <1>8, DrawAgainKeepsInv DEF TapPicker
    <2>2. DrawView(TRUE) /\ running /\ running' = running /\ dimmed' = dimmed /\ redraw' = redraw
          /\ picker' = FALSE
        BY <1>8 DEF TapPicker, Awake
    <2>3. ControlInv'
        BY <2>1, <2>2, DrawViewKeepsControl DEF ControlInv, WindowInv
    <2> QED BY <2>1, <2>3
<1>9. CASE PageKey
    <2>1. WindowInv' /\ view' = view
        BY <1>9, ScrollKeepsInv, DrawAgainKeepsInv DEF PageKey
    <2>2. DrawView(TRUE) /\ running /\ UNCHANGED control
        BY <1>9 DEF PageKey, Awake
    <2>3. ControlInv'
        BY <2>1, <2>2, DrawViewKeepsControl DEF ControlInv, WindowInv, control
    <2> QED BY <2>1, <2>3
<1>10. CASE OtherKey
    BY <1>10, WindowsUnchanged, DashboardKeepsControl DEF OtherKey, ControlInv, scrolling, control
<1>11. CASE PowerKey
    BY <1>11, WindowsUnchanged, DashboardKeepsControl DEF PowerKey, scrolling
<1>12. CASE Stop
    BY <1>12, WindowsUnchanged, ScreenStays DEF Stop, ControlInv, scrolling
<1>13. CASE ImageArrives
    BY <1>13, WindowsUnchanged, ScreenStays DEF ImageArrives, ControlInv, scrolling
<1>14. CASE Idle
    <2>1. PICK pollFailed \in BOOLEAN, due \in BOOLEAN, probe \in BOOLEAN : IdlePoll(pollFailed, due, probe)
        BY <1>14 DEF Idle
    <2>2. running /\ running' = running /\ picker' = picker /\ dimmed' \in BOOLEAN /\ redraw' \in BOOLEAN
        BY <2>1 DEF IdlePoll, ControlInv
    <2>3. CASE DrawsIdle(pollFailed, probe)
        <3>1. DrawAgain /\ DrawView(FALSE)
            BY <2>1, <2>3 DEF IdlePoll
        <3>2. WindowInv' /\ view' = view
            BY <3>1, DrawAgainKeepsInv
        <3>3. ControlInv'
            BY <2>2, <3>1, <3>2, DrawViewKeepsControl DEF ControlInv, WindowInv
        <3> QED BY <3>2, <3>3
    <2>4. CASE ~DrawsIdle(pollFailed, probe)
        <3>1. UNCHANGED <<scrolling, screen, undrawn>>
            BY <2>1, <2>4 DEF IdlePoll
        <3>2. WindowInv'
            BY <3>1, WindowsUnchanged
        <3>3. view \in Timelines => redraw' = redraw
            BY <2>1, <2>4 DEF IdlePoll, DrawsIdle, Announced, ControlInv
        <3>4. ControlInv'
            BY <2>2, <3>1, <3>3, ScreenStays DEF ControlInv, scrolling
        <3> QED BY <3>2, <3>4
    <2> QED BY <2>3, <2>4
<1>15. CASE UNCHANGED vars
    BY <1>15, WindowsUnchanged, ScreenStays DEF vars, control, ControlInv, scrolling
<1> QED BY <1>1, <1>2, <1>3, <1>4, <1>5, <1>6, <1>7, <1>8, <1>9, <1>10, <1>11, <1>12, <1>13, <1>14, <1>15 DEF Next

LEMMA Invariance == Spec => []Inv
<1>1. Init => Inv
    BY InitInv
<1>2. Inv /\ [Next]_vars => Inv'
    BY NextInv
<1> QED BY <1>1, <1>2, PTL DEF Spec

-----------------------------------------------------------------------------
(* The theorems. *)

(***************************************************************************)
(* Every variable keeps to its domain, and the window of the active list   *)
(* lies within the list.                                                   *)
(***************************************************************************)
THEOREM TypeCorrect == Spec => []TypeOK
<1>1. Inv => TypeOK
    <2> SUFFICES ASSUME Inv PROVE TypeOK
        OBVIOUS
    <2>1. CASE view \in Lists
        <3> DEFINE w == window[view]
        <3>1. w.total \in Nat /\ w.page_start \in Nat /\ w.page_start <= Most(0, w.total - 1)
              /\ w.page_count \in Fitting(view, w.total - w.page_start)
            BY <2>1, TotalsAreNat DEF Inv, WindowInv, Settled, Windows
        <3>2. w.total - w.page_start \in Nat
            BY <3>1
        <3>3. w.page_count \in Nat /\ w.page_count <= w.total - w.page_start
            BY <2>1, <3>1, <3>2, FittingBounds
        <3>4. w.page_start + w.page_count <= w.total
            BY <3>1, <3>3
        <3> QED BY <3>4 DEF Inv, WindowInv, ControlInv, TypeOK
    <2>2. CASE view \notin Lists
        BY <2>2 DEF Inv, WindowInv, ControlInv, TypeOK
    <2> QED BY <2>1, <2>2
<1> QED BY <1>1, Invariance, PTL

(***************************************************************************)
(* While a list is active its hit boxes are of the list that is loaded,    *)
(* and of the rows that its window names: no tap lands on a post or a feed *)
(* of a list that was replaced.                                            *)
(***************************************************************************)
THEOREM TapsLandInTheList == Spec => []HitsAreOfList
<1>1. Inv => HitsAreOfList
    BY DEF Inv, WindowInv, Settled, HitsAreOfList
<1> QED BY <1>1, Invariance, PTL

(***************************************************************************)
(* The part of the screen that every drawing refreshes shows the view the  *)
(* next tap is taken for, or the dashboard that an unhandled key draws;    *)
(* nothing but that view and that dashboard is on the rest, and the rest   *)
(* of a view that is not a timeline goes with its body.                    *)
(***************************************************************************)
THEOREM BodyIsViewOrDashboard == Spec => []ScreenIsView
<1>1. Inv => ScreenIsView
    BY DEF Inv, ControlInv, Shown, ScreenIsView
<1> QED BY <1>1, Invariance, PTL

(***************************************************************************)
(* An image that the active timeline was drawn without is announced.       *)
(***************************************************************************)
THEOREM NoImageForgotten == Spec => []ArrivalsAnnounced
<1>1. Inv => ArrivalsAnnounced
    BY DEF Inv, ControlInv, ArrivalsAnnounced
<1> QED BY <1>1, Invariance, PTL

-----------------------------------------------------------------------------

(***************************************************************************)
(* What a drawn window says: where it starts, and how much it shows.       *)
(***************************************************************************)
LEMMA SettledWindow ==
    ASSUME NEW list \in Lists, NEW w \in Windows, Settled(list, w)
    PROVE  /\ w.total \in Nat /\ w.page_start \in Nat /\ w.page_count \in Nat
           /\ w.page_start <= Most(0, w.total - 1)
           /\ w.page_start + w.page_count <= w.total
           /\ w.total > 0 => w.page_count > 0
           /\ list = "feed_list" => w.page_count = Least(FeedRows, w.total - w.page_start)
           /\ list = "settings" => w.page_count = Least(VisibleRows, w.total - w.page_start)
<1>1. w.total \in Nat /\ w.page_start \in Nat /\ w.page_start <= Most(0, w.total - 1)
      /\ w.page_count \in Fitting(list, w.total - w.page_start)
    BY TotalsAreNat DEF Settled, Windows
<1>2. w.total - w.page_start \in Nat
    BY <1>1
<1>3. /\ w.page_count \in Nat /\ w.page_count <= w.total - w.page_start
      /\ w.total - w.page_start > 0 => w.page_count > 0
      /\ list = "feed_list" => w.page_count = Least(FeedRows, w.total - w.page_start)
      /\ list = "settings" => w.page_count = Least(VisibleRows, w.total - w.page_start)
    BY <1>1, <1>2, FittingBounds
<1> QED BY <1>1, <1>3

(***************************************************************************)
(* Scrolling down moves on, skips nothing, and is refused only at the end, *)
(* for entries of any heights; and rows, which are of a height, show more  *)
(* of their list each time.                                                *)
(***************************************************************************)
THEOREM ScrollingDownIsComplete == Spec => DownSkipsNothing
<1> DEFINE Advances(list) ==
               ScrollDown(list) =>
                   window[list].page_start < window'[list].page_start
                       /\ window'[list].page_start <= window[list].page_start + window[list].page_count
           ShowsMore(list) ==
               ScrollDown(list) /\ list # "thread" =>
                   window[list].page_start + window[list].page_count
                       < window'[list].page_start + window'[list].page_count
           EndIsDrawn(list) ==
               view = list /\ window[list].page_start >= MaxStart(window[list]) =>
                   window[list].page_start + window[list].page_count = window[list].total
<1>1. ASSUME Inv, NEW list \in Lists PROVE Advances(list)
    <2> SUFFICES ASSUME ScrollDown(list)
                 PROVE  /\ window[list].page_start < window'[list].page_start
                        /\ window'[list].page_start <= window[list].page_start + window[list].page_count
        OBVIOUS
    <2> DEFINE w == window[list]
               start == Least(MaxStart(w), w.page_start + Step(w))
    <2>1. view = list /\ w.page_start < MaxStart(w) /\ Render(list, [w EXCEPT !.page_start = start])
        BY DEF ScrollDown
    <2>2. w \in Windows /\ Settled(list, w)
        BY <1>1, <2>1 DEF Inv, WindowInv
    <2> HIDE DEF w
    <2>3. /\ w.total \in Nat /\ w.page_start \in Nat /\ w.page_count \in Nat
          /\ w.page_start + w.page_count <= w.total /\ (w.total > 0 => w.page_count > 0)
        BY <2>2, SettledWindow
    <2>4. MaxStart(w) = Most(0, w.total - Most(1, w.page_count)) /\ MaxStart(w) \in Nat
        BY <2>2, StepBounds
    <2>5. Step(w) \in Nat /\ Step(w) > 0 /\ (w.page_count > 1 => Step(w) = w.page_count - 1)
          /\ (w.page_count \in {0, 1} => Step(w) = 1)
        BY <2>2, StepBounds
    <2>6. w.page_count > 0 /\ Step(w) <= w.page_count
        BY <2>1, <2>3, <2>4, <2>5
    <2>7. start \in Nat /\ w.page_start < start /\ start <= w.page_start + w.page_count /\ start <= w.total - 1
        BY <2>1, <2>3, <2>4, <2>5, <2>6
    <2> HIDE DEF start
    <2>8. [w EXCEPT !.page_start = start] \in Windows /\ [w EXCEPT !.page_start = start].page_start = start
          /\ [w EXCEPT !.page_start = start].total = w.total
        BY <2>2, <2>7, MovedWindow
    <2>9. window'[list].page_start = Clamped(start, w.total)
        BY <1>1, <2>1, <2>8, RenderDraws DEF Inv, WindowInv
    <2>10. Clamped(start, w.total) = start
        BY <2>3, <2>7 DEF Clamped
    <2> QED BY <2>7, <2>9, <2>10 DEF w
<1>2. ASSUME Inv, NEW list \in Lists PROVE EndIsDrawn(list)
    <2> SUFFICES ASSUME view = list, window[list].page_start >= MaxStart(window[list])
                 PROVE  window[list].page_start + window[list].page_count = window[list].total
        OBVIOUS
    <2> DEFINE w == window[list]
    <2>1. w \in Windows /\ Settled(list, w)
        BY <1>2 DEF Inv, WindowInv
    <2>2. w.page_start >= MaxStart(w)
        OBVIOUS
    <2> HIDE DEF w
    <2>3. /\ w.total \in Nat /\ w.page_start \in Nat /\ w.page_count \in Nat
          /\ w.page_start + w.page_count <= w.total /\ (w.total > 0 => w.page_count > 0)
        BY <2>1, SettledWindow
    <2>4. MaxStart(w) = Most(0, w.total - Most(1, w.page_count))
        BY <2>1, StepBounds
    <2>5. w.page_start + w.page_count = w.total
        BY <2>2, <2>3, <2>4
    <2> QED BY <2>5 DEF w
<1>3. ASSUME Inv, NEW list \in Lists PROVE ShowsMore(list)
    <2> SUFFICES ASSUME ScrollDown(list), list # "thread"
                 PROVE  window[list].page_start + window[list].page_count
                            < window'[list].page_start + window'[list].page_count
        OBVIOUS
    <2> DEFINE w == window[list]
               drawn == window'[list]
               start == Least(MaxStart(w), w.page_start + Step(w))
    <2> PICK rows \in Nat \ {0} :
            rows = IF list = "feed_list" THEN FeedRows ELSE VisibleRows
        BY BoundsAssumption
    <2>1. view = list /\ w.page_start < MaxStart(w) /\ Render(list, [w EXCEPT !.page_start = start])
        BY DEF ScrollDown
    <2>2. w \in Windows /\ Settled(list, w)
        BY <1>3, <2>1 DEF Inv, WindowInv
    <2>3. list = "feed_list" \/ list = "settings"
        BY DEF Lists
    <2> HIDE DEF w
    <2>4. /\ w.total \in Nat /\ w.page_start \in Nat /\ w.page_count \in Nat
          /\ w.page_count = Least(rows, w.total - w.page_start)
        BY <2>2, <2>3, SettledWindow
    <2>5. MaxStart(w) = Most(0, w.total - Most(1, w.page_count)) /\ MaxStart(w) \in Nat
          /\ Step(w) \in Nat /\ Step(w) > 0
        BY <2>2, StepBounds
    <2>6. w.page_count = rows
        BY <2>1, <2>4, <2>5
    <2>7. start \in Nat /\ w.page_start < start /\ start <= w.total - rows
        BY <2>1, <2>4, <2>5, <2>6
    <2> HIDE DEF start
    <2>8. [w EXCEPT !.page_start = start] \in Windows /\ [w EXCEPT !.page_start = start].page_start = start
          /\ [w EXCEPT !.page_start = start].total = w.total
        BY <2>2, <2>7, MovedWindow
    <2>9. /\ drawn \in Windows /\ Settled(list, drawn)
          /\ drawn.total = w.total /\ drawn.page_start = Clamped(start, w.total)
        BY <1>3, <2>1, <2>8, RenderDraws DEF Inv, WindowInv
    <2>10. Clamped(start, w.total) = start
        BY <2>4, <2>7 DEF Clamped
    <2> HIDE DEF drawn
    <2>11. drawn.page_count = Least(rows, w.total - start)
        BY <2>3, <2>9, <2>10, SettledWindow
    <2>12. w.page_start + w.page_count < drawn.page_start + drawn.page_count
        BY <2>4, <2>6, <2>7, <2>9, <2>10, <2>11
    <2> QED BY <2>12 DEF w, drawn
<1>4. Inv => \A list \in Lists : Advances(list) /\ EndIsDrawn(list) /\ ShowsMore(list)
    BY <1>1, <1>2, <1>3
<1>5. Inv => [\A list \in Lists :
                LET w == window[list]
                    moved == window'[list]
                IN  /\ ScrollDown(list) =>
                        /\ w.page_start < moved.page_start
                        /\ moved.page_start <= w.page_start + w.page_count
                        /\ list # "thread" =>
                              w.page_start + w.page_count < moved.page_start + moved.page_count
                    /\ view = list /\ w.page_start >= MaxStart(w) =>
                        w.page_start + w.page_count = w.total]_vars
    BY <1>4
<1> QED BY <1>5, Invariance, PTL DEF DownSkipsNothing

(***************************************************************************)
(* Scrolling up through rows of one height moves, and skips nothing.       *)
(***************************************************************************)
THEOREM ScrollingUpIsComplete == Spec => UpSkipsNoRow
<1> DEFINE Retreats(list) ==
               ScrollUp(list) =>
                   /\ window'[list].page_start < window[list].page_start
                   /\ window[list].page_start <= window'[list].page_start + window'[list].page_count
<1>1. ASSUME Inv, NEW list \in {"feed_list", "settings"} PROVE Retreats(list)
    <2> SUFFICES ASSUME ScrollUp(list)
                 PROVE  /\ window'[list].page_start < window[list].page_start
                        /\ window[list].page_start <= window'[list].page_start + window'[list].page_count
        OBVIOUS
    <2> DEFINE w == window[list]
               drawn == window'[list]
               start == Most(0, w.page_start - Step(w))
    <2> PICK rows \in Nat \ {0} :
            rows = IF list = "feed_list" THEN FeedRows ELSE VisibleRows
        BY BoundsAssumption
    <2>1. view = list /\ list \in Lists /\ w.page_start > 0 /\ Render(list, [w EXCEPT !.page_start = start])
        BY DEF ScrollUp, Lists
    <2>2. w \in Windows /\ Settled(list, w)
        BY <1>1, <2>1 DEF Inv, WindowInv
    <2> HIDE DEF w
    <2>3. /\ w.total \in Nat /\ w.page_start \in Nat /\ w.page_count \in Nat
          /\ w.page_start <= w.total - 1
          /\ w.page_count = Least(rows, w.total - w.page_start)
        <3>1. /\ w.total \in Nat /\ w.page_start \in Nat /\ w.page_count \in Nat
              /\ w.page_start <= Most(0, w.total - 1)
              /\ list = "feed_list" => w.page_count = Least(FeedRows, w.total - w.page_start)
              /\ list = "settings" => w.page_count = Least(VisibleRows, w.total - w.page_start)
            BY <2>1, <2>2, SettledWindow
        <3>2. w.page_start <= w.total - 1
            BY <2>1, <3>1
        <3> QED BY <3>1, <3>2
    <2>4. Step(w) \in Nat /\ Step(w) > 0 /\ (w.page_count > 1 => Step(w) = w.page_count - 1)
          /\ (w.page_count \in {0, 1} => Step(w) = 1)
        BY <2>2, StepBounds
    <2>5. start \in Nat /\ start < w.page_start /\ start <= w.total - 1 /\ w.page_start - start <= Step(w)
        BY <2>1, <2>3, <2>4
    <2> HIDE DEF start
    <2>6. [w EXCEPT !.page_start = start] \in Windows /\ [w EXCEPT !.page_start = start].page_start = start
          /\ [w EXCEPT !.page_start = start].total = w.total
        BY <2>2, <2>5, MovedWindow
    <2>7. /\ drawn \in Windows /\ Settled(list, drawn)
          /\ drawn.total = w.total /\ drawn.page_start = Clamped(start, w.total)
        BY <1>1, <2>1, <2>6, RenderDraws DEF Inv, WindowInv
    <2>8. Clamped(start, w.total) = start
        BY <2>3, <2>5 DEF Clamped
    <2> HIDE DEF drawn
    <2>9. drawn.page_count = Least(rows, w.total - start)
        BY <2>1, <2>7, <2>8, SettledWindow
    <2>10. Step(w) <= rows
        BY <2>3, <2>4
    <2>11. w.page_start <= start + Least(rows, w.total - start)
        <3>1. CASE rows < w.total - start
            BY <2>3, <2>4, <2>5, <2>10, <3>1
        <3>2. CASE ~(rows < w.total - start)
            BY <2>3, <2>5, <3>2
        <3> QED BY <3>1, <3>2
    <2> QED BY <2>5, <2>7, <2>8, <2>9, <2>11 DEF w, drawn
<1>2. Inv => [\A list \in {"feed_list", "settings"} :
                ScrollUp(list) =>
                    /\ window'[list].page_start < window[list].page_start
                    /\ window[list].page_start <= window'[list].page_start + window'[list].page_count]_vars
    BY <1>1
<1> QED BY <1>2, Invariance, PTL DEF UpSkipsNoRow

-----------------------------------------------------------------------------
(***************************************************************************)
(* The list of a thread.  What a loop or a recursion computes is shown by  *)
(* induction over the steps it made.                                       *)
(***************************************************************************)
LEMMA StepByStep ==
  ASSUME NEW N \in Nat, NEW S, 0 \in S, \A n \in 1..N : n - 1 \in S => n \in S
  PROVE  \A n \in 0..N : n \in S
  <1> DEFINE T == {n \in Nat : n <= N /\ n \notin S}
  <1> SUFFICES ASSUME T # {} PROVE FALSE
    OBVIOUS
  <1>1. PICK m \in T : \A k \in T : ~ (<<k, m>> \in OpToRel(<, Nat))
    <2>1. IsWellFoundedOn(OpToRel(<, Nat), Nat)
      BY NatLessThanWellFounded
    <2>2. QED
      BY <2>1, WFMin
  <1>2. m \in 1..N /\ m \notin S /\ m - 1 \in Nat /\ m - 1 <= N
    <2>1. m \in Nat /\ m <= N /\ m \notin S
      OBVIOUS
    <2>2. m # 0
      BY <2>1
    <2>3. QED
      BY <2>1, <2>2
  <1>3. m - 1 \notin T
    <2>1. <<m - 1, m>> \in OpToRel(<, Nat)
      BY <1>2 DEF OpToRel
    <2>2. QED
      BY <1>1, <2>1
  <1>4. QED
    BY <1>2, <1>3

-----------------------------------------------------------------------------
(* The functions, without their recursion.                                 *)
LEMMA CopiedUnfolds ==
  ASSUME NEW tree, NEW n, NEW depth, Len(tree.replies[n]) \in Nat
  PROVE  \E copy :
           /\ Copied(tree, n, depth) = copy[Len(tree.replies[n])]
           /\ copy[0] = <<>>
           /\ \A k \in 1..Len(tree.replies[n]) :
                copy[k] = IF depth > MaxDepth THEN <<>>
                          ELSE IF tree.replies[n][k] \in tree.kept
                          THEN Append(copy[k - 1], tree.replies[n][k])
                          ELSE copy[k - 1]
  <1> DEFINE replies == tree.replies[n]
             copy[k \in 0..Len(replies)] ==
               IF k = 0 \/ depth > MaxDepth THEN <<>>
               ELSE IF replies[k] \in tree.kept THEN Append(copy[k - 1], replies[k])
               ELSE copy[k - 1]
             One(v, k) == IF depth > MaxDepth THEN <<>>
                          ELSE IF replies[k] \in tree.kept THEN Append(v, replies[k]) ELSE v
  <1>1. FiniteNatInductiveDefHypothesis(copy, <<>>, One, 0, Len(replies))
    BY DEF FiniteNatInductiveDefHypothesis
  <1>2. FiniteNatInductiveDefConclusion(copy, <<>>, One, 0, Len(replies))
    BY <1>1, FiniteNatInductiveDef
  <1>3. copy = [k \in 0..Len(replies) |-> IF k = 0 THEN <<>> ELSE One(copy[k - 1], k)]
    BY <1>2 DEF FiniteNatInductiveDefConclusion
  <1>4. Copied(tree, n, depth) = copy[Len(replies)]
    BY DEF Copied
  <1> HIDE DEF copy
  <1>5. copy[0] = <<>>
    BY <1>3
  <1>6. ASSUME NEW k \in 1..Len(replies) PROVE copy[k] = One(copy[k - 1], k)
    <2>1. k \in 0..Len(replies) /\ k # 0
      OBVIOUS
    <2> HIDE DEF One
    <2>2. QED
      BY <1>3, <2>1
  <1>7. QED
    BY <1>4, <1>5, <1>6

Listed(list, tree, n, depth, deeper) ==
    /\ ListFrom(tree, n, depth, deeper) = list[Len(Copied(tree, n, depth))]
    /\ list[0] = <<Line(n, depth)>>
    /\ \A k \in 1..Len(Copied(tree, n, depth)) :
         list[k] = list[k - 1] \o deeper[Copied(tree, n, depth)[k]]

LEMMA ListFromUnfolds ==
  ASSUME NEW tree, NEW n, NEW depth, NEW deeper, Len(Copied(tree, n, depth)) \in Nat
  PROVE  \E list : Listed(list, tree, n, depth, deeper)
  <1> DEFINE replies == Copied(tree, n, depth)
             list[k \in 0..Len(replies)] ==
               IF k = 0 THEN <<Line(n, depth)>> ELSE list[k - 1] \o deeper[replies[k]]
             One(v, k) == v \o deeper[replies[k]]
  <1>1. FiniteNatInductiveDefHypothesis(list, <<Line(n, depth)>>, One, 0, Len(replies))
    BY DEF FiniteNatInductiveDefHypothesis
  <1>2. FiniteNatInductiveDefConclusion(list, <<Line(n, depth)>>, One, 0, Len(replies))
    BY <1>1, FiniteNatInductiveDef
  <1>3. list = [k \in 0..Len(replies) |-> IF k = 0 THEN <<Line(n, depth)>> ELSE One(list[k - 1], k)]
    BY <1>2 DEF FiniteNatInductiveDefConclusion
  <1>4. ListFrom(tree, n, depth, deeper) = list[Len(replies)]
    BY DEF ListFrom
  <1> HIDE DEF list
  <1>5. list[0] = <<Line(n, depth)>>
    BY <1>3
  <1>6. ASSUME NEW k \in 1..Len(replies) PROVE list[k] = One(list[k - 1], k)
    <2>1. k \in 0..Len(replies) /\ k # 0
      OBVIOUS
    <2> HIDE DEF One
    <2>2. QED
      BY <1>3, <2>1
  <1>7. QED
    BY <1>4, <1>5, <1>6 DEF Listed

LEMMA GenerationsUnfold ==
  ASSUME NEW tree
  PROVE  /\ Generations(tree)[0] = {tree.root}
         /\ \A d \in 1..(MaxDepth + 1) : Generations(tree)[d] = Following(tree, Generations(tree)[d - 1])
  <1> DEFINE at[d \in Depths] == IF d = 0 THEN {tree.root} ELSE Following(tree, at[d - 1])
             One(v, d) == Following(tree, v)
  <1>0. MaxDepth + 1 \in Nat
    BY DepthAssumption
  <1>1. FiniteNatInductiveDefHypothesis(at, {tree.root}, One, 0, MaxDepth + 1)
    BY DEF FiniteNatInductiveDefHypothesis, Depths
  <1>2. FiniteNatInductiveDefConclusion(at, {tree.root}, One, 0, MaxDepth + 1)
    BY <1>0, <1>1, FiniteNatInductiveDef
  <1>3. at = [d \in 0..(MaxDepth + 1) |-> IF d = 0 THEN {tree.root} ELSE One(at[d - 1], d)]
    BY <1>2 DEF FiniteNatInductiveDefConclusion
  <1>4. Generations(tree) = at
    BY DEF Generations
  <1> HIDE DEF at
  <1>5. at[0] = {tree.root}
    BY <1>0, <1>3
  <1>6. ASSUME NEW d \in 1..(MaxDepth + 1) PROVE at[d] = One(at[d - 1], d)
    <2>1. d \in 0..(MaxDepth + 1) /\ d # 0
      BY <1>0
    <2> HIDE DEF One
    <2>2. QED
      BY <1>3, <2>1
  <1>7. QED
    BY <1>4, <1>5, <1>6

-----------------------------------------------------------------------------
(* Trees.                                                                  *)
LEMMA TreeIs ==
  ASSUME NEW tree \in Trees
  PROVE  /\ tree.root \in Posts /\ tree.kept \subseteq Posts
         /\ \A n \in Posts :
              /\ tree.replies[n] \in Seq(Posts)
              /\ Len(tree.replies[n]) \in Nat /\ DOMAIN tree.replies[n] = 1..Len(tree.replies[n])
              /\ \A i \in DOMAIN tree.replies[n] : tree.replies[n][i] \in Posts
              /\ ~Answers(tree, tree.root, n)
         /\ \A n1, n2 \in Posts : \A i \in DOMAIN tree.replies[n1], j \in DOMAIN tree.replies[n2] :
              tree.replies[n1][i] = tree.replies[n2][j] => n1 = n2 /\ i = j
         /\ \A m, n1, n2 \in Posts : Answers(tree, m, n1) /\ Answers(tree, m, n2) => n1 = n2
  <1>1. tree.root \in Posts /\ tree.kept \subseteq Posts /\ tree.replies \in [Posts -> Seq(Posts)]
    BY DEF Trees
  <1>2. /\ \A n \in Posts : ~Answers(tree, tree.root, n)
        /\ \A n1, n2 \in Posts : \A i \in DOMAIN tree.replies[n1], j \in DOMAIN tree.replies[n2] :
              tree.replies[n1][i] = tree.replies[n2][j] => n1 = n2 /\ i = j
    BY DEF Trees
  <1>3. ASSUME NEW n \in Posts
        PROVE  /\ tree.replies[n] \in Seq(Posts)
               /\ Len(tree.replies[n]) \in Nat /\ DOMAIN tree.replies[n] = 1..Len(tree.replies[n])
               /\ \A i \in DOMAIN tree.replies[n] : tree.replies[n][i] \in Posts
    <2>1. tree.replies[n] \in Seq(Posts)
      BY <1>1
    <2>2. QED
      BY <2>1
  <1>4. \A m, n1, n2 \in Posts : Answers(tree, m, n1) /\ Answers(tree, m, n2) => n1 = n2
    BY <1>2 DEF Answers
  <1>5. QED
    BY <1>1, <1>2, <1>3, <1>4

(* Depths are well-founded from the deepest up.                            *)
Deeper == {ss \in Depths \X Depths : ss[1] > ss[2]}

LEMMA DeeperIsWellFounded == IsWellFoundedOn(Deeper, Depths)
  <1> DEFINE N == MaxDepth + 1
  <1>0. N \in Nat /\ Depths = 0..N
    BY DepthAssumption DEF Depths
  <1> HIDE DEF N
  <1>1. ASSUME NEW T \in SUBSET Depths, T # {}, \A x \in T : \E y \in T : <<y, x>> \in Deeper
        PROVE  FALSE
    <2> DEFINE S == {n \in 0..N : \A t \in T : t <= N - n}
    <2>1. \A x \in T : x \in 0..N /\ \E y \in T : y > x
      BY <1>0, <1>1 DEF Deeper
    <2>2. 0 \in S
      BY <1>0, <2>1
    <2>3. ASSUME NEW n \in 1..N, n - 1 \in S PROVE n \in S
      <3>1. \A t \in T : t <= N - (n - 1)
        BY <2>3
      <3>2. \A t \in T : t # N - (n - 1)
        BY <1>0, <2>1, <3>1
      <3>3. \A t \in T : t <= N - n
        BY <1>0, <2>1, <3>1, <3>2
      <3>4. QED
        BY <1>0, <3>3
    <2> HIDE DEF S
    <2>4. N \in S
      BY <1>0, <2>2, <2>3, StepByStep
    <2>5. \A t \in T : t <= 0
      BY <1>0, <2>4 DEF S
    <2>6. PICK x \in T : TRUE
      BY <1>1
    <2>7. QED
      BY <1>0, <2>1, <2>5, <2>6
  <1>2. \A T \in SUBSET Depths : T # {} => \E x \in T : \A y \in T : ~ (<<y, x>> \in Deeper)
    BY <1>1
  <1>3. QED
    BY <1>2, MinWF

(* No reply is followed beyond the last depth.                             *)
LEMMA NothingBeyond ==
  ASSUME NEW tree \in Trees, NEW n \in Posts, NEW depth \in Nat, depth > MaxDepth, NEW deeper
  PROVE  /\ Copied(tree, n, depth) = <<>>
         /\ ListFrom(tree, n, depth, deeper) = <<Line(n, depth)>>
  <1>0. Len(tree.replies[n]) \in Nat
    BY TreeIs
  <1>1. PICK copy : /\ Copied(tree, n, depth) = copy[Len(tree.replies[n])]
                    /\ copy[0] = <<>>
                    /\ \A k \in 1..Len(tree.replies[n]) : depth > MaxDepth => copy[k] = <<>>
    BY <1>0, CopiedUnfolds
  <1>2. Copied(tree, n, depth) = <<>>
    BY <1>0, <1>1
  <1>3. Len(Copied(tree, n, depth)) = 0
    BY <1>2
  <1>6. Len(Copied(tree, n, depth)) \in Nat
    BY <1>3
  <1>4. PICK list : Listed(list, tree, n, depth, deeper)
    BY <1>6, ListFromUnfolds
  <1>5. QED
    BY <1>2, <1>3, <1>4 DEF Listed

LEMMA FlattenedUnfolds ==
  ASSUME NEW tree \in Trees
  PROVE  \E list :
           /\ Flattened(tree) = list[0][tree.root]
           /\ list = [depth \in Depths |-> [n \in Posts |-> ListFrom(tree, n, depth, list[depth + 1])]]
  <1> DEFINE list[depth \in Depths] == [n \in Posts |-> ListFrom(tree, n, depth, list[depth + 1])]
             One(g, depth) == [n \in Posts |-> ListFrom(tree, n, depth, g[depth + 1])]
  <1>1. OpDefinesFcn(list, Depths, One)
    BY DEF OpDefinesFcn
  <1>2. ASSUME NEW g, NEW h, NEW x \in Depths, \A y \in SetLessThan(x, Deeper, Depths) : g[y] = h[y]
        PROVE  One(g, x) = One(h, x)
    <2>1. CASE x = MaxDepth + 1
      <3>1. x \in Nat /\ x > MaxDepth
        BY <2>1, DepthAssumption
      <3>2. \A n \in Posts : ListFrom(tree, n, x, g[x + 1]) = ListFrom(tree, n, x, h[x + 1])
        BY <3>1, NothingBeyond
      <3>3. QED
        BY <3>2
    <2>2. CASE x # MaxDepth + 1
      <3>1. x + 1 \in Depths /\ x \in Depths /\ x + 1 > x
        BY <2>2, DepthAssumption DEF Depths
      <3>2. <<x + 1, x>> \in Deeper
        BY <3>1 DEF Deeper
      <3>3. g[x + 1] = h[x + 1]
        BY <1>2, <3>1, <3>2 DEF SetLessThan
      <3>4. QED
        BY <3>3
    <2>3. QED
      BY <2>1, <2>2
  <1>3. WFDefOn(Deeper, Depths, One)
    <2> HIDE DEF One
    <2>1. QED
      BY <1>2 DEF WFDefOn
  <1>4. WFInductiveDefines(list, Depths, One)
    <2> HIDE DEF One, list
    <2>1. QED
      BY <1>1, <1>3, DeeperIsWellFounded, WFInductiveDef
  <1>5. list = [depth \in Depths |-> [n \in Posts |-> ListFrom(tree, n, depth, list[depth + 1])]]
    <2> HIDE DEF list
    <2>1. QED
      BY <1>4 DEF WFInductiveDefines
  <1>6. Flattened(tree) = list[0][tree.root]
    BY DEF Flattened
  <1> HIDE DEF list
  <1>7. QED
    BY <1>5, <1>6

(* What is copied of the replies to a post: those that were sent as posts, *)
(* in their order.                                                         *)
CopyOf(tree, n, k, depth, copy) ==
    /\ copy \in Seq(Posts)
    /\ \A a \in 1..Len(copy) : copy[a] \in tree.kept /\ \E p \in 1..k : copy[a] = tree.replies[n][p]
    /\ \A a, b \in 1..Len(copy) : \A p, q \in DOMAIN tree.replies[n] :
         copy[a] = tree.replies[n][p] /\ copy[b] = tree.replies[n][q] /\ a < b => p < q
    /\ depth <= MaxDepth =>
         \A p \in 1..k : tree.replies[n][p] \in tree.kept => \E a \in 1..Len(copy) : copy[a] = tree.replies[n][p]

LEMMA CopiedSoFar ==
  ASSUME NEW tree \in Trees, NEW n \in Posts, NEW depth \in Nat
  PROVE  CopyOf(tree, n, Len(tree.replies[n]), depth, Copied(tree, n, depth))
  <1> DEFINE r == tree.replies[n]
             N == Len(r)
  <1>0. N \in Nat /\ DOMAIN r = 1..N /\ \A i \in 1..N : r[i] \in Posts
    BY TreeIs
  <1>1. \A i, j \in 1..N : r[i] = r[j] => i = j
    BY <1>0, TreeIs
  <1>2. CASE depth > MaxDepth
    <2>1. Copied(tree, n, depth) = <<>> /\ ~ (depth <= MaxDepth)
      BY <1>2, NothingBeyond, DepthAssumption
    <2>2. QED
      BY <2>1 DEF CopyOf
  <1>3. CASE depth <= MaxDepth
    <2>1. PICK copy : /\ Copied(tree, n, depth) = copy[N]
                      /\ copy[0] = <<>>
                      /\ \A k \in 1..N :
                           copy[k] = IF depth > MaxDepth THEN <<>>
                                     ELSE IF r[k] \in tree.kept THEN Append(copy[k - 1], r[k])
                                     ELSE copy[k - 1]
      BY <1>0, CopiedUnfolds
    <2>2. \A k \in 1..N : copy[k] = IF r[k] \in tree.kept THEN Append(copy[k - 1], r[k]) ELSE copy[k - 1]
      BY <1>3, <2>1, DepthAssumption
    <2> DEFINE S == {k \in 0..N : CopyOf(tree, n, k, depth, copy[k])}
    <2>3. 0 \in S
      <3>1. <<>> \in Seq(Posts) /\ Len(<<>>) = 0 /\ 1..0 = {}
        OBVIOUS
      <3>2. CopyOf(tree, n, 0, depth, <<>>)
        BY <3>1 DEF CopyOf
      <3>3. QED
        BY <1>0, <2>1, <3>2
    <2>4. ASSUME NEW k \in 1..N, k - 1 \in S PROVE k \in S
      <3> DEFINE c == copy[k - 1]
      <3>1. CopyOf(tree, n, k - 1, depth, c)
        BY <2>4
      <3>2. c \in Seq(Posts) /\ Len(c) \in Nat /\ r[k] \in Posts
        BY <1>0, <3>1 DEF CopyOf
      <3>3. CASE r[k] \notin tree.kept
        <4>1. copy[k] = c
          BY <2>2, <3>3
        <4>2. CopyOf(tree, n, k, depth, c)
          BY <1>0, <3>1, <3>3 DEF CopyOf
        <4>3. QED
          BY <4>1, <4>2
      <3>4. CASE r[k] \in tree.kept
        <4> DEFINE e == Append(c, r[k])
        <4>1. copy[k] = e
          BY <2>2, <3>4
        <4>2. /\ e \in Seq(Posts) /\ Len(e) = Len(c) + 1
              /\ \A a \in 1..Len(c) : e[a] = c[a]
              /\ e[Len(c) + 1] = r[k]
          BY <3>2
        <4> HIDE DEF e, c
        <4>3. ASSUME NEW a \in 1..Len(e)
              PROVE  e[a] \in tree.kept /\ \E p \in 1..k : e[a] = r[p]
          <5>1. CASE a = Len(c) + 1
            <6>1. k \in 1..k /\ e[a] = r[k]
              BY <1>0, <4>2, <5>1
            <6>2. QED
              BY <3>4, <6>1
          <5>2. CASE a \in 1..Len(c)
            <6>1. PICK p \in 1..(k - 1) : c[a] \in tree.kept /\ c[a] = r[p]
              BY <3>1, <5>2 DEF CopyOf
            <6>2. p \in 1..k /\ e[a] = c[a]
              BY <1>0, <4>2, <5>2
            <6>3. QED
              BY <6>1, <6>2
          <5>3. QED
            BY <3>2, <4>2, <5>1, <5>2
        <4>4. ASSUME NEW a \in 1..Len(e), NEW b \in 1..Len(e), NEW p \in DOMAIN r, NEW q \in DOMAIN r,
                     e[a] = r[p], e[b] = r[q], a < b
              PROVE  p < q
          <5>1. a \in 1..Len(c)
            BY <3>2, <4>2, <4>4
          <5>2. CASE b \in 1..Len(c)
            BY <3>1, <4>2, <4>4, <5>1, <5>2 DEF CopyOf
          <5>3. CASE b = Len(c) + 1
            <6>1. q = k
              BY <1>0, <1>1, <4>2, <4>4, <5>3
            <6>2. PICK i \in 1..(k - 1) : c[a] = r[i]
              BY <3>1, <5>1 DEF CopyOf
            <6>3. p = i
              BY <1>0, <1>1, <4>2, <4>4, <5>1, <6>2
            <6>4. QED
              BY <6>1, <6>2, <6>3
          <5>4. QED
            BY <3>2, <4>2, <5>2, <5>3
        <4>5. ASSUME NEW p \in 1..k, r[p] \in tree.kept
              PROVE  \E a \in 1..Len(e) : e[a] = r[p]
          <5>1. CASE p = k
            BY <3>2, <4>2, <5>1
          <5>2. CASE p \in 1..(k - 1)
            <6>1. PICK a \in 1..Len(c) : c[a] = r[p]
              BY <1>3, <3>1, <4>5, <5>2 DEF CopyOf
            <6>2. QED
              BY <3>2, <4>2, <6>1
          <5>3. QED
            BY <5>1, <5>2
        <4>6. CopyOf(tree, n, k, depth, e)
          BY <4>2, <4>3, <4>4, <4>5 DEF CopyOf
        <4>7. QED
          BY <4>1, <4>6
      <3>5. QED
        BY <3>3, <3>4
    <2> HIDE DEF S
    <2>5. \A k \in 1..N : k - 1 \in S => k \in S
      BY <2>4
    <2>6. N \in S
      <3> HIDE DEF N
      <3>1. \A k \in 0..N : k \in S
        BY <1>0, <2>3, <2>5, StepByStep
      <3>2. QED
        BY <1>0, <3>1
    <2>7. QED
      BY <2>1, <2>6 DEF S
  <1>4. QED
    BY <1>2, <1>3, DepthAssumption

LEMMA CopiedIs ==
  ASSUME NEW tree \in Trees, NEW n \in Posts, NEW depth \in Nat
  PROVE  /\ Copied(tree, n, depth) \in Seq(Posts) /\ Len(Copied(tree, n, depth)) \in Nat
         /\ \A a \in 1..Len(Copied(tree, n, depth)) :
              /\ Copied(tree, n, depth)[a] \in tree.kept
              /\ Copied(tree, n, depth)[a] \in Posts
              /\ Answers(tree, Copied(tree, n, depth)[a], n)
         /\ \A a, b \in 1..Len(Copied(tree, n, depth)) : \A p, q \in DOMAIN tree.replies[n] :
              /\ Copied(tree, n, depth)[a] = tree.replies[n][p]
              /\ Copied(tree, n, depth)[b] = tree.replies[n][q]
              /\ a < b
              => p < q
         /\ \A a, b \in 1..Len(Copied(tree, n, depth)) :
              Copied(tree, n, depth)[a] = Copied(tree, n, depth)[b] => a = b
  <1> DEFINE c == Copied(tree, n, depth)
             r == tree.replies[n]
  <1>1. CopyOf(tree, n, Len(r), depth, c) /\ Len(r) \in Nat /\ DOMAIN r = 1..Len(r)
    BY CopiedSoFar, TreeIs
  <1> HIDE DEF c
  <1>2. c \in Seq(Posts) /\ Len(c) \in Nat /\ \A a \in 1..Len(c) : c[a] \in Posts
    BY <1>1 DEF CopyOf
  <1>3. \A a \in 1..Len(c) : c[a] \in tree.kept /\ Answers(tree, c[a], n)
    BY <1>1 DEF CopyOf, Answers
  <1>4. \A a, b \in 1..Len(c) : \A p, q \in DOMAIN r : c[a] = r[p] /\ c[b] = r[q] /\ a < b => p < q
    BY <1>1 DEF CopyOf
  <1>5. ASSUME NEW a \in 1..Len(c), NEW b \in 1..Len(c), c[a] = c[b] PROVE a = b
    <2>1. PICK p \in DOMAIN r : c[a] = r[p]
      BY <1>1 DEF CopyOf
    <2>2. p \in Nat /\ ~ (p < p)
      BY <1>1
    <2>3. ~ (a < b) /\ ~ (b < a)
      BY <1>4, <1>5, <2>1, <2>2
    <2>4. QED
      BY <2>3
  <1>6. QED
    BY <1>2, <1>3, <1>4, <1>5 DEF c

(* A reply that was sent is copied.                                        *)
LEMMA RepliesAreCopied ==
  ASSUME NEW tree \in Trees, NEW n \in Posts, NEW depth \in Nat, depth <= MaxDepth,
         NEW m \in tree.kept, Answers(tree, m, n)
  PROVE  \E a \in 1..Len(Copied(tree, n, depth)) : Copied(tree, n, depth)[a] = m
  <1> DEFINE c == Copied(tree, n, depth)
             r == tree.replies[n]
  <1>1. CopyOf(tree, n, Len(r), depth, c) /\ DOMAIN r = 1..Len(r)
    BY CopiedSoFar, TreeIs
  <1> HIDE DEF c
  <1>2. PICK p \in 1..Len(r) : r[p] = m
    BY <1>1 DEF Answers
  <1>3. PICK a \in 1..Len(c) : c[a] = r[p]
    BY <1>1, <1>2 DEF CopyOf
  <1>4. QED
    BY <1>2, <1>3 DEF c

-----------------------------------------------------------------------------
(* Generations: a post is of one, and its replies are of the next.         *)
LEMMA GenerationsArePosts ==
  ASSUME NEW tree \in Trees
  PROVE  \A d \in Depths : \A m \in Generations(tree)[d] : m \in Posts /\ m \in tree.kept
  <1>1. tree.root \in tree.kept /\ tree.kept \subseteq Posts
    BY DEF Trees
  <1>2. \A d \in Depths : d = 0 \/ d \in 1..(MaxDepth + 1)
    BY DepthAssumption DEF Depths
  <1>3. QED
    BY <1>1, <1>2, GenerationsUnfold DEF Following

LEMMA RepliesAreNext ==
  ASSUME NEW tree \in Trees, NEW d \in Depths, d <= MaxDepth, NEW n \in Generations(tree)[d],
         NEW m \in tree.kept, Answers(tree, m, n)
  PROVE  d + 1 \in Depths /\ m \in Generations(tree)[d + 1]
  <1>1. d + 1 \in Depths /\ d + 1 \in 1..(MaxDepth + 1) /\ (d + 1) - 1 = d
    BY DepthAssumption DEF Depths
  <1>2. Generations(tree)[d + 1] = Following(tree, Generations(tree)[d])
    BY <1>1, GenerationsUnfold
  <1>3. QED
    BY <1>1, <1>2 DEF Following

LEMMA NextAreReplies ==
  ASSUME NEW tree \in Trees, NEW d \in Depths, NEW m \in Generations(tree)[d], d # 0
  PROVE  d - 1 \in Depths /\ \E n \in Generations(tree)[d - 1] : n \in Posts /\ Answers(tree, m, n)
  <1>1. d \in 1..(MaxDepth + 1) /\ d - 1 \in Depths
    BY DepthAssumption DEF Depths
  <1>2. Generations(tree)[d] = Following(tree, Generations(tree)[d - 1])
    BY <1>1, GenerationsUnfold
  <1>3. QED
    BY <1>1, <1>2, GenerationsArePosts DEF Following

LEMMA OneGeneration ==
  ASSUME NEW tree \in Trees
  PROVE  \A d, e \in Depths : \A m : m \in Generations(tree)[d] /\ m \in Generations(tree)[e] => d = e
  <1> DEFINE G == Generations(tree)
             S == {d \in Depths : \A e \in Depths : \A m : m \in G[d] /\ m \in G[e] => d = e}
  <1>0. MaxDepth + 1 \in Nat /\ Depths = 0..(MaxDepth + 1)
    BY DepthAssumption DEF Depths
  <1>1. \A e \in Depths : tree.root \in G[e] => e = 0
    <2> SUFFICES ASSUME NEW e \in Depths, tree.root \in G[e], e # 0 PROVE FALSE
      OBVIOUS
    <2>1. \E n \in G[e - 1] : n \in Posts /\ Answers(tree, tree.root, n)
      BY NextAreReplies
    <2>2. QED
      BY <2>1, TreeIs
  <1>2. 0 \in S
    BY <1>0, <1>1, GenerationsUnfold
  <1>3. ASSUME NEW d \in 1..(MaxDepth + 1), d - 1 \in S PROVE d \in S
    <2>0. d \in Depths /\ d # 0 /\ d - 1 \in Depths
      BY <1>0
    <2>1. ASSUME NEW e \in Depths, NEW m, m \in G[d], m \in G[e] PROVE d = e
      <3>1. m \in Posts
        BY <2>1, GenerationsArePosts
      <3>2. PICK n1 \in G[d - 1] : n1 \in Posts /\ Answers(tree, m, n1)
        BY <2>0, <2>1, NextAreReplies
      <3>3. e # 0
        BY <2>1, <3>1, <3>2, GenerationsUnfold, TreeIs
      <3>4. e - 1 \in Depths /\ \E n \in G[e - 1] : n \in Posts /\ Answers(tree, m, n)
        BY <2>1, <3>3, NextAreReplies
      <3>5. PICK n2 \in G[e - 1] : n2 \in Posts /\ Answers(tree, m, n2)
        BY <3>4
      <3>6. n1 = n2
        BY <3>1, <3>2, <3>5, TreeIs
      <3>7. d - 1 = e - 1
        BY <1>3, <3>2, <3>4, <3>5, <3>6
      <3>8. QED
        BY <1>0, <2>0, <3>7
    <2>2. QED
      BY <2>0, <2>1
  <1> HIDE DEF S
  <1>4. \A d \in Depths : d \in S
    BY <1>0, <1>2, <1>3, StepByStep
  <1>5. QED
    BY <1>4 DEF S

LEMMA ReplyIsOfTheNext ==
  ASSUME NEW tree \in Trees, NEW d \in Depths, NEW e \in Depths,
         NEW n \in Generations(tree)[d], NEW m \in Generations(tree)[e], Answers(tree, m, n)
  PROVE  e = d + 1
  <1>1. n \in Posts /\ m \in Posts
    BY GenerationsArePosts
  <1>2. e # 0
    BY <1>1, GenerationsUnfold, TreeIs
  <1>3. e - 1 \in Depths /\ \E n2 \in Generations(tree)[e - 1] : n2 \in Posts /\ Answers(tree, m, n2)
    BY <1>2, NextAreReplies
  <1>4. n \in Generations(tree)[e - 1]
    BY <1>1, <1>3, TreeIs
  <1>5. e - 1 = d
    BY <1>3, <1>4, OneGeneration
  <1>6. QED
    BY <1>5 DEF Depths

-----------------------------------------------------------------------------
(* The list of a post at a depth, as far as k of its replies are listed.   *)
Lines == [post : Posts, depth : Depths]

Begins(s, n, d) == s \in Seq(Lines) /\ Len(s) >= 1 /\ s[1] = Line(n, d)
Nested(tree, s, d) == \A i \in 2..Len(s) : s[i].depth > d /\ Under(tree, s, i)
Placed(tree, s) == \A i \in 1..Len(s) : s[i].post \in Generations(tree)[s[i].depth]
OnceEach(s) == \A i, j \in 1..Len(s) : s[i].post = s[j].post => i = j
Sorted(tree, s) ==
    \A n \in Posts : \A a, b \in DOMAIN tree.replies[n] : \A i, j \in 1..Len(s) :
        s[i].post = tree.replies[n][a] /\ s[j].post = tree.replies[n][b] /\ a < b => i < j
FirstsAre(s, c, d, k) == \A i \in 1..Len(s) : s[i].depth = d + 1 => \E a \in 1..k : s[i].post = c[a]
AreFirsts(s, c, d, k) == \A a \in 1..k : \E i \in 1..Len(s) : s[i] = Line(c[a], d + 1)
Complete(tree, s, i) ==
    s[i].depth <= MaxDepth =>
        \A m \in tree.kept : Answers(tree, m, s[i].post) => \E j \in 1..Len(s) : s[j] = Line(m, s[i].depth + 1)

Partial(tree, n, d, k, s) ==
    /\ Begins(s, n, d) /\ Nested(tree, s, d) /\ Placed(tree, s) /\ OnceEach(s) /\ Sorted(tree, s)
    /\ FirstsAre(s, Copied(tree, n, d), d, k) /\ AreFirsts(s, Copied(tree, n, d), d, k)
    /\ \A i \in 2..Len(s) : Complete(tree, s, i)

Whole(tree, n, d, s) ==
    /\ Begins(s, n, d) /\ Nested(tree, s, d) /\ Placed(tree, s) /\ OnceEach(s) /\ Sorted(tree, s)
    /\ \A i \in 1..Len(s) : Complete(tree, s, i)

LEMMA LinesAre ==
  ASSUME NEW s \in Seq(Lines)
  PROVE  /\ Len(s) \in Nat /\ DOMAIN s = 1..Len(s)
         /\ \A i \in 1..Len(s) : /\ s[i] \in Lines /\ s[i].post \in Posts
                                /\ s[i].depth \in Depths /\ s[i].depth \in Nat
                                /\ s[i] = Line(s[i].post, s[i].depth)
  <1>1. Len(s) \in Nat /\ DOMAIN s = 1..Len(s) /\ \A i \in 1..Len(s) : s[i] \in Lines
    OBVIOUS
  <1>2. \A x \in Lines : x.post \in Posts /\ x.depth \in Depths /\ x = Line(x.post, x.depth)
    BY DEF Lines, Line
  <1>3. QED
    BY <1>1, <1>2 DEF Depths

LEMMA Fields == \A n, d : Line(n, d).post = n /\ Line(n, d).depth = d
  BY DEF Line

(* The post that comes before a line: whom it answers.                     *)
LEMMA AboveIs ==
  ASSUME NEW tree \in Trees, NEW s \in Seq(Lines), NEW i \in 2..Len(s), Under(tree, s, i)
  PROVE  \E j \in 1..(i - 1) : j \in 1..Len(s) /\ s[j].post \in Posts /\ Answers(tree, s[i].post, s[j].post)
  <1>1. PICK j \in 1..(i - 1) : Answers(tree, s[i].post, s[j].post)
    BY DEF Under
  <1>2. j \in 1..Len(s)
    BY LinesAre
  <1>3. QED
    BY <1>1, <1>2, LinesAre

LEMMA DepthsAre ==
  ASSUME NEW tree, NEW n, NEW d \in Depths, NEW s, Begins(s, n, d), Nested(tree, s, d)
  PROVE  \A i \in 1..Len(s) : s[i].depth >= d
  <1>1. \A i \in 1..Len(s) : s[i].depth \in Nat /\ i \in Nat
    BY LinesAre DEF Begins
  <1>2. s[1].depth = d /\ d \in Nat
    BY Fields DEF Begins, Depths
  <1>3. ASSUME NEW i \in 1..Len(s) PROVE s[i].depth >= d
    <2>1. CASE i = 1
      BY <1>2, <2>1
    <2>2. CASE i # 1
      <3>1. i \in 2..Len(s)
        BY <1>1, <2>2, LinesAre DEF Begins
      <3>2. QED
        BY <1>1, <1>2, <3>1 DEF Nested
    <2>3. QED
      BY <2>1, <2>2
  <1>4. QED
    BY <1>3

(* What a reply lists and what was listed before it have no post in        *)
(* common, and no two of their posts answer the same one, but for the      *)
(* reply itself.                                                           *)
LEMMA Apart ==
  ASSUME NEW tree \in Trees, NEW d \in Depths, d <= MaxDepth, NEW n \in Generations(tree)[d],
         NEW k \in 1..Len(Copied(tree, n, d)),
         NEW u, Partial(tree, n, d, k - 1, u),
         NEW w, Whole(tree, Copied(tree, n, d)[k], d + 1, w)
  PROVE  \A i \in 1..Len(u), j \in 1..Len(w) : u[i].post # w[j].post
  <1> DEFINE c == Copied(tree, n, d)
             G == Generations(tree)
             S == {i \in 0..Len(u) : \A h \in 1..i : \A j \in 1..Len(w) : u[h].post # w[j].post}
  <1>0. n \in Posts /\ d \in Nat /\ d + 1 \in Depths
    BY GenerationsArePosts, DepthAssumption DEF Depths
  <1>1. /\ c \in Seq(Posts) /\ Len(c) \in Nat
        /\ \A a \in 1..Len(c) : c[a] \in tree.kept /\ c[a] \in Posts /\ Answers(tree, c[a], n)
        /\ \A a, b \in 1..Len(c) : c[a] = c[b] => a = b
    BY <1>0, CopiedIs
  <1>2. c[k] \in G[d + 1]
    BY <1>1, RepliesAreNext
  <1> HIDE DEF c
  <1>3. /\ u \in Seq(Lines) /\ Len(u) >= 1 /\ u[1] = Line(n, d)
        /\ w \in Seq(Lines) /\ Len(w) >= 1 /\ w[1] = Line(c[k], d + 1)
    BY DEF Partial, Whole, Begins, c
  <1>4. /\ Len(u) \in Nat /\ Len(w) \in Nat
        /\ \A i \in 1..Len(u) : u[i].post \in Posts /\ u[i].depth \in Depths /\ u[i].post \in G[u[i].depth]
        /\ \A j \in 1..Len(w) : w[j].post \in Posts /\ w[j].depth \in Depths /\ w[j].post \in G[w[j].depth]
    BY <1>3, LinesAre DEF Partial, Whole, Placed
  <1>5. \A j \in 1..Len(w) : w[j].depth >= d + 1
    BY <1>0, DepthsAre DEF Whole
  <1>6. \A j \in 1..Len(w) : w[j].post # n
    <2> SUFFICES ASSUME NEW j \in 1..Len(w), w[j].post = n PROVE FALSE
      OBVIOUS
    <2>1. w[j].depth = d
      BY <1>4, OneGeneration
    <2>2. QED
      BY <1>0, <1>5, <2>1
  <1>7. \A i \in 1..Len(u) : u[i].post # c[k]
    <2> SUFFICES ASSUME NEW i \in 1..Len(u), u[i].post = c[k] PROVE FALSE
      OBVIOUS
    <2>1. u[i].depth = d + 1
      BY <1>0, <1>2, <1>4, OneGeneration
    <2>2. PICK a \in 1..(k - 1) : u[i].post = c[a]
      BY <2>1 DEF Partial, FirstsAre, c
    <2>3. a \in 1..Len(c) /\ k \in 1..Len(c) /\ a # k
      BY <1>1 DEF c
    <2>4. QED
      BY <1>1, <2>2, <2>3
  <1>8. 0 \in S
    BY <1>4
  <1>9. ASSUME NEW i \in 1..Len(u), i - 1 \in S PROVE i \in S
    <2>1. \A h \in 1..(i - 1) : \A j \in 1..Len(w) : u[h].post # w[j].post
      BY <1>9
    <2>2. ASSUME NEW j \in 1..Len(w), u[i].post = w[j].post PROVE FALSE
      <3>1. i # 1 /\ j # 1
        BY <1>3, <1>6, <1>7, <2>2, Fields
      <3>2. i \in 2..Len(u) /\ j \in 2..Len(w)
        BY <1>4, <3>1
      <3>3. Under(tree, u, i) /\ Under(tree, w, j)
        BY <3>2 DEF Partial, Whole, Nested
      <3>4. PICK p \in 1..(i - 1) : u[p].post \in Posts /\ Answers(tree, u[i].post, u[p].post)
        BY <1>3, <3>2, <3>3, AboveIs
      <3>5. PICK q \in 1..(j - 1) : q \in 1..Len(w) /\ w[q].post \in Posts /\ Answers(tree, w[j].post, w[q].post)
        BY <1>3, <3>2, <3>3, AboveIs
      <3>6. u[p].post = w[q].post
        BY <1>4, <2>2, <3>4, <3>5, TreeIs
      <3>7. QED
        BY <2>1, <3>4, <3>5, <3>6
    <2>3. \A h \in 1..i : h \in 1..(i - 1) \/ h = i
      BY <1>4
    <2>4. QED
      BY <1>4, <2>1, <2>2, <2>3
  <1> HIDE DEF S
  <1>10. \A i \in 0..Len(u) : i \in S
    BY <1>4, <1>8, <1>9, StepByStep
  <1>11. Len(u) \in S
    BY <1>4, <1>10
  <1>12. QED
    BY <1>11 DEF S

(* One list after another: what holds in either, holds in both.            *)
LEMMA Joined ==
  ASSUME NEW u \in Seq(Lines), NEW w \in Seq(Lines)
  PROVE  /\ u \o w \in Seq(Lines)
         /\ Len(u) \in Nat /\ Len(w) \in Nat /\ Len(u \o w) = Len(u) + Len(w)
         /\ \A i \in 1..Len(u) : (u \o w)[i] = u[i]
         /\ \A i \in 1..Len(w) : (u \o w)[Len(u) + i] = w[i]
         /\ \A i \in 1..Len(u \o w) : i \in 1..Len(u) \/ \E j \in 1..Len(w) : i = Len(u) + j
  <1>1. /\ u \o w \in Seq(Lines)
        /\ Len(u) \in Nat /\ Len(w) \in Nat /\ Len(u \o w) = Len(u) + Len(w)
    OBVIOUS
  <1>2. \A i \in 1..(Len(u) + Len(w)) : (u \o w)[i] = IF i <= Len(u) THEN u[i] ELSE w[i - Len(u)]
    OBVIOUS
  <1>3. \A i \in 1..Len(u) : (u \o w)[i] = u[i]
    BY <1>1, <1>2
  <1>4. ASSUME NEW i \in 1..Len(w) PROVE (u \o w)[Len(u) + i] = w[i]
    <2>1. Len(u) + i \in 1..(Len(u) + Len(w)) /\ ~ (Len(u) + i <= Len(u)) /\ (Len(u) + i) - Len(u) = i
      BY <1>1
    <2>2. QED
      BY <1>2, <2>1
  <1>5. ASSUME NEW i \in 1..Len(u \o w), i \notin 1..Len(u)
        PROVE  \E j \in 1..Len(w) : i = Len(u) + j
    <2>1. i - Len(u) \in 1..Len(w) /\ i = Len(u) + (i - Len(u))
      BY <1>1, <1>5
    <2>2. QED
      BY <2>1
  <1>6. QED
    BY <1>1, <1>3, <1>4, <1>5

LEMMA UnderInBoth ==
  ASSUME NEW tree, NEW u \in Seq(Lines), NEW w \in Seq(Lines)
  PROVE  /\ \A i \in 1..Len(u) : Under(tree, u, i) => Under(tree, u \o w, i)
         /\ \A i \in 1..Len(w) : Under(tree, w, i) => Under(tree, u \o w, Len(u) + i)
  <1> DEFINE v == u \o w
             N == Len(u)
  <1>1. /\ N \in Nat /\ Len(w) \in Nat
        /\ \A i \in 1..N : v[i] = u[i]
        /\ \A i \in 1..Len(w) : v[N + i] = w[i]
    BY Joined
  <1> HIDE DEF v, N
  <1>2. ASSUME NEW i \in 1..N, Under(tree, u, i) PROVE Under(tree, v, i)
    <2>1. PICK j \in 1..(i - 1) : /\ Answers(tree, u[i].post, u[j].post)
                                /\ u[i].depth = u[j].depth + 1
                                /\ \A k \in (j + 1)..(i - 1) : u[k].depth >= u[i].depth
      BY <1>2 DEF Under
    <2>2. v[i] = u[i] /\ v[j] = u[j]
      BY <1>1
    <2>3. \A k \in (j + 1)..(i - 1) : k \in 1..N /\ v[k] = u[k]
      BY <1>1
    <2>4. QED
      BY <2>1, <2>2, <2>3 DEF Under
  <1>3. ASSUME NEW i \in 1..Len(w), Under(tree, w, i) PROVE Under(tree, v, N + i)
    <2>1. PICK j \in 1..(i - 1) : /\ Answers(tree, w[i].post, w[j].post)
                                /\ w[i].depth = w[j].depth + 1
                                /\ \A k \in (j + 1)..(i - 1) : w[k].depth >= w[i].depth
      BY <1>3 DEF Under
    <2>2. N + j \in 1..((N + i) - 1) /\ v[N + i] = w[i] /\ v[N + j] = w[j]
      <3>1. j \in 1..Len(w)
        BY <1>1
      <3>2. QED
        BY <1>1, <3>1
    <2>3. ASSUME NEW k \in ((N + j) + 1)..((N + i) - 1) PROVE v[k].depth >= w[i].depth
      <3>1. k - N \in (j + 1)..(i - 1) /\ k - N \in 1..Len(w) /\ N + (k - N) = k
        BY <1>1
      <3>2. v[k] = w[k - N]
        BY <1>1, <3>1
      <3>3. QED
        BY <2>1, <3>1, <3>2
    <2>4. /\ Answers(tree, v[N + i].post, v[N + j].post)
          /\ v[N + i].depth = v[N + j].depth + 1
          /\ \A k \in ((N + j) + 1)..((N + i) - 1) : v[k].depth >= v[N + i].depth
      BY <2>1, <2>2, <2>3
    <2>5. QED
      BY <2>2, <2>4 DEF Under
  <1>4. QED
    BY <1>2, <1>3 DEF v, N

LEMMA CompleteInBoth ==
  ASSUME NEW tree, NEW u \in Seq(Lines), NEW w \in Seq(Lines)
  PROVE  /\ \A i \in 1..Len(u) : Complete(tree, u, i) => Complete(tree, u \o w, i)
         /\ \A i \in 1..Len(w) : Complete(tree, w, i) => Complete(tree, u \o w, Len(u) + i)
  <1> DEFINE v == u \o w
             N == Len(u)
  <1>1. /\ N \in Nat /\ Len(w) \in Nat /\ Len(v) = N + Len(w)
        /\ \A i \in 1..N : v[i] = u[i]
        /\ \A i \in 1..Len(w) : v[N + i] = w[i]
    BY Joined
  <1> HIDE DEF v, N
  <1>2. \A x : (\E j \in 1..N : u[j] = x) => \E j \in 1..Len(v) : v[j] = x
    BY <1>1
  <1>3. ASSUME NEW x, NEW j \in 1..Len(w), w[j] = x PROVE \E h \in 1..Len(v) : v[h] = x
    <2>1. N + j \in 1..Len(v) /\ v[N + j] = x
      BY <1>1, <1>3
    <2>2. QED
      BY <2>1
  <1>4. ASSUME NEW i \in 1..N, Complete(tree, u, i) PROVE Complete(tree, v, i)
    BY <1>1, <1>2, <1>4 DEF Complete, N
  <1>5. ASSUME NEW i \in 1..Len(w), Complete(tree, w, i) PROVE Complete(tree, v, N + i)
    BY <1>1, <1>3, <1>5 DEF Complete
  <1>6. QED
    BY <1>4, <1>5 DEF v, N

(* One more reply and what it lists.                                       *)
LEMMA PartialGrows ==
  ASSUME NEW tree \in Trees, NEW d \in Depths, d <= MaxDepth, NEW n \in Generations(tree)[d],
         NEW k \in 1..Len(Copied(tree, n, d)),
         NEW u, Partial(tree, n, d, k - 1, u),
         NEW w, Whole(tree, Copied(tree, n, d)[k], d + 1, w)
  PROVE  Partial(tree, n, d, k, u \o w)
  <1> DEFINE c == Copied(tree, n, d)
             G == Generations(tree)
             v == u \o w
             N == Len(u)
  <1>0. n \in Posts /\ d \in Nat /\ d + 1 \in Depths
    BY GenerationsArePosts, DepthAssumption DEF Depths
  <1>1. /\ c \in Seq(Posts) /\ Len(c) \in Nat
        /\ \A a \in 1..Len(c) : c[a] \in tree.kept /\ c[a] \in Posts /\ Answers(tree, c[a], n)
        /\ \A a, b \in 1..Len(c) : \A p, q \in DOMAIN tree.replies[n] :
              c[a] = tree.replies[n][p] /\ c[b] = tree.replies[n][q] /\ a < b => p < q
    BY <1>0, CopiedIs
  <1>2. \A i \in 1..Len(u), j \in 1..Len(w) : u[i].post # w[j].post
    BY Apart
  <1> HIDE DEF c
  <1>3. /\ u \in Seq(Lines) /\ N >= 1 /\ u[1] = Line(n, d)
        /\ w \in Seq(Lines) /\ Len(w) >= 1 /\ w[1] = Line(c[k], d + 1)
    BY DEF Partial, Whole, Begins, c
  <1>4. /\ N \in Nat /\ Len(w) \in Nat
        /\ \A i \in 1..N : u[i].post \in Posts /\ u[i].depth \in Depths /\ u[i].post \in G[u[i].depth]
        /\ \A j \in 1..Len(w) : w[j].post \in Posts /\ w[j].depth \in Depths /\ w[j].post \in G[w[j].depth]
    BY <1>3, LinesAre DEF Partial, Whole, Placed
  <1>5. /\ \A i \in 1..N : u[i].depth >= d
        /\ \A j \in 1..Len(w) : w[j].depth >= d + 1
    BY <1>0, DepthsAre DEF Partial, Whole
  <1>6. /\ v \in Seq(Lines) /\ Len(v) \in Nat /\ Len(v) = N + Len(w)
        /\ \A i \in 1..N : v[i] = u[i]
        /\ \A i \in 1..Len(w) : v[N + i] = w[i]
        /\ \A i \in 1..Len(v) : i \in 1..N \/ \E j \in 1..Len(w) : i = N + j
    BY <1>3, <1>4, Joined
  <1>7. /\ \A i \in 1..N : Under(tree, u, i) => Under(tree, v, i)
        /\ \A i \in 1..Len(w) : Under(tree, w, i) => Under(tree, v, N + i)
        /\ \A i \in 1..N : Complete(tree, u, i) => Complete(tree, v, i)
        /\ \A i \in 1..Len(w) : Complete(tree, w, i) => Complete(tree, v, N + i)
    BY <1>3, UnderInBoth, CompleteInBoth
  <1> HIDE DEF v, N
  <1>8. Begins(v, n, d)
    BY <1>3, <1>4, <1>6 DEF Begins
  <1>9. ASSUME NEW i \in 2..Len(v) PROVE v[i].depth > d /\ Under(tree, v, i)
    <2>1. CASE i \in 1..N
      <3>1. i \in 2..N
        BY <1>4, <2>1
      <3>2. u[i].depth > d /\ Under(tree, u, i)
        BY <3>1 DEF Partial, Nested, N
      <3>3. QED
        BY <1>6, <1>7, <2>1, <3>2
    <2>2. ASSUME NEW j \in 1..Len(w), i = N + j PROVE v[i].depth > d /\ Under(tree, v, i)
      <3>1. v[i] = w[j] /\ v[i].depth >= d + 1 /\ v[i].depth \in Nat
        BY <1>4, <1>5, <1>6, <2>2 DEF Depths
      <3>2. CASE j # 1
        <4>1. j \in 2..Len(w)
          BY <1>4, <3>2
        <4>2. Under(tree, w, j)
          BY <4>1 DEF Whole, Nested
        <4>3. QED
          BY <1>0, <1>7, <2>2, <3>1, <4>2
      <3>3. CASE j = 1
        <4>1. v[i].post = c[k] /\ v[i].depth = d + 1 /\ v[1].post = n /\ v[1].depth = d
          BY <1>3, <1>4, <1>6, <3>1, <3>3, Fields
        <4>2. Answers(tree, c[k], n)
          BY <1>1 DEF c
        <4>3. ASSUME NEW h \in (1 + 1)..(i - 1) PROVE v[h].depth >= v[i].depth
          <5>1. h \in 2..N /\ h \in 1..N
            BY <1>4, <2>2, <3>3
          <5>2. u[h].depth > d /\ v[h] = u[h] /\ u[h].depth \in Nat
            BY <1>4, <1>6, <5>1 DEF Partial, Nested, N, Depths
          <5>3. QED
            BY <1>0, <4>1, <5>2
        <4>4. 1 \in 1..(i - 1)
          BY <1>3, <1>4, <2>2, <3>3
        <4>5. Under(tree, v, i)
          BY <4>1, <4>2, <4>3, <4>4 DEF Under
        <4>6. QED
          BY <1>0, <4>1, <4>5
      <3>4. QED
        BY <3>2, <3>3
    <2>3. i \in 1..Len(v)
      BY <1>6
    <2>4. QED
      BY <1>6, <2>1, <2>2, <2>3
  <1>10. Placed(tree, v)
    <2>1. ASSUME NEW i \in 1..Len(v) PROVE v[i].post \in G[v[i].depth]
      <3>1. CASE i \in 1..N
        <4>1. v[i] = u[i]
          BY <1>6, <3>1
        <4>2. QED
          BY <1>4, <3>1, <4>1
      <3>2. ASSUME NEW j \in 1..Len(w), i = N + j PROVE v[i].post \in G[v[i].depth]
        <4>1. v[i] = w[j]
          BY <1>6, <3>2
        <4>2. QED
          BY <1>4, <4>1
      <3>3. QED
        BY <1>6, <3>1, <3>2
    <2>2. QED
      BY <2>1 DEF Placed
  <1>11. ASSUME NEW i \in 1..Len(v), NEW j \in 1..Len(v), v[i].post = v[j].post PROVE i = j
    <2>1. \A g, h \in 1..N : u[g].post = u[h].post => g = h
      BY DEF Partial, OnceEach, N
    <2>2. \A g, h \in 1..Len(w) : w[g].post = w[h].post => g = h
      BY DEF Whole, OnceEach
    <2>3. CASE i \in 1..N /\ j \in 1..N
      BY <1>6, <1>11, <2>1, <2>3
    <2>4. ASSUME NEW g \in 1..Len(w), i = N + g, NEW h \in 1..Len(w), j = N + h PROVE i = j
      BY <1>6, <1>11, <2>2, <2>4
    <2>5. ASSUME NEW g \in 1..N, NEW h \in 1..Len(w), v[g].post = v[N + h].post PROVE FALSE
      BY <1>2, <1>6, <2>5 DEF N
    <2>6. QED
      BY <1>6, <1>11, <2>3, <2>4, <2>5
  <1>12. FirstsAre(v, c, d, k)
    <2>1. ASSUME NEW i \in 1..Len(v), v[i].depth = d + 1 PROVE \E a \in 1..k : v[i].post = c[a]
      <3>0. k \in Nat /\ k \in 1..k
        BY <1>1 DEF c
      <3>1. CASE i \in 1..N
        <4>1. PICK a \in 1..(k - 1) : u[i].post = c[a]
          BY <1>6, <2>1, <3>1 DEF Partial, FirstsAre, N, c
        <4>2. a \in 1..k
          BY <3>0
        <4>3. QED
          BY <1>6, <3>1, <4>1, <4>2
      <3>2. ASSUME NEW j \in 1..Len(w), i = N + j PROVE v[i].post = c[k]
        <4>1. ~ (w[j].depth > d + 1)
          BY <1>0, <1>6, <2>1, <3>2
        <4>2. j \notin 2..Len(w)
          BY <4>1 DEF Whole, Nested
        <4>3. j = 1
          BY <1>4, <4>2
        <4>4. QED
          BY <1>3, <1>6, <3>2, <4>3, Fields
      <3>3. QED
        BY <1>6, <3>0, <3>1, <3>2
    <2>2. QED
      BY <2>1 DEF FirstsAre
  <1>13. AreFirsts(v, c, d, k)
    <2>1. ASSUME NEW a \in 1..k PROVE \E i \in 1..Len(v) : v[i] = Line(c[a], d + 1)
      <3>1. CASE a = k
        <4>1. N + 1 \in 1..Len(v) /\ 1 \in 1..Len(w)
          BY <1>3, <1>4, <1>6
        <4>2. QED
          BY <1>3, <1>6, <3>1, <4>1
      <3>2. CASE a # k
        <4>1. a \in 1..(k - 1)
          BY <1>1, <3>2 DEF c
        <4>2. PICK i \in 1..N : u[i] = Line(c[a], d + 1)
          BY <4>1 DEF Partial, AreFirsts, N, c
        <4>3. i \in 1..Len(v)
          BY <1>4, <1>6
        <4>4. QED
          BY <1>6, <4>2, <4>3
      <3>3. QED
        BY <3>1, <3>2
    <2>2. QED
      BY <2>1 DEF AreFirsts
  <1>14. ASSUME NEW i \in 2..Len(v) PROVE Complete(tree, v, i)
    <2>1. i \in 1..Len(v)
      BY <1>6
    <2>2. CASE i \in 1..N
      <3>1. i \in 2..N
        BY <1>4, <2>2
      <3>2. QED
        BY <1>7, <2>2, <3>1 DEF Partial, N
    <2>3. ASSUME NEW j \in 1..Len(w), i = N + j PROVE Complete(tree, v, i)
      BY <1>7, <2>3 DEF Whole
    <2>4. QED
      BY <1>6, <2>1, <2>2, <2>3
  <1>15. ASSUME NEW p \in Posts, NEW a \in DOMAIN tree.replies[p], NEW b \in DOMAIN tree.replies[p],
                NEW i \in 1..Len(v), NEW j \in 1..Len(v),
                v[i].post = tree.replies[p][a], v[j].post = tree.replies[p][b], a < b
         PROVE  i < j
    <2>1. Answers(tree, v[i].post, p) /\ Answers(tree, v[j].post, p)
      BY <1>15 DEF Answers
    <2>2. CASE i \in 1..N /\ j \in 1..N
      <3>1. Sorted(tree, u)
        BY DEF Partial
      <3>2. v[i] = u[i] /\ v[j] = u[j]
        BY <1>6, <2>2
      <3>3. QED
        BY <1>15, <2>2, <3>1, <3>2 DEF Sorted, N
    <2>3. ASSUME NEW g \in 1..Len(w), i = N + g, NEW h \in 1..Len(w), j = N + h PROVE i < j
      <3>1. Sorted(tree, w)
        BY DEF Whole
      <3>2. v[i] = w[g] /\ v[j] = w[h]
        BY <1>6, <2>3
      <3>3. g < h
        BY <1>15, <3>1, <3>2 DEF Sorted
      <3>4. QED
        BY <1>4, <2>3, <3>3
    <2>4. ASSUME i \in 1..N, NEW h \in 1..Len(w), j = N + h PROVE i < j
      BY <1>4, <2>4
    <2>5. ASSUME NEW g \in 1..Len(w), i = N + g, j \in 1..N PROVE FALSE
      <3>1. v[i] = w[g] /\ v[j] = u[j]
        BY <1>6, <2>5
      <3>2. CASE g = 1
        <4>1. w[g].post = c[k] /\ k \in 1..Len(c)
          BY <1>3, <3>2, Fields DEF c
        <4>2. p = n
          BY <1>0, <1>1, <2>1, <3>1, <4>1, TreeIs
        <4>3. u[j].depth = d + 1
          BY <1>4, <2>1, <2>5, <3>1, <4>2, ReplyIsOfTheNext
        <4>4. PICK e \in 1..(k - 1) : u[j].post = c[e]
          BY <2>5, <4>3 DEF Partial, FirstsAre, N, c
        <4>5. e \in 1..Len(c) /\ e < k
          BY <1>1, <4>1
        <4>6. a \in Nat /\ b \in Nat
          <5>1. DOMAIN tree.replies[p] = 1..Len(tree.replies[p]) /\ Len(tree.replies[p]) \in Nat
            BY TreeIs
          <5>2. QED
            BY <5>1
        <4>7. b < a
          <5>1. /\ a \in DOMAIN tree.replies[n] /\ b \in DOMAIN tree.replies[n]
                /\ c[e] = tree.replies[n][b] /\ c[k] = tree.replies[n][a]
            BY <1>15, <3>1, <4>1, <4>2, <4>4
          <5>2. \A p1, p2 \in DOMAIN tree.replies[n] :
                  c[e] = tree.replies[n][p1] /\ c[k] = tree.replies[n][p2] /\ e < k => p1 < p2
            BY <1>1, <4>1, <4>5
          <5>3. QED
            BY <4>5, <4>6, <5>1, <5>2
        <4>8. QED
          BY <1>15, <4>6, <4>7
      <3>3. CASE g # 1
        <4>1. g \in 2..Len(w)
          BY <1>4, <3>3
        <4>2. Under(tree, w, g)
          BY <4>1 DEF Whole, Nested
        <4>3. PICK q \in 1..(g - 1) : q \in 1..Len(w) /\ w[q].post \in Posts /\ Answers(tree, w[g].post, w[q].post)
          BY <1>3, <4>1, <4>2, AboveIs
        <4>4. w[q].post = p
          BY <1>4, <2>1, <3>1, <4>3, TreeIs
        <4>5. CASE j = 1
          <5>1. u[j].post = n
            BY <1>3, <4>5, Fields
          <5>2. d = w[q].depth + 1
            BY <1>4, <2>1, <3>1, <4>3, <4>4, <5>1, ReplyIsOfTheNext
          <5>3. QED
            BY <1>0, <1>4, <1>5, <4>3, <5>2 DEF Depths
        <4>6. CASE j # 1
          <5>1. j \in 2..Len(u)
            BY <1>4, <2>5, <4>6 DEF N
          <5>2. Under(tree, u, j)
            BY <5>1 DEF Partial, Nested
          <5>3. PICK h \in 1..(j - 1) : h \in 1..Len(u) /\ u[h].post \in Posts /\ Answers(tree, u[j].post, u[h].post)
            BY <1>3, <5>1, <5>2, AboveIs
          <5>4. u[h].post = p
            BY <1>4, <2>1, <2>5, <3>1, <5>3, TreeIs
          <5>5. QED
            BY <1>2, <4>3, <4>4, <5>3, <5>4
        <4>7. QED
          BY <4>5, <4>6
      <3>4. QED
        BY <3>2, <3>3
    <2>6. QED
      BY <1>6, <2>2, <2>3, <2>4, <2>5
  <1>16. Partial(tree, n, d, k, v)
    BY <1>8, <1>9, <1>10, <1>11, <1>12, <1>13, <1>14, <1>15 DEF Partial, Nested, OnceEach, Sorted, c
  <1>17. QED
    BY <1>16 DEF v

LEMMA OneLine ==
  ASSUME NEW tree \in Trees, NEW d \in Depths, NEW n \in Generations(tree)[d]
  PROVE  Partial(tree, n, d, 0, <<Line(n, d)>>)
  <1> DEFINE s == <<Line(n, d)>>
  <1>1. n \in Posts /\ d \in Nat
    BY GenerationsArePosts DEF Depths
  <1>2. Line(n, d) \in Lines
    BY <1>1 DEF Line, Lines
  <1>3. s \in Seq(Lines) /\ Len(s) = 1 /\ s[1] = Line(n, d) /\ \A i \in 1..Len(s) : i = 1
    BY <1>2
  <1> HIDE DEF s
  <1>4. s[1].post = n /\ s[1].depth = d /\ 2..Len(s) = {} /\ 1..0 = {} /\ d # d + 1
    BY <1>1, <1>3, Fields
  <1>5. Begins(s, n, d) /\ Nested(tree, s, d) /\ Placed(tree, s) /\ OnceEach(s)
    BY <1>3, <1>4 DEF Begins, Nested, Placed, OnceEach
  <1>6. ASSUME NEW p \in Posts, NEW a \in DOMAIN tree.replies[p], NEW b \in DOMAIN tree.replies[p],
               tree.replies[p][a] = tree.replies[p][b], a < b
        PROVE  FALSE
    <2>1. DOMAIN tree.replies[p] = 1..Len(tree.replies[p]) /\ Len(tree.replies[p]) \in Nat
      BY TreeIs
    <2>2. a = b
      BY <1>6, TreeIs
    <2>3. QED
      BY <1>6, <2>1, <2>2
  <1>7. Sorted(tree, s)
    BY <1>3, <1>6 DEF Sorted
  <1>8. FirstsAre(s, Copied(tree, n, d), d, 0) /\ AreFirsts(s, Copied(tree, n, d), d, 0)
    BY <1>3, <1>4 DEF FirstsAre, AreFirsts
  <1>9. QED
    BY <1>4, <1>5, <1>7, <1>8 DEF Partial, s

(* The list of a post is whole if those of its replies are.                *)
LEMMA ListFromIsWhole ==
  ASSUME NEW tree \in Trees, NEW d \in Depths, NEW n \in Generations(tree)[d], NEW deeper,
         d <= MaxDepth => \A m \in Generations(tree)[d + 1] : Whole(tree, m, d + 1, deeper[m])
  PROVE  Whole(tree, n, d, ListFrom(tree, n, d, deeper))
  <1> DEFINE c == Copied(tree, n, d)
             s == ListFrom(tree, n, d, deeper)
             K == Len(c)
  <1>0. n \in Posts /\ d \in Nat
    BY GenerationsArePosts DEF Depths
  <1>1. /\ K \in Nat
        /\ \A a \in 1..K : c[a] \in tree.kept /\ c[a] \in Posts /\ Answers(tree, c[a], n)
        /\ d <= MaxDepth => \A m \in tree.kept : Answers(tree, m, n) => \E a \in 1..K : c[a] = m
    <2>1. K \in Nat
      BY <1>0, CopiedIs
    <2>2. \A a \in 1..K : c[a] \in tree.kept /\ c[a] \in Posts /\ Answers(tree, c[a], n)
      BY <1>0, CopiedIs
    <2>3. d <= MaxDepth => \A m \in tree.kept : Answers(tree, m, n) => \E a \in 1..K : c[a] = m
      BY <1>0, RepliesAreCopied
    <2> HIDE DEF c, K
    <2>4. QED
      BY <2>1, <2>2, <2>3
  <1>2. Partial(tree, n, d, K, s)
    <2>1. CASE d > MaxDepth
      <3>1. c = <<>> /\ s = <<Line(n, d)>>
        BY <1>0, <2>1, NothingBeyond
      <3>2. K = 0
        BY <3>1
      <3>3. QED
        BY <3>1, <3>2, OneLine
    <2>2. CASE d <= MaxDepth
      <3>1. PICK list : Listed(list, tree, n, d, deeper)
        BY <1>1, ListFromUnfolds
      <3>2. /\ s = list[K]
            /\ list[0] = <<Line(n, d)>>
            /\ \A k \in 1..K : list[k] = list[k - 1] \o deeper[c[k]]
        BY <3>1 DEF Listed
      <3> DEFINE S == {k \in 0..K : Partial(tree, n, d, k, list[k])}
      <3> HIDE DEF s
      <3>3. 0 \in S
        <4>1. Partial(tree, n, d, 0, <<Line(n, d)>>)
          BY OneLine
        <4>2. Partial(tree, n, d, 0, list[0])
          BY <3>2, <4>1
        <4>3. QED
          BY <1>1, <4>2
      <3>4. ASSUME NEW k \in 1..K, k - 1 \in S PROVE k \in S
        <4>1. Partial(tree, n, d, k - 1, list[k - 1])
          BY <3>4
        <4>2. c[k] \in Generations(tree)[d + 1]
          BY <1>1, <2>2, RepliesAreNext
        <4>3. Whole(tree, c[k], d + 1, deeper[c[k]])
          BY <2>2, <4>2
        <4>4. Partial(tree, n, d, k, list[k - 1] \o deeper[c[k]])
          BY <2>2, <4>1, <4>3, PartialGrows
        <4>5. k \in 0..K
          OBVIOUS
        <4>6. QED
          BY <3>2, <4>4, <4>5
      <3> HIDE DEF S, K, c
      <3>5. \A k \in 0..K : k \in S
        BY <1>1, <3>3, <3>4, StepByStep
      <3>6. K \in S
        BY <1>1, <3>5
      <3>7. QED
        BY <3>2, <3>6 DEF S
    <2>3. QED
      BY <1>0, <2>1, <2>2, DepthAssumption
  <1> HIDE DEF s
  <1>3. s \in Seq(Lines) /\ s[1] = Line(n, d) /\ Len(s) >= 1
    BY <1>2 DEF Partial, Begins
  <1>4. Complete(tree, s, 1)
    <2>1. ASSUME d <= MaxDepth, NEW m \in tree.kept, Answers(tree, m, n)
          PROVE  \E j \in 1..Len(s) : s[j] = Line(m, d + 1)
      <3>1. PICK a \in 1..K : c[a] = m
        BY <1>1, <2>1
      <3>2. QED
        BY <1>2, <3>1 DEF Partial, AreFirsts
    <2>2. QED
      BY <1>3, <2>1, Fields DEF Complete
  <1>5. \A i \in 1..Len(s) : Complete(tree, s, i)
    <2>1. \A i \in 1..Len(s) : i = 1 \/ i \in 2..Len(s)
      BY <1>3, LinesAre
    <2>2. QED
      BY <1>2, <1>4, <2>1 DEF Partial
  <1>6. QED
    BY <1>2, <1>5 DEF Partial, Whole, s

(* The whole list, from the deepest posts up.                              *)
LEMMA FlattenedIsWhole ==
  ASSUME NEW tree \in Trees
  PROVE  Whole(tree, tree.root, 0, Flattened(tree))
  <1> DEFINE G == Generations(tree)
             D == MaxDepth + 1
  <1>0. D \in Nat /\ Depths = 0..D /\ MaxDepth \in Nat
    BY DepthAssumption DEF Depths
  <1>1. PICK list : /\ Flattened(tree) = list[0][tree.root]
                    /\ list = [depth \in Depths |-> [n \in Posts |-> ListFrom(tree, n, depth, list[depth + 1])]]
    BY FlattenedUnfolds
  <1>2. ASSUME NEW d \in Depths, NEW n \in Posts PROVE list[d][n] = ListFrom(tree, n, d, list[d + 1])
    <2>1. list[d] = [m \in Posts |-> ListFrom(tree, m, d, list[d + 1])]
      BY <1>1, Zenon
    <2>2. QED
      BY <2>1
  <1> DEFINE Right(d) == \A n \in G[d] : Whole(tree, n, d, list[d][n])
             S == {k \in 0..D : Right(D - k)}
  <1>3. ASSUME NEW d \in Depths, d <= MaxDepth => Right(d + 1) PROVE Right(d)
    <2>1. ASSUME NEW n \in G[d] PROVE Whole(tree, n, d, list[d][n])
      <3>1. list[d][n] = ListFrom(tree, n, d, list[d + 1])
        BY <1>2, GenerationsArePosts
      <3>2. Whole(tree, n, d, ListFrom(tree, n, d, list[d + 1]))
        BY <1>3, ListFromIsWhole
      <3>3. QED
        BY <3>1, <3>2
    <2>2. QED
      BY <2>1
  <1> HIDE DEF Right
  <1>4. 0 \in S
    <2>1. D - 0 = D /\ D \in Depths /\ ~ (D <= MaxDepth)
      BY <1>0
    <2>2. Right(D)
      BY <1>3, <2>1
    <2>3. QED
      BY <1>0, <2>1, <2>2
  <1>5. ASSUME NEW k \in 1..D, k - 1 \in S PROVE k \in S
    <2>1. D - k \in Depths /\ (D - k) + 1 = D - (k - 1) /\ k \in 0..D
      BY <1>0
    <2>2. Right((D - k) + 1)
      BY <1>5, <2>1
    <2>3. QED
      BY <1>3, <2>1, <2>2
  <1> HIDE DEF S, D
  <1>6. \A k \in 0..D : k \in S
    BY <1>0, <1>4, <1>5, StepByStep
  <1>7. D \in S /\ D - D = 0
    BY <1>0, <1>6
  <1>8. Right(0)
    BY <1>7 DEF S
  <1>9. tree.root \in G[0]
    BY GenerationsUnfold
  <1>10. QED
    BY <1>1, <1>8, <1>9 DEF Right

(***************************************************************************)
(* Every thread, whatever was left out of it, is drawn as a list of just   *)
(* the posts that can be shown, each once and at its own depth.            *)
(***************************************************************************)
THEOREM ThreadIsListed == ListsEachOnce(Trees)
  <1> SUFFICES ASSUME NEW tree \in Trees
               PROVE  LET list == Flattened(tree)
                      IN  /\ \A i \in DOMAIN list : list[i].post \in Generations(tree)[list[i].depth]
                          /\ \A depth \in Depths : \A n \in Generations(tree)[depth] :
                                \E i \in DOMAIN list : list[i] = Line(n, depth)
                          /\ \A i, j \in DOMAIN list : list[i].post = list[j].post => i = j
    BY DEF ListsEachOnce
  <1> DEFINE list == Flattened(tree)
             G == Generations(tree)
             S == {d \in Depths : \A n \in G[d] : \E i \in 1..Len(list) : list[i] = Line(n, d)}
  <1>1. Whole(tree, tree.root, 0, list)
    BY FlattenedIsWhole
  <1> HIDE DEF list
  <1>2. list \in Seq(Lines) /\ list[1] = Line(tree.root, 0) /\ 1 \in 1..Len(list) /\ DOMAIN list = 1..Len(list)
    BY <1>1, LinesAre DEF Whole, Begins
  <1>3. MaxDepth + 1 \in Nat /\ Depths = 0..(MaxDepth + 1)
    BY DepthAssumption DEF Depths
  <1>4. 0 \in S
    BY <1>2, <1>3, GenerationsUnfold
  <1>5. ASSUME NEW d \in 1..(MaxDepth + 1), d - 1 \in S PROVE d \in S
    <2>1. d \in Depths /\ d # 0 /\ (d - 1) + 1 = d /\ d - 1 <= MaxDepth /\ d - 1 \in Depths
      BY <1>3, DepthAssumption
    <2>2. ASSUME NEW m \in G[d] PROVE \E i \in 1..Len(list) : list[i] = Line(m, d)
      <3>1. PICK n \in G[d - 1] : Answers(tree, m, n)
        BY <2>1, NextAreReplies
      <3>2. PICK j \in 1..Len(list) : list[j] = Line(n, d - 1)
        BY <1>5
      <3>3. list[j].post = n /\ list[j].depth = d - 1 /\ Complete(tree, list, j)
        BY <1>1, <3>2, Fields DEF Whole
      <3>4. m \in tree.kept
        BY <2>1, GenerationsArePosts
      <3>5. QED
        BY <2>1, <3>1, <3>3, <3>4 DEF Complete
    <2>3. QED
      BY <2>1, <2>2
  <1> HIDE DEF S
  <1>6. \A d \in Depths : d \in S
    BY <1>3, <1>4, <1>5, StepByStep
  <1>7. \A d \in Depths : \A n \in G[d] : \E i \in DOMAIN list : list[i] = Line(n, d)
    BY <1>2, <1>6 DEF S
  <1>8. QED
    BY <1>1, <1>2, <1>7 DEF Whole, Placed, OnceEach, list

(***************************************************************************)
(* In it every reply is indented below the post it answers.                *)
(***************************************************************************)
THEOREM RepliesAreBelow == RepliesFollow(Trees)
  <1> SUFFICES ASSUME NEW tree \in Trees, NEW i \in DOMAIN Flattened(tree) \ {1}
               PROVE  Under(tree, Flattened(tree), i)
    BY DEF RepliesFollow
  <1>1. Whole(tree, tree.root, 0, Flattened(tree))
    BY FlattenedIsWhole
  <1>2. i \in 2..Len(Flattened(tree))
    BY <1>1, LinesAre DEF Whole, Begins
  <1>3. QED
    BY <1>1, <1>2 DEF Whole, Nested

(***************************************************************************)
(* And the replies to a post stand in the order the server sent them in.   *)
(***************************************************************************)
THEOREM RepliesKeepOrder == RepliesInOrder(Trees)
  <1> SUFFICES ASSUME NEW tree \in Trees PROVE InOrder(tree, Flattened(tree))
    BY DEF RepliesInOrder
  <1>1. Whole(tree, tree.root, 0, Flattened(tree))
    BY FlattenedIsWhole
  <1>2. DOMAIN Flattened(tree) = 1..Len(Flattened(tree))
    BY <1>1, LinesAre DEF Whole, Begins
  <1>3. QED
    BY <1>1, <1>2 DEF Whole, Sorted, InOrder
=============================================================================
