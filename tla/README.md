# sKeets: a verification development

sKeets is a Bluesky client for Kobo e-readers: one C++/Qt process that owns the
framebuffer, the input devices and the frontlight, talks to an AT Protocol
server through a vendored SDK, and is started by a shell script that stops
Kobo's own software and reboots the device afterwards.  This directory models
that program in TLA+, checks the models with TLC on small instances, and proves
the properties that matter most with TLAPS for every instance.

## 1. Inventory of the system

| component | source | state it keeps | operations | how it interacts |
|---|---|---|---|---|
| session lifecycle | `kobo/bootstrap.cpp`, `kobo/actions.cpp`, `kobo/feed.cpp`, `kobo/thread.cpp`, `kobo/main.cpp` 1529-1637, `util/config.cpp`, `atproto/atproto_client.cpp` | `config.ini`, `login.txt`, `app.bootstrap`, the tokens the server accepts | bootstrap, restore with retry, save, sign-out, recheck | every network operation restores the session first; session and settings writers share one file |
| image cache | `util/image_cache.cpp`, `util/image.cpp` | `s_cache`, `s_redraw_needed`, replies in flight, files | lookup, the finished callback, clear, redraw flag | called by the drawing code; callbacks run in `processEvents` and inside the nested event loops of every request; the flag is read by the main loop |
| feed paging | `kobo/feed.cpp`, `kobo/main.cpp` 1718-1775, 2296-2551 | `feed_result`, `feed_page_start/count/history` | load, render a page, next, back, fetch more | fetches through the session, draws images through the cache |
| post actions | `kobo/actions.cpp`, `kobo/main.cpp` 3683-3745, 3899-3961 | viewer state and counts of the posts in the feed and in the thread | like, unlike, repost, unrepost | copies of one post live in the feed and in the thread |
| thread view, feed list, settings (scrolled windows) | `kobo/thread.cpp`, `kobo/main.cpp` 2651-2850, 3027-3229, 3763-3868, `atproto_client.cpp` 430-528 | `thread_result`, the pinned feeds, the start of each window, hit boxes | load, scroll by button, key and track, draw | hit boxes point into the loaded list; drawing clamps the window |
| frontlight and standby | `kobo/main.cpp` 321-456, 3468-3504, 3967-4070 | the backlight file, `frontlight_brightness`, `screen_dimmed`, the activity clock, `ignore_touch_release_after_wake` | adopt or apply at launch, dim after a timeout, wake, slider, exit | driven by input events and the main loop's 500 ms poll |
| touch and key input | `platform/input.cpp` | contacts with pending flags, the current slot, the protocol, the panel's ranges and orientation | read raw events, close a frame, hand out one event per poll, map a panel's coordinates to the screen | feeds the main loop |
| main loop and views | `kobo/main.cpp` 3301-4206 | `view_mode` and the buttons of each view | one handler per event and view | dispatches to all of the above |
| launcher | `run.sh`, `scripts/wifi/*.sh` | nickel, the watchdog, the Wi-Fi modules | stop nickel, run the app, reboot, bring Wi-Fi up and down | starts the process |
| probes and tools | `platform/{device,network,power,framebuffer}.cpp`, `kobo/diag_main.cpp`, `kobo/tool_main.cpp` | none that lasts | read `/sys` and `/proc` | results are shown on screen |
| drawing, fonts, text | `ui/fb.cpp`, `ui/font.cpp`, `util/str.cpp` | pixels | draw | called by the views |

The hard behaviours are these.  The application has one thread, but it is not
sequential: Qt callbacks run whenever an event loop does, nested ones included;
the process can be killed, or the battery pulled, between any two system calls;
the server may do what it was asked and its answer be lost; `config.ini` is
rewritten in place by four different writers.  Everything else that is hard is a
long sequence of legal calls: page histories over a list that grows, optimistic
updates that are rolled back, a screen that dims and wakes around a tap.

What makes each component correct:

- **session lifecycle**: no refreshed token pair is dropped, the file on disk
  holds the session and the settings that were last written unless a crash hits
  the write itself, sign-out is final, every retry loop ends;
- **image cache**: nothing loads for ever or twice, no torn or foreign image is
  shown, a ready image is announced, the limit is respected, pixels are freed;
- **feed reading**: taps act on what is drawn, reading on skips nothing, going
  back goes back, the list under a feed's name is that feed;
- **post actions**: optimistic update and rollback cancel exactly, markers do
  not outlive requests, a copy nothing happened behind shows the server's state;
- **frontlight**: while accesses to the file succeed the light follows the
  setting, leaving while dimmed turns the light on again, the waking touch, and
  no other, is swallowed;
- **touch input**: the main loop gets well-formed touches, on the screen, and
  learns of every lift;
- **scrolled windows**: scrolling skips nothing, hits are of the loaded list;
- **main loop**: every part of the screen shows the active view or the
  dashboard, no image that arrived is forgotten, a dashboard drawn over another
  view leaves the middle of the screen again.

## 2. Plan, and where it stands

Most important first; everything in this list is written, and each line says
what is left.

1. `SessionLifecycle`, with proofs: the state that outlives the process and that
   a mistake makes the user log in again for. Done; liveness is only checked.
2. `ImageCache`, with proofs: the only asynchronous part. Done.
3. `FeedReader`, with proofs: the longest sequences of legal calls. Done.
4. `PostActions`, with proofs, and `LikeButton`, what its buttons promise, which
   it is proved to implement. Done.
5. `TouchStream`, the abstract specification of what the main loop may rely on;
   `TouchInput`, the decoder that is proved to implement it, and `TouchMap`, the
   geometry, with proofs; `Frontlight`, which is written against `TouchStream`
   and not against the decoder, with proofs. Done.
6. `ScrollViews`, the windows of the lists and the ways between the views, and
   `MainLoop`, the loop that dispatches input to them, with proofs. Done.
7. `ConfigFile` and `ThreadTree`, two algorithms without state, with proofs by
   induction over what they read. Done.
8. Left: the measure by which the drawing of a feed decides how much fits.
   Section 7 says what stands in its way.

## 3. How the modules fit together

```
 TouchStream  <--implements-- TouchInput        (property EmitsStream)
      ^                          MCTouchInput adds TouchMap (where a touch is)
      |  INSTANCE: the only input there is
 Frontlight

 LikeButton   <--implements-- PostActions       (property ImplementsButton)

 ScrollViews  <--EXTENDS----- MainLoop
                               MCMainLoop adds ThreadTree (what a thread lists)

 SessionLifecycle              MCSessionLifecycle adds ConfigFile (what is saved)
 ImageCache    FeedReader
```

Every module with behaviour but the two abstract ones has its theorems in
`<Module>_proofs`, and so has `ConfigFile`. Those about `TouchMap` are in
`TouchInput_proofs`, those about `ThreadTree` in `MainLoop_proofs`.

There are two refinements.  `TouchInput` has `Stream == INSTANCE TouchStream`
with the same `open` and `event`, and `EmitsStream` says that the decoder's
initial states are the stream's and each of its steps a step of the stream or a
stutter, except where the property says why it cannot be.  `Frontlight` takes
its touches from the same abstract stream, so that what it shows holds of every
decoder that implements it.  `PostActions` has
`Button == INSTANCE LikeButton WITH ...`: what a copy shows of the viewer while
a request is under way is mapped to the last answer, so that marker, request and
answer become one step of the button, at the moment the server acts.

`ScrollViews` has no specification of its own: it is the windows of the thread,
the feed list and the settings, and the operations that move between views,
which `MainLoop` dispatches to.  The other modules meet only in the state that
one of them owns: `FeedReader` and `PostActions` abstract the restore that
precedes each request (it is `SessionLifecycle`'s) to its outcomes, success,
failure and expiry; `MainLoop` abstracts the image cache to its flag and the
light to whether it is out.

`MC<Module>` gives a module's constants their values for TLC, `<Module>_proofs`
holds its theorems.  Definitions whose comment starts with "Mutant of" are
faults a change of the code could bring in; no specification uses them.

## 4. The modules and the code

`PROJECT.json`, under `map`, has the lines of every definition.  In short:

**SessionLifecycle.** A session is the generation number of its token pair,
`config.ini` the record `[session, settings]`, `login.txt` one of absent,
incomplete and complete.  `phase` is the point the single thread has reached:
`idle` is the main loop, `truncated` the moment between `fopen("w")` and the
last write of `config_save`.  `BeginSave` is the read-modify-write all four
writers share; `OpenForWriteFails`, `TruncateConfig`, `WriteConfig`, `FlushFails`
its steps; `SessionStillFresh`, `SessionRefreshed`, `RestoreError`,
`RefreshReplyLost` the outcomes of `resumeSession`, with the retries of
`restore_saved_session_with_retry`; `LoadSavedSession`, `NoLoginTxt`,
`ReadLoginTxt`, `SessionCreated`, `NullSessionCreated`, `CreateSessionFails` and
`DataDirsUnavailable` are `skeets_run_bootstrap`; `StartOperation` and
`OperationEnds` any operation of `actions.cpp`, `feed.cpp` and `thread.cpp`;
`ChangeSettings`, `SignOut`, `Recheck`, `Launch`, `Exit` the user's.
`Crash`, `UserWritesLoginTxt` and `ServerRevokes` are the environment.
`written` is no state of the program: it is what the writers last put into the
file, or what a crash in the middle of a write left there, so that two
properties can say what every other crash must leave alone.

**ConfigFile.** A configuration is a sequence of entries, a file a sequence of
lines, a value a text of some length: `Cut` is what a buffer keeps of it,
`SetStr`, `GetStr`, `Open`, `Save` are the functions of `config.cpp`, `SetAll`
the loops that set one line after the other, and `Rewrite` what each of the four
writers does.

**ImageCache.** `entries` is `s_cache` with its recency order, `redraw` is
`s_redraw_needed`, `live` and `stale` count the replies in flight of before and
after the last `image_cache_clear`, `disk` is what the file of a path holds (or
a torn prefix).  `LookupReady` and `LookupMiss` are `image_cache_lookup` with
its eviction, disk hit and request; `FinishedUnwanted`, `FinishedFailed`,
`FinishedReady` the callback; then `RedrawNeeded`, `Clear`, `Exit`, `Crash`.

**FeedReader.** `items`, `cursor`, `source`, `page_start`, `page_count`,
`page_history` and `hits` are the fields of `app_state_t`; `shown` is what the
last drawing put under each hit.  `RenderFeed` is `render_feed` and ends every
action that ends with it in the code.  `NextLoaded`, `NextFetched`, `NextFails`
are the outcomes of `advance_feed_page`; the rest are the handlers of the views
from which the list, its source or the authentication changes.  `Batch` is what
the filter of `feed.cpp` leaves of a stretch of a feed, ranked by position.

**PostActions.** The copies of one post in the feed and in the thread, the
viewer's record of each kind and the count each copy shows, and the server's own
records.  `TapLike` and `TapUnlike` are the optimistic halves of the handlers,
`RecordCreated`, `RecordDeleted`, `RequestFails` what the request does (an
answer can be lost after the server acted), `Confirm` and `RollBack` the other
halves.

**LikeButton.** Not code, but the promise: a tap is one step, which changes the
viewer's records and what the tapped copy shows of them together.

**TouchInput, TouchStream, TouchMap.** A frame is kept as what is left of it:
`unread` are the slots whose report is still to come, and `reported`,
`touching`, `kernel_slot` what the reader was told so far, which decide the
kernel's next event.  Each `Read` action is that event and its handler in one:
`handle_touch_abs`, `handle_touch_key`, and `finalize_snow_frame` at the end of
a frame.  `EnqueueUp`, `EnqueueDown`, `EnqueueMove` are the one event
`flush_contact_events` hands out.  `SlotsFrame`, `SnowFrame` and `LoseFrames` are
the panel.  `TouchMap` has `should_swap_axes`, `normalize_axis` and
`map_touch_point` as functions.

**Frontlight.** `light` is the sysfs file, `brightness`, `saved`, `dimmed`,
`available`, `ignore` the fields of the application.  Three variables are there
for properties to speak of: `intact` says that no access to the file ever failed,
`obeyed` whether the last write to it had its effect, and `waker` which contact
woke the device.  `Dim`, `DimCannotRead`, `Wake`, `SwallowRelease`,
`Tap*`, `Leave` are the branches of the main loop, in its order of tests.

**ScrollViews, MainLoop.** A window is `[total, page_start, page_count, hits]`;
`Drawings` is what a `render_*` function makes of it (clamping included),
`ScrollDown`, `ScrollUp` and `TapTrack` what moves it; `OpenThread` to `SignIn`
are the ways from view to view.  `MainLoop` adds what the loop itself decides:
`screen` has what the panel shows in each of three `Bands`: the header, the
body, and the row of buttons at the bottom.  That need not be the view that
`view_mode` names, nor the same view in all three: `Refreshed` is what
`render_active_view` does to it, and with its argument `full_refresh` FALSE the
feed redraws its body only, the thread all but its header.  `TapStats` is a like
or a repost, which redraws the counts of one post and no band.  `Wake` comes
before every other event; `TapView`,
`ShowPicker`, `TapPicker`, `PageKey`, `OtherKey`, `PowerKey` are the branches for
input, in their order of tests, and `IdlePoll` a pass without any: read (and
reset) the image flag, dim, probe, draw.

**ThreadTree.** A tree has, for each post, the replies to it in the order they
were sent, and the set of those the server sent as posts (others are blocked or
deleted).  `Copied` is what `flattenReplies` copies of a post's replies,
`ListFrom` what `flatten_thread_posts` lists of a post and of what its replies
list, and `Flattened` the list of the thread.  `Generations` is the reference it
is compared with: the posts that can be shown, depth by depth.

## 5. What is checked

| run | question | bounds, and why they are enough |
|---|---|---|
| `session_durable` | Do the session and the settings survive crashes anywhere, when every refresh consumes its tokens? | 4 token pairs: a launch, a refresh, a crash, a second refresh with the saved pair. Crashes as the only fault, also inside a write; `ReuseAccepted` is FALSE, the harder server. 89 k states |
| `session_faults` | With all six kinds of fault at once: is no delivered session dropped, is sign-out final, does the main loop get control again? | 2 token pairs: one to hold and one to be handed. 786 k states |
| `session_login_txt` | Is `login.txt` deleted after a *successful* login? Violated | no faults needed |
| `image_cache` | Does no reply, eviction, retry, clear or crash leave the cache wrong? | two sizes of one embed (they share the file), room for one entry, so that every insertion evicts; two replies in flight per key, one more than the properties allow. An image of another source cannot come up in it (a second source has 5 M states and too long a run; with one the properties hold): `OwnImageShown` of section 6 is about any number of them. 15 k states |
| `image_cache_clear` | Does a clear discard replies in flight? Violated | the same |
| `feed_reader` | Do hits, history, list and cursor stay in step? | batches of 3, pages of 1 or 2 posts, lists of up to 4; a timeline of 7 posts whose second batch is filtered out whole, and a second feed. 17 k states |
| `feed_reader_switch` | Is the list that of the feed it is named for? Violated | the same |
| `post_actions` | Does a copy show the server's state after refusals, losses and stale copies, and is each tap one step of `LikeButton`? | one copy in each view, both kinds, two records of each: liked, unliked and liked again. 600 k states |
| `frontlight` | Is the light right after dims, wakes, sliders, exits, crashes and failing accesses? | the four levels 0, 20, 50 (the fallback), 80; one finger, which the property on the swallowed release is about. 54 k states |
| `frontlight_zero` | Does a setting of 0 survive dimming? Violated | the same |
| `touch_input` | Does the decoder implement the stream, and learn of every finger that came or went, for three combinations of panel and configuration? | 2 slots and 3 tracking ids, so that an id may name either contact or neither. 232 k states |
| `main_loop` | Do scrolled windows skip nothing, do taps land on what is drawn, is no image forgotten, does every band show the view or the dashboard, does a stray dashboard leave the body? | threads of up to 3 posts of any height, up to 5 feeds of which 2 fit, 8 rows of settings of which 6 fit: every list has a first window, a last one and one between. 273 k states |

`CHECK_DEADLOCK` is left on in every run but `main_loop`, whose program stops:
nothing follows the end of its loop.

Three modules have no state and so no run of their own; their statements are
assumptions of an MC module, which TLC evaluates before it starts:

- `TouchMap`, in `MCTouchInput`: 20 panels and 6 screens of a few pixels, among
  them a panel with no range, one that lies across the screen, and one with a
  negative origin;
- `ConfigFile`, in `MCSessionLifecycle`, whose configurations give its constants
  values too: what a writer saves is what is read, and
  other writers' keys are as they were, while there is room and but for values
  that are cut; a second rewrite changes nothing; a full file loses only new keys;
  every line the writer writes fits the reader's buffer. All files of up to three
  lines over three keys, where two entries have room, and values of 0, 2047 and
  3000 characters under the code's own limits;
- `ThreadTree`, in `MCMainLoop`: every post that can be shown is listed once, at
  its depth, below the post it answers, and behind the replies that were sent
  before it. Trees of five posts, which are answered in any way and of which any
  but the root may be missing, with replies followed to depth 2 (`MaxDepth` is 1).

The statements about `TouchMap`, `ConfigFile` and `ThreadTree` are theorems as
well; the evaluation found the mistakes before a proof was tried.

### Fairness

There are two liveness properties. `MainLoopResumes` is checked with weak
fairness of `AppStep`, the program's own steps between two visits to its main
loop: the program has one thread, which the system schedules, and each of its
requests is at last answered or given up by the network library.
`StrayDashboardGoes` is checked with weak fairness of `Probe`: the loop probes
the device in every pass without input that comes twenty seconds after the last
probe (main.cpp 3480-3491), so the user only has to pause now and then. Nothing
else is assumed fair of the user, the server's choices or faults. There is no
fairness under which an image's request must finish (no transfer timeout is
set), so nothing is claimed of entries that load for ever; `LoadingHasReply` is
the part that holds.

### Findings

- `session_login_txt`: `read_login_txt` unlinks `login.txt` before it logs in, so
  that a failed login has lost the file (README.md:43 says otherwise, at odds
  with README.md:242, "after a successful read").
- `image_cache_clear`: replies from before a clear still complete entries of
  after it (image_cache.h:32 says they are discarded).
- `feed_reader_switch`: selecting a feed while nobody is signed in renames the
  old list (the screen at main.cpp:3815 says "Switching to ...").
- `frontlight_zero`: a brightness of 0 comes back as 50 after a dim.

Met while modelling, and in the models, but contradicting nothing the repository
says: `config_set_str` cuts a token of more than 2047 characters, and drops a
new key of a full file, in silence; `save_session` and `persist_session` report
success when the file could not be written; a signed-out bootstrap still
consumes a `login.txt`; a page can be blank after a batch that was filtered out
whole; the url's hash alone names an image file; with two fingers down, the
wrong release is swallowed after a wake; a failed dim disables dimming for good,
and the branch at main.cpp:3476 is dead for that reason; `write_text_file`
reports success before its buffer is flushed; scrolling a thread up may skip
posts, because the step is counted in posts of the window below; scrolling it
down may show nothing new, if the last post that fits is followed by one so tall
that it had its place on the screen before, or fills it alone.

Of crashes: one between `fopen("w")` and the last write of `config_save` loses
the session, the settings or both, whichever of them was being saved.
`SessionOnDisk` and `SettingsOnDisk` say that, with storage that answers, such a
crash is the one thing that does.

Of the light at exit: after a dim that failed visibly the level it saved stays
behind, and leaving restores that one, not the one the slider has set since; with
a setting of 0 a dimmed program leaves the fallback, or whatever was on before;
and a wake whose write failed leaves the device dark, which leaving does not
mend, as nothing is dimmed then.  `ExitLeavesLight` therefore speaks of programs
that are dimmed when they end, whose last write has its effect: they leave it
lit, and as set unless 0 is set.

Of the dashboard that an unhandled key draws over another view: the next idle
redraw replaces it only where a partial refresh reaches.  Over the feed its
header and its Refresh and Exit buttons stay on the panel, over the thread its
header, until something redraws in full; a tap there is taken for the feed's own
buttons.  `ScreenIsView` says in which bands this can happen, and
`StrayDashboardGoes` that the body is the view's again.

## 6. What is proved

TLAPS proves the following for every value of the constants that meets the
assumptions in the modules; nothing else is assumed, unless the theorem says so.

**SessionLifecycle_proofs.** `TypeCorrect` comes first; all others use it.
`DeliveredAdopted`: `AdoptsDelivered` speaks of the idle program only, and is not
inductive, as a session may be delivered and still be waiting for its save;
`AdoptInv` extends it to every phase in which the session in memory counts.
`SessionDurable` assumes `ReliableStorage` (no failing read or write; torn writes
by crashes, lost replies and revocations remain): `DiskInv` adds that every save
in progress carries the session it should, the settings' own included.
`SettingsDurable`, under the same assumption, is the counterpart: every save but
the settings' own carries the settings it read (`SettingsInv`).
Both have a part about crashes, which `WrittenInvariant` gives: outside the write
of `config_save` the file's session and settings are those last written, what a
torn write leaves counting as written.
`FailedBootHarmless`, again under it, says that a bootstrap that failed leaves
the session on disk to be tried again; `KeepInv` follows it through the saves of
the settings that may come in between.
`IdleSessionAccepted` assumes in addition that no reply is lost and nothing
revoked (`AnsweredAndUnrevoked`): `UsableInv` says that what was delivered is
accepted.  `SignOutFinal` assumes nothing: `ForgetInv` says that from the first
byte of a sign-out's write, neither the file, nor memory, nor a pending save has
a session.
`EveryLoopEnds` is the part of liveness that can be proved: every step of the
program's thread outside its main loop lowers `StepsLeft`, which is ten at most,
and no other step raises it before the main loop is reached.  What TLC adds, in `MainLoopResumes`, is that there
is such a step and that it is taken.

**PostActions_proofs.** `ActionInv` strengthens the three properties by
`RequestMarked`: while a request that creates a record is under way, its copy
carries the marker.  It gives `TypeCorrect` (no count turns negative although a
rollback does not test it), `MarkerGoesWithRequest` and `FloorNeverReached`.
`NothingDrifts` needs `AgreeInv`: what a copy shows is what the server had when
the request was made, corrected by the request under way.  `FloorNeverReached`
rests on what the model assumes of the server: the counts it sends include the
viewer's own like or repost.  `TapsAreAtomic` is
the refinement: with `AgreeInv` and `RecordsKnown` (the server holds only
records it has created), each action is a step of `LikeButton` or leaves all it
can see as it was.

**ImageCache_proofs.** `Inv` is `Typed`, `LoadingHasReply`, `ReadySignalled`,
`FetchedOnce`, `PixelsFreed` and `Bounded`; the two that count are stated so that
they are inductive: `FetchedOnce` for every key and not only the cached ones,
`Bounded` together with the number of entries that load.  It gives the six
invariants of the run.  The seventh is about the files, which survive the
process: by `NameInv`, a file holds an image whose url has the hash that names
the file, a torn one, or nothing, through every crash.  `ImageOfItsFileShown` is
what follows for any hash, and `OwnImageShown` adds `FileNamesDiffer`, that no
two urls have the same one: then an entry shows the image it asked for.

**FeedReader_proofs.** `Inv` has one part for each thing a page depends on:
`Modes`, `List`, `Page`, `Trail` (the history leads from the top to the current
page), `ReadSoFar` (everything above the page was shown), `NothingHeld` and
`OnScreen`.  `ListIsTheFeed` rests on lemmas about the filter: `MembersAreCounted`
(ranks are a bijection to the places that are left) and `BatchesAdjoin` (a
stretch filtered, followed by the next one filtered, is both filtered at once);
`PrefixInv` ties list and cursor together while the list is one feed's.
`OnlySignedOutSelectionRenames` completes the finding of `feed_reader_switch`: of
all steps, only selecting a feed while signed out puts a list under another
feed's name.  Hence `ListIsOfItsName`: as long as nobody does
(`SelectsSignedIn`), the feed view shows posts of the active feed only.

**TouchInput_proofs.** `StreamIsEmitted` is the refinement, for any number of
slots and contacts and for all three kinds of panel.  `FrameInv` relates what is
left of a frame to the fingers; `SlotsInv` and `SnowInv` say in which protocol
the decoder is; `OwnSlotInv` and `SinglyInv` are the two reasons why a report
reaches the right contact: the slot named last is the decoder's, or there is one
finger only.  `ContactInv` says that a contact's pending flags agree with what
the main loop saw of it.  `FingersKnown` has one invariant for each combination
of panel and configuration: `OwnKnown`, `SnowKnown`, `GuestKnown`.
Of the geometry of `TouchMap` there are `TouchLandsOnScreen` and
`NoPixelOutOfReach`, from three lemmas on division: a quotient is the number of
times the divisor fits, scaling stays in range, and scaling down a finer range
misses nothing.

**MainLoop_proofs.** `Settled` says what a drawing leaves of a window, whatever
moved it before (`RenderDraws`), and `WindowInv` that the window of the view that
is active is settled; `ControlInv` relates the bands of the screen, view, picker
and image flag.  From it `TapsLandInTheList`, `BodyIsViewOrDashboard` (every band
shows the active view or the dashboard, and after partial redraws only the bands
they leave out can differ from the body), `NoImageForgotten`, and by
arithmetic on the window `ScrollingDownIsComplete` (nothing is skipped, a page
moves on by an entry at least, and in lists of rows it ends further down) and
`ScrollingUpIsComplete`.
Of `ThreadTree` there are `ThreadIsListed`, `RepliesAreBelow` and
`RepliesKeepOrder`, for trees of any size and shape and any
`MaxDepth`.  The recursion goes down to a deepest level, so that the
induction goes up from it (`DeeperIsWellFounded`, `FlattenedUnfolds`), and over
the replies of one post (`StepByStep`).  `Whole` is its hypothesis, what the
three theorems say of the list below any one post; `Partial` the same while some
of its replies are still to be listed.  `PartialGrows` appends one reply's list
to it, and needs `Apart`: no two replies to a post have a post below them in
common, as a post answers one other (`OneGeneration`).

**Frontlight_proofs.** `LightInv` is `TypeOK`, `AwakeLitAsSet`, `DimmedRemembers`
and `FailureShows` (a program that gave up dimming has seen a failure); the last
is needed because a failed dim leaves the light to restore in place.  It gives
`TypeCorrect`, `LightFollowsSetting`, `WakeIsPossible` and `DimmedExitIsLit`: a
program that ends dimmed, whatever accesses failed before, leaves the light on if
its last write takes effect, as set unless 0 is set.
`OnlyDarknessIsOverruled` bounds what `frontlight_zero` finds: while the device is
awake and the file obeys, the light is as set, or it is the fallback and 0 was
set (`ZeroInv`).
`WakeTapIsSwallowed` holds for any panel as long as fingers touch it one at a
time (`OneAtATime`; with two at once it is false, as the remarks above say): by
`WakeInv`, while the flag is up the finger that woke the device is still down, or
its release is the next event.

**ConfigFile_proofs.** `WhatIsSavedIsRead`: a configuration that is saved and
opened again is the same.  From it `RewritingSettles`; and with what one line
does to the entries of any key (`SetStr`), by induction over the lines that are
set (`LineByLine`), `OthersKept`, `OldKeysKept` and `LinesFitBuffer`: for every
file, every sequence of writes and every limit, the four statements TLC
evaluates.  `Configs`, no two entries of one key and no more than there is room
for, is what each line preserves.

Every invariant and action property that a passing run checks is proved, most of
them without further assumptions, and so is every statement about the three
modules without state.  The provers know neither fairness nor ENABLED, so the
two liveness properties (`MainLoopResumes`, `StrayDashboardGoes`) are only
checked, as are the four violations.  Induction over data goes
by well-founded relations: the set of the places at which a statement fails would
have a least member.

## 7. What is not modelled

- Durability below the file system: a crash leaves `config.ini` as the last
  system call left it. `config_save` calls `fsync`, and ignores that it failed;
  image files are not synced. What a power loss keeps of a file that was just
  written is not the program's doing.
- The brightness that is adopted at the first launch is no part of
  `SessionLifecycle`'s settings: it is written when the settings next are.
- `FeedReader` assumes that a server's empty batch carries no cursor; a view's
  hits speak of the last drawing of that view.
- `PostActions` assumes that the counts a server sends include the viewer's own
  like or repost; if they lag behind, a count may be taken down to its floor.
- In `ImageCache`'s instance no two urls have the same hash, and no avatars
  occur (they differ only in what is scaled); `image_evict_disk_cache` and
  `image_load_url`, which nothing calls, are left out.
- `TouchInput`: SYN_DROPPED is not handled by the code, and `LoseFrames` is what
  that means; a panel's state when the program starts is that of lost frames.
  Scanning for devices and grabbing them are left out.
- Heights. A drawing shows any number of posts that the screen may hold, and
  `page_count` is the number it drew. The code measures a post (main.cpp 1174,
  1216) by other rules than it draws one (1905, 2800); whether the two agree is a
  question about fonts and line breaks, not about states.
- The layout of buttons and the dashboard's texts.
- Of `config.ini`, the parsing of numbers and booleans, a value that is cut just
  after a blank (which reading it again would cut once more), keys longer than 63
  characters (the program has none), and lines of a user that are longer than the
  reader's buffer, whose rest is read as a line of its own.
- The launcher and the Wi-Fi scripts: sequential shell around system tools. Its
  handler of TERM and INT cleans up and goes on; what reaches the program, a
  launch after any end, is in `SessionLifecycle` and `Frontlight`.
- Probes, diagnostic tools, drawing, fonts and paths, which keep no state.
- The AT Protocol SDK, which is not part of the repository: its calls are
  external actions that answer, refuse or get lost.
