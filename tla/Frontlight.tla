------------------------------- MODULE Frontlight ------------------------------
(***************************************************************************)
(* The frontlight and the idle timeout of src/src/kobo/main.cpp: the light *)
(* goes out when nobody touched the device for the configured time, any    *)
(* input lights it again, and the input that wakes the device is not taken *)
(* for a tap on what lies under it.                                        *)
(*                                                                         *)
(* Input arrives as TouchStream promises it.  The light is a file of       *)
(* sysfs, shared with the system's own reader (nickel), which has it while *)
(* the program is not running.  Reading it may fail; writing it may fail   *)
(* visibly, or invisibly: write_text_file asks the stream whether it is    *)
(* good before the value has left the stream's buffer.                     *)
(***************************************************************************)
EXTENDS Integers

CONSTANTS
    Contacts,     \* contacts of the touch panel
    Levels,       \* brightness values that occur, 0 among them
    Fallback      \* kFallbackRestoreBrightness

ASSUME ContactsAssumption == Contacts \subseteq Nat
ASSUME LevelsAssumption == Levels \subseteq Nat /\ 0 \in Levels /\ Fallback \in Levels \ {0}

VARIABLES
    open, event,     \* the touch stream
    running,         \* the program is in its main loop
    light,           \* the brightness file
    stored,          \* frontlight_brightness in config.ini, Unset when missing
    brightness,      \* app.frontlight_brightness
    timeout,         \* app.screen_dim_timeout_seconds > 0
    saved,           \* app.saved_frontlight_brightness
    dimmed,          \* app.screen_dimmed
    available,       \* app.frontlight_control_available
    ignore,          \* app.ignore_touch_release_after_wake
    idle,            \* the timeout has passed since the last input
    waker,           \* the contact whose touch woke the device last, or Unset
    intact,          \* every access to the brightness file worked, this launch
    obeyed           \* the last one did

stream == <<open, event>>
settings == <<stored, brightness, timeout>>
dimming == <<saved, dimmed, available>>
waking == <<ignore, waker>>
file == <<intact, obeyed>>
vars == <<stream, running, light, settings, dimming, waking, idle, file>>

Stream == INSTANCE TouchStream

Unset == -1
LevelsOrUnset == Levels \cup {Unset}

-----------------------------------------------------------------------------
(* set_frontlight_brightness: the caller learns of a file that cannot be    *)
(* opened, not of a value that did not arrive.                              *)

Write(b, reported) ==
    \/ reported /\ light' = b /\ obeyed' = TRUE /\ UNCHANGED intact
    \/ obeyed' = FALSE /\ intact' = FALSE /\ UNCHANGED light

Restore ==
    /\ IF saved = Unset THEN UNCHANGED <<light, file>> ELSE \E reported \in BOOLEAN : Write(saved, reported)
    /\ saved' = Unset

Init ==
    /\ Stream!Init
    /\ running = FALSE
    /\ light \in Levels
    /\ stored \in LevelsOrUnset
    /\ brightness = Unset
    /\ timeout = FALSE
    /\ saved = Unset
    /\ dimmed = FALSE
    /\ available = TRUE
    /\ ignore = FALSE
    /\ idle = FALSE
    /\ waker = Unset
    /\ intact = TRUE
    /\ obeyed = TRUE

-----------------------------------------------------------------------------
(* Leaving and entering the program. *)

\* Nickel or a reboot has the light meanwhile.
SystemSetsLight ==
    /\ ~running
    /\ light' \in Levels
    /\ UNCHANGED <<stream, running, settings, dimming, waking, idle, file>>

\* Mutant of ApplyBrightness: a light that cannot be read is not replaced.
ApplyIfRead ==
    \/ /\ stored = Unset
       /\ \/ brightness' = light /\ intact' = TRUE
          \/ brightness' = Unset /\ intact' = FALSE
       /\ UNCHANGED light
    \/ /\ stored # Unset
       /\ brightness' = stored
       /\ light' = stored /\ intact' = TRUE

\* A setting that is stored is written to the device, otherwise the device's
\* own brightness is adopted, or the fallback where it cannot be read.
ApplyBrightness ==
    \/ /\ stored = Unset
       /\ \/ brightness' = light /\ intact' = TRUE
          \/ brightness' = Fallback /\ intact' = FALSE
       /\ UNCHANGED light
    \/ /\ stored # Unset
       /\ brightness' = stored
       /\ \/ light' = stored /\ intact' = TRUE
          \/ UNCHANGED light /\ intact' = FALSE

Launch ==
    /\ ~running
    /\ running' = TRUE
    /\ open' = {} /\ event' = Stream!NoEvent
    /\ timeout' \in BOOLEAN
    /\ ApplyBrightness
    /\ obeyed' = intact'
    /\ saved' = Unset /\ dimmed' = FALSE /\ available' = TRUE
    /\ ignore' = FALSE /\ waker' = Unset
    /\ idle' = FALSE
    /\ UNCHANGED stored

\* Mutant of Leave: the light is left to the next wake.
LeaveDark ==
    /\ running' = FALSE
    /\ UNCHANGED <<stream, light, settings, dimming, waking, idle, file>>

\* The way out of main.
Leave ==
    /\ running' = FALSE
    /\ Restore
    /\ UNCHANGED <<stream, settings, dimmed, available, waking, idle>>

\* SIGINT or SIGTERM end the loop before the next poll.
Stop == running /\ event = Stream!NoEvent /\ Leave

\* The power key ends it, unless it is what wakes the device.
PowerKey == running /\ ~dimmed /\ event = Stream!KeyPress /\ Leave

Crash ==
    /\ running
    /\ running' = FALSE
    /\ UNCHANGED <<stream, light, settings, dimming, waking, idle, file>>

-----------------------------------------------------------------------------
(* A poll without an event. *)

TimePasses ==
    /\ running /\ event = Stream!NoEvent
    /\ ~idle
    /\ idle' = TRUE
    /\ UNCHANGED <<stream, running, light, settings, dimming, waking, file>>

DimDue == running /\ event = Stream!NoEvent /\ idle /\ timeout /\ available /\ ~dimmed

\* Mutant of RestoreLevel: what the file reads is kept, whatever the setting.
LevelRead == IF light > 0 THEN light ELSE Fallback

\* What the next wake will light: the setting, else the light that was on.
RestoreLevel == IF brightness > 0 THEN brightness ELSE IF light > 0 THEN light ELSE Fallback

\* A failed write leaves what would have been restored behind, and ends dimming
\* for good: nothing sets available again.
Dim ==
    /\ DimDue
    /\ saved' = RestoreLevel
    /\ \E reported \in BOOLEAN :
        /\ Write(0, reported)
        /\ dimmed' = reported
        /\ available' = reported
    /\ UNCHANGED <<stream, running, settings, waking, idle>>

DimCannotRead ==
    /\ DimDue
    /\ available' = FALSE
    /\ obeyed' = FALSE /\ intact' = FALSE
    /\ UNCHANGED <<stream, running, light, settings, saved, dimmed, waking, idle>>

-----------------------------------------------------------------------------
(* Input. *)

Input ==
    /\ running
    /\ Stream!Key \/ \E c \in Contacts : Stream!Down(c) \/ Stream!Move(c) \/ Stream!Up(c)
    /\ UNCHANGED <<running, light, settings, dimming, waking, idle, file>>

\* Mutant of Wakes: a finger that was resting on the panel is not thought of.
WakesByTouchDown == event.type = "touch_down"

\* The event is followed by a release of the same touch.
Wakes == event.type \in {"touch_down", "touch_move"}

Wake ==
    /\ running /\ dimmed
    /\ Stream!Handled
    /\ dimmed' = FALSE
    /\ Restore
    /\ ignore' = Wakes
    /\ waker' = IF event.type \in {"touch_down", "touch_move"} THEN event.slot ELSE Unset
    /\ idle' = FALSE
    /\ UNCHANGED <<running, settings, available>>

\* The handler of an event that finds the device awake.
Handle ==
    /\ running /\ ~dimmed
    /\ Stream!Handled
    /\ idle' = FALSE
    /\ waker' = IF event = Stream!Touch("touch_up", waker) THEN Unset ELSE waker
    /\ UNCHANGED <<running, dimming>>

\* Keys other than power turn pages, and only releases are acted upon.
PassOver ==
    /\ Handle
    /\ event.type # "touch_up"
    /\ UNCHANGED <<light, settings, ignore, file>>

SwallowRelease ==
    /\ Handle
    /\ event.type = "touch_up"
    /\ ignore
    /\ ignore' = FALSE
    /\ UNCHANGED <<light, settings, file>>

Tap ==
    /\ Handle
    /\ event.type = "touch_up"
    /\ ~ignore
    /\ UNCHANGED ignore

\* save_settings writes every setting, unless the file cannot be opened or saved.
SaveSettings == stored' \in {stored, brightness'}

TapElsewhere == Tap /\ UNCHANGED <<light, settings, file>>

TapSetting ==
    /\ Tap
    /\ timeout' \in BOOLEAN
    /\ UNCHANGED <<brightness, light, file>>
    /\ SaveSettings

\* Mutant of TapSlider: the value is stored, and applied at the next launch.
TapSliderStores(b) ==
    /\ Tap
    /\ brightness' = b
    /\ SaveSettings
    /\ UNCHANGED <<timeout, light, file>>

TapSlider(b) ==
    /\ Tap
    /\ brightness' = b
    /\ SaveSettings
    /\ \E reported \in BOOLEAN : Write(b, reported)
    /\ UNCHANGED timeout

\* The exit button of the dashboard.
TapExit == running /\ ~dimmed /\ event.type = "touch_up" /\ ~ignore /\ Leave

-----------------------------------------------------------------------------
Next ==
    \/ SystemSetsLight \/ Launch
    \/ Stop \/ PowerKey \/ TapExit \/ Crash
    \/ TimePasses \/ Dim \/ DimCannotRead
    \/ Input \/ Wake \/ PassOver \/ SwallowRelease
    \/ TapElsewhere \/ TapSetting
    \/ \E b \in Levels : TapSlider(b)

Spec == Init /\ [][Next]_vars

-----------------------------------------------------------------------------
(***************************************************************************)
(* Every variable keeps to its domain; while the program runs it has a     *)
(* brightness, set or adopted.                                             *)
(***************************************************************************)
TypeOK ==
    /\ Stream!StreamTypeOK
    /\ light \in Levels
    /\ stored \in LevelsOrUnset
    /\ brightness \in LevelsOrUnset
    /\ saved \in LevelsOrUnset
    /\ waker \in Contacts \cup {Unset}
    /\ {running, timeout, dimmed, available, ignore, idle, intact, obeyed} \subseteq BOOLEAN
    /\ running => brightness # Unset

(***************************************************************************)
(* While the device is awake and the file obeys, the light is what the     *)
(* settings page shows, after launches, dims, wakes and changes of the     *)
(* setting in any order, provided it shows a light at all.                 *)
(***************************************************************************)
AwakeLitAsSet == running /\ ~dimmed /\ intact /\ brightness > 0 => light = brightness

(***************************************************************************)
(* The same of every setting, the one the slider makes at its left end     *)
(* included.  dim_frontlight does not take 0 for a setting: the device     *)
(* wakes to the fallback.                                                  *)
(***************************************************************************)
AwakeAsConfigured == running /\ ~dimmed /\ intact => light = brightness

(***************************************************************************)
(* Whatever failed before, a dimmed device knows a light to wake to, the   *)
(* user's if there is one; and a light to restore is left over only by a   *)
(* dim that failed, after which the device is never dimmed again.          *)
(***************************************************************************)
DimmedRemembers ==
    running =>
        /\ dimmed => saved > 0 /\ (brightness > 0 => saved = brightness) /\ (intact => light = 0)
        /\ saved # Unset => dimmed \/ ~available

(***************************************************************************)
(* The user is not left in the dark: whatever failed before, a program     *)
(* that ends dimmed, short of a crash, leaves the light on, at the level   *)
(* that is set unless that is 0, if only its last write arrives.  And one  *)
(* that ends awake leaves the light as it is, unless it gave dimming up    *)
(* (then a level set since is overruled by the one that the failed dim     *)
(* left behind).                                                           *)
(***************************************************************************)
ExitLeavesLight ==
    [][running /\ Leave =>
        /\ dimmed /\ obeyed' => light' > 0 /\ (brightness > 0 => light' = brightness)
        /\ ~dimmed /\ available => light' = light]_vars

(***************************************************************************)
(* The release that is swallowed is that of the touch that woke the        *)
(* device, and that release is never taken for a tap: with one finger on   *)
(* the panel at a time, and keys, dims and repeated or lost events between *)
(* the two.                                                                *)
(***************************************************************************)
SwallowsWakeTapOnly ==
    [][/\ SwallowRelease => event.slot = waker
       /\ Tap => event.slot # waker]_vars
=============================================================================
