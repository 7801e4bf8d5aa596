--------------------------- MODULE Frontlight_proofs ---------------------------
(***************************************************************************)
(* Proofs about Frontlight, for any panel, any levels and any fallback.    *)
(***************************************************************************)
EXTENDS Frontlight, TLAPS

(***************************************************************************)
(* What an access that failed leaves: an awake device has a light to       *)
(* restore only after one.                                                 *)
(***************************************************************************)
FailureShows == running /\ ~available => ~intact

LightInv == TypeOK /\ AwakeLitAsSet /\ DimmedRemembers /\ FailureShows

USE DEF Unset, LevelsOrUnset

LEMMA LightInvInit == Init => LightInv
  BY LevelsAssumption DEF Init, Stream!Init, LightInv, TypeOK, Stream!StreamTypeOK, Stream!Events,
     AwakeLitAsSet, DimmedRemembers, FailureShows

(***************************************************************************)
(* What the touch stream does keeps the stream's types.                    *)
(***************************************************************************)
LEMMA StreamTypes ==
  ASSUME Stream!StreamTypeOK,
         \/ Stream!Handled \/ Stream!Key
         \/ \E c \in Contacts : Stream!Down(c) \/ Stream!Move(c) \/ Stream!Up(c)
  PROVE  Stream!StreamTypeOK'
  BY DEF Stream!StreamTypeOK, Stream!Events, Stream!Handled, Stream!Key, Stream!Down, Stream!Move,
     Stream!Up, Stream!Touch, Stream!NoEvent, Stream!KeyPress

(***************************************************************************)
(* A write of a level leaves a level, and the level written where every    *)
(* access worked.                                                          *)
(***************************************************************************)
LEMMA WriteLeaves ==
  ASSUME light \in Levels, intact \in BOOLEAN,
         NEW b \in Levels, NEW reported \in BOOLEAN, Write(b, reported)
  PROVE  /\ light' \in Levels
         /\ intact' \in BOOLEAN /\ obeyed' \in BOOLEAN
         /\ intact' => light' = b /\ intact
         /\ ~reported => ~intact'
         /\ obeyed' => light' = b
  <1>1. CASE reported /\ light' = b /\ obeyed' = TRUE /\ UNCHANGED intact
    BY <1>1
  <1>2. CASE obeyed' = FALSE /\ intact' = FALSE /\ UNCHANGED light
    BY <1>2
  <1>3. QED
    BY <1>1, <1>2 DEF Write

(***************************************************************************)
(* Restoring leaves the light to restore, if there is one.                 *)
(***************************************************************************)
LEMMA RestoreLeaves ==
  ASSUME light \in Levels, intact \in BOOLEAN, obeyed \in BOOLEAN, saved \in LevelsOrUnset, Restore
  PROVE  /\ light' \in Levels
         /\ intact' \in BOOLEAN /\ obeyed' \in BOOLEAN
         /\ saved # Unset /\ obeyed' => light' = saved
         /\ saved = Unset => light' = light
         /\ saved' = Unset
         /\ intact' => intact /\ light' = IF saved = Unset THEN light ELSE saved
  <1>1. CASE saved = Unset
    BY <1>1 DEF Restore, file
  <1>2. CASE saved # Unset
    <2>1. saved \in Levels
      BY <1>2
    <2>2. PICK reported \in BOOLEAN : Write(saved, reported)
      BY <1>2 DEF Restore
    <2>3. QED
      BY <1>2, <2>1, <2>2, WriteLeaves DEF Restore
  <1>3. QED
    BY <1>1, <1>2

LEMMA LightInvLeave ==
  ASSUME LightInv, Leave PROVE LightInv'
  <1>1. /\ light' \in Levels
        /\ intact' \in BOOLEAN /\ obeyed' \in BOOLEAN
        /\ saved' = Unset
    BY RestoreLeaves DEF Leave, LightInv, TypeOK
  <1>2. running' = FALSE
    BY DEF Leave
  <1>3. TypeOK'
    BY <1>1, <1>2 DEF Leave, LightInv, TypeOK, Stream!StreamTypeOK, stream, settings, waking
  <1>4. QED
    BY <1>2, <1>3 DEF LightInv, AwakeLitAsSet, DimmedRemembers, FailureShows

LEMMA LightInvLaunch ==
  ASSUME LightInv, Launch PROVE LightInv'
  <1>1. light' \in Levels /\ brightness' \in Levels /\ intact' \in BOOLEAN
    BY LevelsAssumption DEF Launch, ApplyBrightness, LightInv, TypeOK
  <1>2. intact' => light' = brightness'
    BY DEF Launch, ApplyBrightness
  <1>3. TypeOK'
    <2>1. Stream!StreamTypeOK'
      BY DEF Launch, Stream!StreamTypeOK, Stream!Events
    <2>2. {running, timeout, dimmed, available, ignore, idle, intact, obeyed}' \subseteq BOOLEAN
      BY <1>1 DEF Launch
    <2>3. stored' \in LevelsOrUnset /\ saved' = Unset /\ waker' = Unset /\ brightness' # Unset
      BY <1>1, LevelsAssumption DEF Launch, LightInv, TypeOK
    <2>4. QED
      BY <1>1, <2>1, <2>2, <2>3 DEF TypeOK
  <1>4. QED
    BY <1>2, <1>3 DEF Launch, LightInv, AwakeLitAsSet, DimmedRemembers, FailureShows

LEMMA LightInvDim ==
  ASSUME LightInv, Dim PROVE LightInv'
  <1>1. /\ RestoreLevel \in Levels \ {0}
        /\ brightness > 0 => RestoreLevel = brightness
    BY LevelsAssumption DEF RestoreLevel, LightInv, TypeOK
  <1>2. PICK reported \in BOOLEAN :
          Write(0, reported) /\ dimmed' = reported /\ available' = reported
    BY DEF Dim
  <1>3. /\ light' \in Levels
        /\ intact' \in BOOLEAN /\ obeyed' \in BOOLEAN
        /\ intact' => light' = 0
        /\ ~reported => ~intact'
    BY <1>2, WriteLeaves, LevelsAssumption DEF LightInv, TypeOK
  <1>4. saved' > 0 /\ (brightness > 0 => saved' = brightness)
    BY <1>1, LevelsAssumption DEF Dim
  <1>5. TypeOK'
    BY <1>1, <1>2, <1>3 DEF Dim, LightInv, TypeOK, Stream!StreamTypeOK, stream, settings, waking
  <1>6. QED
    BY <1>2, <1>3, <1>4, <1>5 DEF Dim, settings, LightInv, AwakeLitAsSet, DimmedRemembers, FailureShows

LEMMA LightInvWake ==
  ASSUME LightInv, Wake PROVE LightInv'
  <1>1. /\ light' \in Levels
        /\ intact' \in BOOLEAN /\ obeyed' \in BOOLEAN
        /\ saved' = Unset
        /\ intact' => intact /\ light' = IF saved = Unset THEN light ELSE saved
    BY RestoreLeaves DEF Wake, LightInv, TypeOK
  <1>2. waker' \in Contacts \cup {Unset} /\ ignore' \in BOOLEAN
    BY DEF Wake, Wakes, LightInv, TypeOK, Stream!StreamTypeOK, Stream!Events, Stream!NoEvent, Stream!KeyPress
  <1>3. Stream!StreamTypeOK'
    BY StreamTypes DEF Wake, LightInv, TypeOK
  <1>4. TypeOK'
    BY <1>1, <1>2, <1>3 DEF Wake, LightInv, TypeOK, settings
  <1>5. saved > 0 /\ (brightness > 0 => saved = brightness)
    BY DEF Wake, LightInv, DimmedRemembers
  <1>6. QED
    BY <1>1, <1>4, <1>5 DEF Wake, settings, LightInv, AwakeLitAsSet, DimmedRemembers, FailureShows

LEMMA LightInvHandle ==
  ASSUME LightInv, PassOver \/ SwallowRelease \/ TapElsewhere \/ TapSetting PROVE LightInv'
  <1>1. Handle /\ UNCHANGED <<light, brightness, file>>
    BY DEF PassOver, SwallowRelease, TapElsewhere, TapSetting, Tap, settings
  <1>2. timeout' \in BOOLEAN
    BY DEF PassOver, SwallowRelease, TapElsewhere, TapSetting, settings, LightInv, TypeOK
  <1>i. ignore' \in BOOLEAN
    BY DEF PassOver, SwallowRelease, TapElsewhere, TapSetting, Tap, LightInv, TypeOK
  <1>s. stored' \in LevelsOrUnset
    BY <1>1 DEF PassOver, SwallowRelease, TapElsewhere, TapSetting, settings, SaveSettings, LightInv, TypeOK
  <1>3. Stream!StreamTypeOK'
    BY <1>1, StreamTypes DEF Handle, LightInv, TypeOK
  <1>4. TypeOK'
    BY <1>1, <1>2, <1>3, <1>i, <1>s DEF file, Handle, LightInv, TypeOK, dimming
  <1>5. QED
    BY <1>1, <1>4 DEF file, Handle, dimming, LightInv, AwakeLitAsSet, DimmedRemembers, FailureShows

LEMMA LightInvSlider ==
  ASSUME LightInv, NEW b \in Levels, TapSlider(b) PROVE LightInv'
  <1>1. PICK reported \in BOOLEAN : Write(b, reported)
    BY DEF TapSlider
  <1>2. /\ light' \in Levels
        /\ intact' \in BOOLEAN /\ obeyed' \in BOOLEAN
        /\ intact' => light' = b /\ intact
    BY <1>1, WriteLeaves DEF LightInv, TypeOK
  <1>3. Handle /\ brightness' = b
    BY DEF TapSlider, Tap
  <1>4. Stream!StreamTypeOK'
    BY <1>3, StreamTypes DEF Handle, LightInv, TypeOK
  <1>5. TypeOK'
    <2>1. stored' \in LevelsOrUnset /\ brightness' \in Levels
      BY <1>3 DEF TapSlider, SaveSettings, LightInv, TypeOK
    <2>2. waker' \in Contacts \cup {Unset} /\ UNCHANGED <<running, timeout, dimming, ignore>> /\ idle' = FALSE
      BY DEF TapSlider, Tap, Handle, LightInv, TypeOK
    <2>3. {running, timeout, dimmed, available, ignore, idle, intact, obeyed}' \subseteq BOOLEAN
      BY <1>2, <2>2 DEF LightInv, TypeOK, dimming
    <2>4. saved' \in LevelsOrUnset /\ (running' => brightness' # Unset)
      BY <2>1, <2>2, LevelsAssumption DEF LightInv, TypeOK, dimming
    <2>5. QED
      BY <1>2, <1>4, <2>1, <2>2, <2>3, <2>4 DEF TypeOK
  <1>6. QED
    BY <1>2, <1>3, <1>5 DEF Handle, dimming, LightInv, AwakeLitAsSet, DimmedRemembers, FailureShows

LEMMA LightInvInput ==
  ASSUME LightInv, Input PROVE LightInv'
  <1>1. Stream!StreamTypeOK'
    BY StreamTypes DEF Input, LightInv, TypeOK
  <1>2. TypeOK'
    BY <1>1 DEF file, Input, LightInv, TypeOK, settings, dimming, waking
  <1>3. QED
    BY <1>2 DEF file, Input, settings, dimming, waking, LightInv, AwakeLitAsSet, DimmedRemembers, FailureShows

LEMMA LightInvQuiet ==
  ASSUME LightInv, SystemSetsLight \/ Crash \/ TimePasses \/ DimCannotRead \/ UNCHANGED vars
  PROVE  LightInv'
  <1>1. TypeOK'
    <2>1. UNCHANGED <<open, event, settings, saved, waking>>
      BY DEF SystemSetsLight, Crash, TimePasses, DimCannotRead, vars, stream, dimming
    <2>2. light' \in Levels
      BY DEF SystemSetsLight, Crash, TimePasses, DimCannotRead, vars, LightInv, TypeOK
    <2>3. {running, timeout, dimmed, available, ignore, idle, intact, obeyed}' \subseteq BOOLEAN
      BY DEF file, SystemSetsLight, Crash, TimePasses, DimCannotRead, vars, settings, dimming, waking, LightInv, TypeOK
    <2>4. running' => running
      BY DEF SystemSetsLight, Crash, TimePasses, DimCannotRead, vars
    <2>5. QED
      BY <2>1, <2>2, <2>3, <2>4 DEF settings, waking, LightInv, TypeOK, Stream!StreamTypeOK
  <1>2. (AwakeLitAsSet /\ DimmedRemembers /\ FailureShows)'
    BY DEF file, SystemSetsLight, Crash, TimePasses, DimCannotRead, DimDue, vars, settings, dimming,
       LightInv, AwakeLitAsSet, DimmedRemembers, FailureShows
  <1>3. QED
    BY <1>1, <1>2 DEF LightInv

LEMMA LightInvStep == LightInv /\ [Next]_vars => LightInv'
  <1> SUFFICES ASSUME LightInv, [Next]_vars PROVE LightInv'
    OBVIOUS
  <1>1. CASE Launch
    BY <1>1, LightInvLaunch
  <1>2. CASE Stop \/ PowerKey \/ TapExit
    BY <1>2, LightInvLeave DEF Stop, PowerKey, TapExit
  <1>3. CASE Dim
    BY <1>3, LightInvDim
  <1>4. CASE Wake
    BY <1>4, LightInvWake
  <1>5. CASE PassOver \/ SwallowRelease \/ TapElsewhere \/ TapSetting
    BY <1>5, LightInvHandle
  <1>6. CASE \E b \in Levels : TapSlider(b)
    BY <1>6, LightInvSlider
  <1>7. CASE Input
    BY <1>7, LightInvInput
  <1>8. CASE SystemSetsLight \/ Crash \/ TimePasses \/ DimCannotRead \/ UNCHANGED vars
    BY <1>8, LightInvQuiet
  <1>9. QED
    BY <1>1, <1>2, <1>3, <1>4, <1>5, <1>6, <1>7, <1>8 DEF Next

LEMMA LightInvAlways == Spec => []LightInv
  BY LightInvInit, LightInvStep, PTL DEF Spec

(***************************************************************************)
(* Every variable keeps to its domain, and a running program has a         *)
(* brightness.                                                             *)
(***************************************************************************)
THEOREM TypeCorrect == Spec => []TypeOK
  <1>1. LightInv => TypeOK
    BY DEF LightInv
  <1>2. QED
    BY <1>1, LightInvAlways, PTL

(***************************************************************************)
(* While the device is awake and the file obeys, the light is the one set. *)
(***************************************************************************)
THEOREM LightFollowsSetting == Spec => []AwakeLitAsSet
  <1>1. LightInv => AwakeLitAsSet
    BY DEF LightInv
  <1>2. QED
    BY <1>1, LightInvAlways, PTL

(***************************************************************************)
(* A dimmed device knows a light to wake to, whatever failed before.       *)
(***************************************************************************)
THEOREM WakeIsPossible == Spec => []DimmedRemembers
  <1>1. LightInv => DimmedRemembers
    BY DEF LightInv
  <1>2. QED
    BY <1>1, LightInvAlways, PTL

(***************************************************************************)
(* Whatever failed before, a program that ends dimmed leaves the light on  *)
(* at the level set, or some light where that is 0, if only its last write *)
(* arrives; and one that ends awake touches the light only if a dim had    *)
(* failed visibly.                                                         *)
(***************************************************************************)
THEOREM DimmedExitIsLit == Spec => ExitLeavesLight
  <1>1. ASSUME LightInv, running, Leave, dimmed, obeyed'
        PROVE  light' > 0 /\ (brightness > 0 => light' = brightness)
    <2>1. saved > 0 /\ (brightness > 0 => saved = brightness)
      BY <1>1 DEF LightInv, DimmedRemembers
    <2>2. light' = saved
      BY <1>1, <2>1, RestoreLeaves DEF Leave, LightInv, TypeOK
    <2>3. QED
      BY <2>1, <2>2
  <1>2. ASSUME LightInv, running, Leave, ~dimmed, available
        PROVE  light' = light
    <2>1. saved = Unset
      BY <1>2 DEF LightInv, DimmedRemembers
    <2>2. QED
      BY <1>2, <2>1, RestoreLeaves DEF Leave, LightInv, TypeOK
  <1>3. LightInv /\ [Next]_vars =>
          [running /\ Leave =>
            /\ dimmed /\ obeyed' => light' > 0 /\ (brightness > 0 => light' = brightness)
            /\ ~dimmed /\ available => light' = light]_vars
    BY <1>1, <1>2
  <1>4. QED
    BY <1>3, LightInvAlways, PTL DEF Spec, ExitLeavesLight

(***************************************************************************)
(* The light of a setting of 0, which dim_frontlight does not take for     *)
(* one: it may have become the fallback, and nothing else.                 *)
(***************************************************************************)
LitOrFallback == light = brightness \/ (brightness = 0 /\ light = Fallback)

ZeroInv ==
    running /\ intact =>
        /\ ~dimmed => LitOrFallback
        /\ dimmed /\ brightness = 0 => saved = Fallback

(***************************************************************************)
(* The one exception to AwakeAsConfigured: while the device is awake and   *)
(* the file obeys, a light that is not the one set is the fallback, in     *)
(* place of darkness that was asked for; after any dims, wakes, launches   *)
(* and changes of the setting.                                             *)
(***************************************************************************)
AwakeAsSetOrFallback == running /\ ~dimmed /\ intact => LitOrFallback

LEMMA ZeroStep ==
  ASSUME LightInv, ZeroInv, [Next]_vars
  PROVE  ZeroInv'
  <1>1. CASE Launch
    BY <1>1 DEF Launch, ApplyBrightness, ZeroInv, LitOrFallback
  <1>2. CASE Leave \/ Crash
    BY <1>2 DEF Leave, Crash, ZeroInv
  <1>3. CASE Dim
    <2>1. PICK reported \in BOOLEAN : Write(0, reported) /\ dimmed' = reported /\ available' = reported
      BY <1>3 DEF Dim
    <2>2. intact' => dimmed' /\ intact
      BY <2>1, WriteLeaves, LevelsAssumption DEF LightInv, TypeOK
    <2>3. running /\ ~dimmed /\ saved' = RestoreLevel /\ brightness' = brightness /\ running' = running
      BY <1>3 DEF Dim, DimDue, settings
    <2>4. intact /\ brightness = 0 => RestoreLevel = Fallback
      BY <2>3, LevelsAssumption DEF RestoreLevel, ZeroInv, LitOrFallback, LightInv, TypeOK
    <2>5. QED
      BY <2>2, <2>3, <2>4 DEF ZeroInv
  <1>4. CASE Wake
    <2>1. running /\ dimmed /\ dimmed' = FALSE /\ brightness' = brightness /\ running' = running
      BY <1>4 DEF Wake, settings
    <2>2. intact' => intact /\ light' = IF saved = Unset THEN light ELSE saved
      BY <1>4, RestoreLeaves DEF Wake, LightInv, TypeOK
    <2>3. saved > 0 /\ (brightness > 0 => saved = brightness) /\ brightness \in Levels
      BY <2>1 DEF LightInv, DimmedRemembers, TypeOK
    <2>4. intact' => light' = saved /\ (brightness = 0 => saved = Fallback)
      BY <2>1, <2>2, <2>3, LevelsAssumption DEF ZeroInv
    <2>5. QED
      BY <2>1, <2>3, <2>4, LevelsAssumption DEF ZeroInv, LitOrFallback
  <1>5. CASE \E b \in Levels : TapSlider(b)
    <2>1. PICK b \in Levels, reported \in BOOLEAN : Handle /\ brightness' = b /\ Write(b, reported)
      BY <1>5 DEF TapSlider, Tap
    <2>2. intact' => light' = b
      BY <2>1, WriteLeaves DEF LightInv, TypeOK
    <2>3. QED
      BY <2>1, <2>2 DEF Handle, dimming, ZeroInv, LitOrFallback
  <1>6. CASE SystemSetsLight
    BY <1>6 DEF SystemSetsLight, ZeroInv
  <1>7. CASE DimCannotRead
    BY <1>7 DEF DimCannotRead, ZeroInv
  <1>8. CASE UNCHANGED <<running, light, brightness, saved, dimmed, intact>>
    BY <1>8 DEF ZeroInv, LitOrFallback
  <1>9. QED
    BY <1>1, <1>2, <1>3, <1>4, <1>5, <1>6, <1>7, <1>8
       DEF file, Next, Stop, PowerKey, TapExit, TimePasses, Input, PassOver, SwallowRelease, TapElsewhere,
           TapSetting, Tap, Handle, settings, dimming, vars

(***************************************************************************)
(* Dimming and waking overrule no setting but 0, and that by the fallback  *)
(* only.                                                                   *)
(***************************************************************************)
THEOREM OnlyDarknessIsOverruled == Spec => []AwakeAsSetOrFallback
  <1>1. Init => ZeroInv
    BY DEF Init, ZeroInv
  <1>2. LightInv /\ ZeroInv /\ [Next]_vars => ZeroInv'
    BY ZeroStep
  <1>3. ZeroInv => AwakeAsSetOrFallback
    BY DEF ZeroInv, AwakeAsSetOrFallback
  <1>4. QED
    BY <1>1, <1>2, <1>3, LightInvAlways, PTL DEF Spec

-----------------------------------------------------------------------------
(***************************************************************************)
(* The contacts that are on the panel, as far as the main loop was told:   *)
(* those that are open and the one it is being told of.  A panel may have  *)
(* any number of contacts; what counts is that fingers touch it in turn.   *)
(***************************************************************************)
Touched == open \cup ({event.slot} \ {Unset})

OneAtATime == \A c, d \in Touched : c = d

(***************************************************************************)
(* The flag stands for the touch that woke the device, which is still on   *)
(* the panel, and goes with it.                                            *)
(***************************************************************************)
WakeInv ==
    /\ IF ignore THEN waker \in Touched ELSE waker = Unset
    /\ event.type \in {"touch_down", "touch_move"} => event.slot \in open

LEMMA EventCases ==
  ASSUME TypeOK
  PROVE  /\ event.type = "touch_up" => event = Stream!Touch("touch_up", event.slot) /\ event.slot \in Touched
         /\ event.type \notin {"touch_up", "touch_down", "touch_move"} => event.slot = Unset
         /\ Unset \notin Contacts /\ Touched \subseteq Contacts
         /\ ignore \in BOOLEAN
  <1>1. Unset \notin Contacts /\ open \subseteq Contacts /\ ignore \in BOOLEAN
    BY ContactsAssumption DEF TypeOK, Stream!StreamTypeOK
  <1>2. CASE event = Stream!NoEvent \/ event = Stream!KeyPress
    <2>1. event.type \in {"none", "key_press"} /\ event.slot = Unset
      BY <1>2 DEF Stream!NoEvent, Stream!KeyPress
    <2>2. Touched = open
      BY <2>1 DEF Touched
    <2>3. QED
      BY <1>1, <2>1, <2>2
  <1>3. CASE event \in [type : {"touch_down", "touch_move", "touch_up"}, slot : Contacts]
    <2>1. event = [type |-> event.type, slot |-> event.slot] /\ event.slot \in Contacts
      BY <1>3
    <2>2. event.type \in {"touch_up", "touch_down", "touch_move"}
      BY <1>3
    <2>3. event.slot \in Touched /\ Touched \subseteq Contacts
      BY <1>1, <2>1 DEF Touched
    <2>4. event.type = "touch_up" => event = Stream!Touch("touch_up", event.slot)
      BY <2>1 DEF Stream!Touch
    <2>5. QED
      BY <1>1, <2>2, <2>3, <2>4
  <1>4. QED
    BY <1>2, <1>3 DEF TypeOK, Stream!StreamTypeOK, Stream!Events

(***************************************************************************)
(* The panel reports a touch: what touched it still does.                  *)
(***************************************************************************)
LEMMA WakeInvInput ==
  ASSUME WakeInv, TypeOK, Input
  PROVE  WakeInv'
  <1>1. event = Stream!NoEvent /\ Touched = open /\ UNCHANGED <<ignore, waker>>
    BY DEF Input, Stream!Key, Stream!Down, Stream!Move, Stream!Up, Stream!NoEvent, Touched, waking
  <1>2. CASE Stream!Key
    BY <1>1, <1>2 DEF Stream!Key, Stream!KeyPress, WakeInv, Touched
  <1>3. ASSUME NEW c \in Contacts, Stream!Down(c) \/ Stream!Move(c) \/ Stream!Up(c)
        PROVE  WakeInv'
    <2>1. event'.slot = c /\ c # Unset
      BY <1>3, ContactsAssumption DEF Stream!Down, Stream!Move, Stream!Up, Stream!Touch
    <2>2. open \subseteq open' \cup {c}
      BY <1>3 DEF Stream!Down, Stream!Move, Stream!Up
    <2>3. Touched \subseteq Touched'
      BY <1>1, <2>1, <2>2 DEF Touched
    <2>4. event'.type \in {"touch_down", "touch_move"} => c \in open'
      BY <1>3 DEF Stream!Down, Stream!Move, Stream!Up, Stream!Touch
    <2>5. QED
      BY <1>1, <2>1, <2>3, <2>4 DEF WakeInv
  <1>4. QED
    BY <1>2, <1>3 DEF Input

(***************************************************************************)
(* Every step keeps it, as long as fingers take turns, and then the two    *)
(* releases are told apart.                                                *)
(***************************************************************************)
LEMMA WakeInvStep ==
  ASSUME WakeInv, TypeOK, OneAtATime, [Next]_vars
  PROVE  /\ WakeInv'
         /\ SwallowRelease => event.slot = waker
         /\ Tap => event.slot # waker
  <1>1. SwallowRelease => event.slot = waker
    BY EventCases DEF SwallowRelease, WakeInv, OneAtATime
  <1>2. Tap => event.slot # waker
    BY EventCases DEF Tap, WakeInv, Touched
  <1>3. ASSUME Handle PROVE event' = Stream!NoEvent /\ Touched' = open /\ open' = open
    BY <1>3 DEF Handle, Stream!Handled, Stream!NoEvent, Touched
  <1>4. ASSUME Launch PROVE WakeInv'
    BY <1>4 DEF Launch, WakeInv, Stream!NoEvent
  <1>5. ASSUME Wake PROVE WakeInv'
    <2>1. event' = Stream!NoEvent /\ open' = open /\ Touched' = open
      BY <1>5 DEF Wake, Stream!Handled, Stream!NoEvent, Touched
    <2>2. QED
      BY <1>5, <2>1 DEF Wake, Wakes, WakeInv, Stream!NoEvent
  <1>6. ASSUME PassOver PROVE WakeInv'
    <2>1. waker' = waker /\ ignore' = ignore
      BY <1>6 DEF PassOver, Handle, Stream!Touch
    <2>2. ignore => waker \in open
      BY <1>6, EventCases DEF PassOver, WakeInv, Touched
    <2>3. QED
      BY <1>3, <1>6, <2>1, <2>2, EventCases DEF PassOver, WakeInv, Stream!NoEvent
  <1>7. ASSUME SwallowRelease PROVE WakeInv'
    <2>1. event = Stream!Touch("touch_up", waker)
      BY <1>1, <1>7, EventCases DEF SwallowRelease
    <2>2. waker' = Unset /\ ignore' = FALSE
      BY <1>7, <2>1 DEF SwallowRelease, Handle
    <2>3. QED
      BY <1>3, <1>7, <2>2 DEF SwallowRelease, WakeInv, Stream!NoEvent
  <1>8. ASSUME Tap PROVE WakeInv'
    <2>1. waker = Unset /\ ignore = FALSE
      BY <1>8, EventCases DEF Tap, WakeInv
    <2>2. waker' = Unset /\ ignore' = FALSE
      BY <1>8, <2>1 DEF Tap, Handle
    <2>3. QED
      BY <1>3, <1>8, <2>2 DEF Tap, WakeInv, Stream!NoEvent
  <1>9. ASSUME Input PROVE WakeInv'
    BY <1>9, WakeInvInput
  <1>10. ASSUME UNCHANGED <<stream, waking>> PROVE WakeInv'
    BY <1>10 DEF stream, waking, WakeInv, Touched
  <1>11. QED
    <2>1. Launch \/ Wake \/ PassOver \/ SwallowRelease \/ Tap \/ Input \/ UNCHANGED <<stream, waking>>
      BY DEF Next, vars, SystemSetsLight, Stop, PowerKey, TapExit, Leave, Crash, TimePasses, Dim, DimCannotRead,
         TapElsewhere, TapSetting, TapSlider
    <2>2. QED
      BY <1>1, <1>2, <1>4, <1>5, <1>6, <1>7, <1>8, <1>9, <1>10, <2>1

(***************************************************************************)
(* On any panel, as long as fingers touch it one at a time, a release is   *)
(* swallowed just when its own touch woke the device.                      *)
(***************************************************************************)
THEOREM WakeTapIsSwallowed == Spec /\ []OneAtATime => SwallowsWakeTapOnly
  <1>1. Init => WakeInv
    BY DEF Init, WakeInv, Stream!Init, Stream!NoEvent
  <1>2. WakeInv /\ TypeOK /\ OneAtATime /\ [Next]_vars => WakeInv'
    BY WakeInvStep
  <1>3. WakeInv /\ TypeOK /\ OneAtATime /\ [Next]_vars =>
          [/\ SwallowRelease => event.slot = waker
           /\ Tap => event.slot # waker]_vars
    BY WakeInvStep
  <1>4. QED
    BY <1>1, <1>2, <1>3, TypeCorrect, PTL DEF Spec, SwallowsWakeTapOnly
=============================================================================
