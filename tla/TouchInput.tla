------------------------------ MODULE TouchInput -------------------------------
(***************************************************************************)
(* The touch decoder of src/src/platform/input.cpp: raw kernel events are  *)
(* collected into contacts and handed to the main loop one at a time.      *)
(*                                                                         *)
(* The panel is the environment.  "slots" panels speak the kernel's        *)
(* multitouch protocol: a slot is named only when it differs from the one  *)
(* named last, a finger is a tracking id, and -1 lifts it.  "snow" panels  *)
(* repeat every finger's tracking id (its index) in each frame and report  *)
(* a lift only when no finger is left, as BTN_TOUCH 0.  The protocol is    *)
(* configured by the launcher through the environment, and a panel of      *)
(* slots may be configured as snow: the decoder switches over at the first *)
(* id of -1.                                                               *)
(*                                                                         *)
(* Frames are read whole, since the kernel wakes the reader at their end.  *)
(* A frame is kept as what is left of it: each Read action is the kernel's *)
(* next event and its handler in one, and what the reader was told so far  *)
(* (reported, touching, kernel_slot) decides which event is next.  Frames  *)
(* lost to a full kernel buffer change the fingers and leave no trace,     *)
(* because SYN_DROPPED is not handled.  Coordinates are left out: a        *)
(* position only marks its contact dirty.                                  *)
(***************************************************************************)
EXTENDS Integers, FiniteSets

CONSTANTS
    Contacts,   \* indexes of contacts, and the tracking ids the panel draws from
    Slots       \* the panel's slots, or the indexes of fingers on snow panels

ASSUME SlotsAssumption ==
    /\ Slots \subseteq Contacts /\ Contacts \subseteq Nat
    /\ 0 \in Slots
    /\ IsFiniteSet(Slots)

VARIABLES
    panel,               \* what the hardware speaks
    fingers,             \* the tracking id in each slot, or -1
    history,             \* what happened to the panel: "dropped", "crowded"
    reading,             \* a frame is being read
    unread,              \* the slots whose report in it is still to be read
    reported,            \* the tracking id in each slot, as reported so far
    touching,            \* BTN_TOUCH, as reported so far
    kernel_slot,         \* the slot the kernel named last
    protocol,
    contacts,
    current_slot,
    pending_snow_lift,
    open, event          \* what the main loop saw, as in TouchStream

panelVars == <<panel, fingers, history>>
frameVars == <<reading, unread, reported, touching, kernel_slot>>
decoderVars == <<protocol, contacts, current_slot, pending_snow_lift>>
vars == <<panelVars, frameVars, decoderVars, open, event>>

Stream == INSTANCE TouchStream

Protocols == {"standard_multitouch", "snow"}
Panels == {[speaks |-> "slots", configured |-> "standard_multitouch"],
           [speaks |-> "slots", configured |-> "snow"],
           [speaks |-> "snow", configured |-> "snow"]}

Contact == [active : BOOLEAN, dirty : BOOLEAN, pending_down : BOOLEAN, pending_up : BOOLEAN]
NoContact == [active |-> FALSE, dirty |-> FALSE, pending_down |-> FALSE, pending_up |-> FALSE]

Ids == Contacts \cup {-1}
NoFingers == [s \in Slots |-> -1]

Init ==
    /\ panel \in Panels
    /\ fingers = NoFingers
    /\ history = {}
    /\ reading = FALSE
    /\ unread = {}
    /\ reported = NoFingers
    /\ touching = FALSE
    /\ kernel_slot = 0
    /\ protocol = panel.configured
    /\ contacts = [c \in Contacts |-> NoContact]
    /\ current_slot = 0
    /\ pending_snow_lift = FALSE
    /\ Stream!Init

-----------------------------------------------------------------------------
(* The panel. *)

Down(f) == {s \in Slots : f[s] # -1}

\* What fingers may become: each lifts, stays, or comes down with an id of
\* its own; on snow panels the id is the finger's index.
NewFingers ==
    {f \in [Slots -> Ids] :
        /\ \A s \in Down(fingers) \cap Down(f) : f[s] = fingers[s]
        /\ \A s \in Down(f), t \in Down(f) \cup Down(fingers) : s # t => f[s] # fingers[t] /\ f[s] # f[t]
        /\ panel.speaks = "snow" => \A s \in Down(f) : f[s] = s}

\* Two fingers were down together, or one took over from another within a frame.
Remember(f) ==
    history' = history \cup (IF Cardinality(Down(f) \cup Down(fingers)) > 1 THEN {"crowded"} ELSE {})

HasEvent(c) ==
    contacts[c].pending_up \/ contacts[c].pending_down \/ (contacts[c].active /\ contacts[c].dirty)

\* Nothing is left to read or to deliver.
Settled == ~reading /\ \A c \in Contacts : ~HasEvent(c)

\* Reported are the slots whose finger came, went or moved.
SlotsFrame ==
    /\ panel.speaks = "slots"
    /\ Settled
    /\ \E f \in NewFingers, moved \in SUBSET Slots :
        /\ moved \subseteq Down(f) \cap Down(fingers)
        /\ unread' = moved \cup {s \in Slots : f[s] # fingers[s]}
        /\ unread' # {}
        /\ fingers' = f
        /\ Remember(f)
    /\ reading' = TRUE
    /\ UNCHANGED <<panel, reported, touching, kernel_slot, decoderVars, open, event>>

\* Reported is every finger, as if it had just come down.
SnowFrame ==
    /\ panel.speaks = "snow"
    /\ Settled
    /\ \E f \in NewFingers :
        /\ Down(f) \cup Down(fingers) # {}
        /\ unread' = Down(f)
        /\ fingers' = f
        /\ Remember(f)
    /\ reported' = NoFingers
    /\ reading' = TRUE
    /\ UNCHANGED <<panel, touching, kernel_slot, decoderVars, open, event>>

\* The kernel's buffer overflowed, or the fingers moved before the device was
\* opened: any number of frames were never read.
LoseFrames ==
    /\ Settled
    /\ fingers' \in [Slots -> Ids]
    /\ \A s, t \in Down(fingers)' :
        /\ s # t => fingers'[s] # fingers'[t]
        /\ panel.speaks = "snow" => fingers'[s] = s
    /\ reported' = fingers'
    /\ touching' = (Down(fingers)' # {})
    /\ kernel_slot' \in IF panel.speaks = "slots" THEN Slots ELSE {kernel_slot}
    /\ \/ history' = history \cup {"dropped", "crowded"}
       \/ history' = history \cup {"dropped"} /\ Cardinality(Down(fingers)') <= 1
    /\ UNCHANGED <<panel, reading, unread, decoderVars, open, event>>

-----------------------------------------------------------------------------
(* skeets_input_poll reads the frame, event by event. *)

Read == reading /\ event = Stream!NoEvent /\ UNCHANGED <<panelVars, open, event>>

\* Slots are reported in order, and named unless they were named last.
ReadOf(s) == Read /\ s \in unread /\ \A t \in unread : s <= t
Named(s) == panel.speaks = "slots" => s = kernel_slot

\* The new tracking id of s is reported; a lift is all there is to report.
ReportId(s) ==
    /\ ReadOf(s) /\ Named(s)
    /\ reported[s] # fingers[s]
    /\ reported' = [reported EXCEPT ![s] = fingers[s]]
    /\ unread' = IF fingers[s] = -1 THEN unread \ {s} ELSE unread
    /\ UNCHANGED <<reading, touching, kernel_slot>>

(* Mutant of Lift: the contact is not asked whether it is active. *)
LiftUnasked(c) == contacts' = [contacts EXCEPT ![c].pending_up = TRUE]

\* A lift is only reported for a contact that is active.
Lift(c) == contacts' = [contacts EXCEPT ![c].pending_up = @ \/ contacts[c].active]

PutDown(c) == contacts' = [contacts EXCEPT ![c].active = TRUE, ![c].pending_down = TRUE]

ReadSlot(s) ==
    /\ ReadOf(s) /\ ~Named(s)
    /\ kernel_slot' = s
    /\ current_slot' = s
    /\ UNCHANGED <<reading, unread, reported, touching, protocol, contacts, pending_snow_lift>>

(* Mutant of ReadLift: -1 is taken for the id of a contact as well. *)
LiftFallsThrough(s) ==
    /\ ReportId(s)
    /\ fingers[s] = -1
    /\ protocol' = "standard_multitouch"
    /\ Lift(current_slot)
    /\ current_slot' = fingers[s]
    /\ UNCHANGED pending_snow_lift

\* An id of -1 lifts the contact of the current slot, and shows that a panel
\* configured as snow speaks slots.
ReadLift(s) ==
    /\ ReportId(s)
    /\ fingers[s] = -1
    /\ protocol' = "standard_multitouch"
    /\ Lift(current_slot)
    /\ UNCHANGED <<current_slot, pending_snow_lift>>

\* In the snow protocol the id is the contact, otherwise the slot is.
ReadId(s) ==
    /\ ReportId(s)
    /\ fingers[s] # -1
    /\ current_slot' = IF protocol = "snow" THEN fingers[s] ELSE current_slot
    /\ PutDown(current_slot')
    /\ UNCHANGED <<protocol, pending_snow_lift>>

ReadPosition(s) ==
    /\ ReadOf(s) /\ Named(s)
    /\ reported[s] = fingers[s]
    /\ unread' = unread \ {s}
    /\ contacts' = [contacts EXCEPT ![current_slot].dirty = @ \/ ~contacts[current_slot].pending_down]
    /\ UNCHANGED <<reading, reported, touching, kernel_slot, protocol, current_slot, pending_snow_lift>>

\* BTN_TOUCH says when the first finger comes down and the last one lifts.
ReadTouchKey ==
    /\ Read
    /\ unread = {}
    /\ touching # (Down(fingers) # {})
    /\ touching' = ~touching
    /\ pending_snow_lift' = (pending_snow_lift \/ (~touching' /\ protocol = "snow"))
    /\ UNCHANGED <<reading, unread, reported, kernel_slot, protocol, contacts, current_slot>>

ReadSynReport ==
    /\ Read
    /\ unread = {}
    /\ touching = (Down(fingers) # {})
    /\ reading' = FALSE
    /\ UNCHANGED <<unread, reported, touching, kernel_slot>>

(* Mutant of ReadSyn: BTN_TOUCH 0 is not turned into lifts. *)
ReadSynWithoutLift ==
    /\ ReadSynReport
    /\ pending_snow_lift' = FALSE
    /\ UNCHANGED <<protocol, contacts, current_slot>>

\* finalize_snow_frame lifts whatever is active.
ReadSyn ==
    /\ ReadSynReport
    /\ contacts' = [c \in Contacts |->
           [contacts[c] EXCEPT !.pending_up = @ \/ (pending_snow_lift /\ contacts[c].active)]]
    /\ pending_snow_lift' = FALSE
    /\ UNCHANGED <<protocol, current_slot>>

ReadFrame ==
    \/ \E s \in Slots : ReadSlot(s) \/ ReadLift(s) \/ ReadId(s) \/ ReadPosition(s)
    \/ ReadTouchKey
    \/ ReadSyn

-----------------------------------------------------------------------------
(* flush_contact_events hands over one event of the lowest contact that has one. *)

EnqueueUp(c) ==
    /\ contacts[c].pending_up
    /\ event' = Stream!Touch("touch_up", c)
    /\ open' = open \ {c}
    /\ contacts' = [contacts EXCEPT ![c].pending_up = FALSE, ![c].active = FALSE, ![c].dirty = FALSE]

EnqueueDown(c) ==
    /\ contacts[c].pending_down
    /\ ~contacts[c].pending_up
    /\ event' = Stream!Touch("touch_down", c)
    /\ open' = open \cup {c}
    /\ contacts' = [contacts EXCEPT ![c].pending_down = FALSE, ![c].dirty = FALSE]

EnqueueMove(c) ==
    /\ contacts[c].active /\ contacts[c].dirty
    /\ ~contacts[c].pending_up /\ ~contacts[c].pending_down
    /\ event' = Stream!Touch("touch_move", c)
    /\ contacts' = [contacts EXCEPT ![c].dirty = FALSE]
    /\ UNCHANGED open

EnqueueContactEvent(c) == EnqueueUp(c) \/ EnqueueDown(c) \/ EnqueueMove(c)

FlushContactEvents ==
    /\ event = Stream!NoEvent
    /\ ~reading
    /\ \E c \in Contacts :
        /\ \A lower \in Contacts : lower < c => ~HasEvent(lower)
        /\ EnqueueContactEvent(c)
    /\ UNCHANGED <<panelVars, frameVars, protocol, current_slot, pending_snow_lift>>

\* A key of any device is handed over as it is read, once nothing of a contact is pending.
PressKey ==
    /\ Settled
    /\ Stream!Key
    /\ UNCHANGED <<panelVars, frameVars, decoderVars>>

HandleEvent ==
    /\ Stream!Handled
    /\ UNCHANGED <<panelVars, frameVars, decoderVars>>

-----------------------------------------------------------------------------
Next ==
    \/ SlotsFrame \/ SnowFrame \/ LoseFrames
    \/ ReadFrame
    \/ FlushContactEvents
    \/ PressKey
    \/ HandleEvent

Spec == Init /\ [][Next]_vars
-----------------------------------------------------------------------------
(***************************************************************************)
(* Every variable keeps to its domain; the decoder's current slot always   *)
(* indexes a contact, and no report and no snow lift is left over for the  *)
(* next frame.                                                             *)
(***************************************************************************)
TypeOK ==
    /\ panel \in Panels
    /\ fingers \in [Slots -> Ids]
    /\ history \subseteq {"dropped", "crowded"}
    /\ reading \in BOOLEAN
    /\ unread \subseteq Slots
    /\ reported \in [Slots -> Ids]
    /\ touching \in BOOLEAN
    /\ kernel_slot \in Slots
    /\ protocol \in Protocols
    /\ contacts \in [Contacts -> Contact]
    /\ current_slot \in Contacts
    /\ pending_snow_lift \in BOOLEAN
    /\ ~reading => ~pending_snow_lift /\ unread = {}
    /\ Stream!StreamTypeOK

(***************************************************************************)
(* The decoder implements the abstract stream: the main loop is never      *)
(* handed a release or a move of a contact that is not down.  On a snow    *)
(* panel it does so whatever happens; on a panel of slots for any number   *)
(* of fingers as long as every frame is read and the panel is configured   *)
(* as what it is, and in any case as long as fingers come one at a time.   *)
(* (Otherwise two fingers can share a contact: the slot last named was     *)
(* lost, or an id of one is the slot of the other.  Then one frame can put *)
(* the contact down and lift it, lift first.)                              *)
(***************************************************************************)
Misled ==
    /\ panel.speaks = "slots" /\ "crowded" \in history
    /\ "dropped" \in history \/ panel.configured = "snow"

EmitsStream == Stream!Init /\ [][Stream!Next \/ Misled]_<<open, event>>

(***************************************************************************)
(* When no frame was lost and everything read has been handed over, the    *)
(* main loop knows the fingers on the panel: exactly the touched slots of  *)
(* a panel configured as what it is; on a snow panel every finger, and     *)
(* none once all have lifted; and on a panel of slots configured as snow   *)
(* as many contacts as fingers, so long as no two fingers were ever down   *)
(* together (then a contact is an id for one and a slot for the other, and *)
(* releases get lost).                                                     *)
(***************************************************************************)
FingersAreKnown ==
    Settled /\ "dropped" \notin history =>
        CASE panel.speaks = "snow" -> Down(fingers) \subseteq open /\ (Down(fingers) = {} => open = {})
          [] panel.configured = "standard_multitouch" -> open = Down(fingers)
          [] OTHER -> "crowded" \notin history => Cardinality(open) = Cardinality(Down(fingers))

=============================================================================
