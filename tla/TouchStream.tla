------------------------------ MODULE TouchStream ------------------------------
(***************************************************************************)
(* What skeets_input_poll (src/src/platform/input.cpp) promises the main   *)
(* loop, whatever the panel's driver reports: one event at a time, moves   *)
(* and releases only of contacts that were reported down, and no contact   *)
(* released twice.  A contact may be reported down again while it is down: *)
(* panels that repeat the tracking id in every frame do that.  The main    *)
(* loop of src/src/kobo/main.cpp acts on releases only, and a release of   *)
(* a contact nobody put down would be a tap nobody made.                   *)
(***************************************************************************)
EXTENDS Integers

CONSTANT Contacts   \* the indexes of skeets_input_t.contacts

VARIABLES
    open,    \* contacts with a delivered touch_down and no touch_up since
    event    \* the event the main loop is handling

streamVars == <<open, event>>

NoEvent == [type |-> "none", slot |-> -1]
KeyPress == [type |-> "key_press", slot |-> -1]
Touch(type, contact) == [type |-> type, slot |-> contact]

Events ==
    {NoEvent, KeyPress}
        \cup [type : {"touch_down", "touch_move", "touch_up"}, slot : Contacts]

StreamTypeOK == open \subseteq Contacts /\ event \in Events

Init == open = {} /\ event = NoEvent

Down(c) ==
    /\ event = NoEvent
    /\ event' = Touch("touch_down", c)
    /\ open' = open \cup {c}

Move(c) ==
    /\ event = NoEvent
    /\ c \in open
    /\ event' = Touch("touch_move", c)
    /\ UNCHANGED open

Up(c) ==
    /\ event = NoEvent
    /\ c \in open
    /\ event' = Touch("touch_up", c)
    /\ open' = open \ {c}

Key ==
    /\ event = NoEvent
    /\ event' = KeyPress
    /\ UNCHANGED open

\* The handler of the event returned to the loop, which polls again.
Handled ==
    /\ event # NoEvent
    /\ event' = NoEvent
    /\ UNCHANGED open

Next ==
    \/ Handled
    \/ Key
    \/ \E c \in Contacts : Down(c) \/ Move(c) \/ Up(c)

Spec == Init /\ [][Next]_streamVars
=============================================================================
