---------------------------- MODULE TouchInput_proofs ----------------------------
(***************************************************************************)
(* Proofs about TouchInput, for any number of slots and tracking ids, every*)
(* panel, and frames that are lost at any time.                            *)
(***************************************************************************)
EXTENDS TouchInput, TouchMap, FiniteSetTheorems, TLAPS

(* The fields of a contact, as predicates. *)
Active(c) == contacts[c].active
Landing(c) == contacts[c].pending_down
Lifting(c) == contacts[c].pending_up

Pending(c) == Landing(c) \/ Lifting(c)

SameContact(c) ==
    /\ Active(c)' <=> Active(c)
    /\ Landing(c)' <=> Landing(c)
    /\ Lifting(c)' <=> Lifting(c)

SameContacts == \A c \in Contacts : SameContact(c)

(* The finger of s is not what the reader was told. *)
Due(s) == reported[s] # fingers[s]

AtMostOne(S) == \A x, y \in S : x = y

(* Each step of Next by name: what a case proof splits on. *)
LEMMA StepCases ==
    ASSUME [Next]_vars
    PROVE  \/ SlotsFrame \/ SnowFrame \/ LoseFrames
           \/ \E s \in Slots : ReadSlot(s) \/ ReadPosition(s)
           \/ \E s \in Slots : ReadLift(s)
           \/ \E s \in Slots : ReadId(s)
           \/ ReadTouchKey \/ ReadSyn \/ FlushContactEvents
           \/ PressKey \/ HandleEvent \/ UNCHANGED vars
  BY DEF Next, ReadFrame

(***************************************************************************)
(* What the handlers do to the contacts                                    *)
(***************************************************************************)

LEMMA ContactFields ==
    ASSUME contacts \in [Contacts -> Contact], NEW c \in Contacts
    PROVE  /\ contacts[c] \in Contact
           /\ contacts[c].active \in BOOLEAN
           /\ contacts[c].dirty \in BOOLEAN
           /\ contacts[c].pending_down \in BOOLEAN
           /\ contacts[c].pending_up \in BOOLEAN
  BY DEF Contact

LEMMA LiftDoes ==
    ASSUME contacts \in [Contacts -> Contact], NEW c \in Contacts, Lift(c)
    PROVE  /\ contacts' \in [Contacts -> Contact]
           /\ \A d \in Contacts : d # c => SameContact(d)
           /\ Active(c)' <=> Active(c)
           /\ Landing(c)' <=> Landing(c)
           /\ Lifting(c)' <=> Lifting(c) \/ Active(c)
  <1>1. contacts' = [contacts EXCEPT ![c] = [contacts[c] EXCEPT !.pending_up = contacts[c].pending_up \/ contacts[c].active]]
    BY DEF Lift
  <1>2. contacts'[c] = [contacts[c] EXCEPT !.pending_up = contacts[c].pending_up \/ contacts[c].active]
    BY <1>1
  <1>3. contacts'[c] \in Contact
    BY <1>2, ContactFields DEF Contact
  <1>4. contacts' \in [Contacts -> Contact]
    BY <1>1, <1>2, <1>3
  <1>5. \A d \in Contacts : d # c => contacts'[d] = contacts[d]
    BY <1>1
  <1>6. /\ contacts'[c].active = contacts[c].active
        /\ contacts'[c].pending_down = contacts[c].pending_down
        /\ contacts'[c].pending_up = (contacts[c].pending_up \/ contacts[c].active)
    BY <1>2, ContactFields DEF Contact
  <1>7. QED
    BY <1>4, <1>5, <1>6 DEF Active, Landing, Lifting, SameContact

LEMMA PutDownDoes ==
    ASSUME contacts \in [Contacts -> Contact], NEW c \in Contacts, PutDown(c)
    PROVE  /\ contacts' \in [Contacts -> Contact]
           /\ \A d \in Contacts : d # c => SameContact(d)
           /\ Active(c)' /\ Landing(c)'
           /\ Lifting(c)' <=> Lifting(c)
  <1>1. contacts' = [contacts EXCEPT ![c] = [contacts[c] EXCEPT !.active = TRUE, !.pending_down = TRUE]]
    BY DEF PutDown
  <1>2. contacts'[c] = [contacts[c] EXCEPT !.active = TRUE, !.pending_down = TRUE]
    BY <1>1
  <1>3. contacts'[c] \in Contact
    BY <1>2, ContactFields DEF Contact
  <1>4. contacts' \in [Contacts -> Contact]
    BY <1>1, <1>2, <1>3
  <1>5. \A d \in Contacts : d # c => contacts'[d] = contacts[d]
    BY <1>1
  <1>6. /\ contacts'[c].active = TRUE
        /\ contacts'[c].pending_down = TRUE
        /\ contacts'[c].pending_up = contacts[c].pending_up
    BY <1>2, ContactFields DEF Contact
  <1>7. QED
    BY <1>4, <1>5, <1>6 DEF Active, Landing, Lifting, SameContact

LEMMA DirtyDoes ==
    ASSUME contacts \in [Contacts -> Contact], NEW c \in Contacts, NEW b \in BOOLEAN,
           contacts' = [contacts EXCEPT ![c].dirty = b]
    PROVE  contacts' \in [Contacts -> Contact] /\ SameContacts
  <1>1. contacts' = [contacts EXCEPT ![c] = [contacts[c] EXCEPT !.dirty = b]]
    OBVIOUS
  <1>2. contacts'[c] = [contacts[c] EXCEPT !.dirty = b]
    BY <1>1
  <1>3. contacts'[c] \in Contact
    BY <1>2, ContactFields DEF Contact
  <1>4. contacts' \in [Contacts -> Contact]
    BY <1>1, <1>2, <1>3
  <1>5. \A d \in Contacts : d # c => contacts'[d] = contacts[d]
    BY <1>1
  <1>6. /\ contacts'[c].active = contacts[c].active
        /\ contacts'[c].pending_down = contacts[c].pending_down
        /\ contacts'[c].pending_up = contacts[c].pending_up
    BY <1>2, ContactFields DEF Contact
  <1>7. QED
    BY <1>4, <1>5, <1>6 DEF Active, Landing, Lifting, SameContact, SameContacts

LEMMA PositionDoes ==
    ASSUME contacts \in [Contacts -> Contact], current_slot \in Contacts,
           NEW s, ReadPosition(s)
    PROVE  contacts' \in [Contacts -> Contact] /\ SameContacts
  <1>1. (contacts[current_slot].dirty \/ ~contacts[current_slot].pending_down) \in BOOLEAN
    OBVIOUS
  <1>2. contacts' = [contacts EXCEPT ![current_slot].dirty =
                        (contacts[current_slot].dirty \/ ~contacts[current_slot].pending_down)]
    BY DEF ReadPosition
  <1>3. QED
    BY <1>1, <1>2, DirtyDoes

LEMMA SynDoes ==
    ASSUME contacts \in [Contacts -> Contact], ReadSyn
    PROVE  /\ contacts' \in [Contacts -> Contact]
           /\ \A c \in Contacts :
                /\ Active(c)' <=> Active(c)
                /\ Landing(c)' <=> Landing(c)
                /\ Lifting(c)' <=> Lifting(c) \/ (pending_snow_lift /\ Active(c))
  <1> SUFFICES ASSUME NEW c \in Contacts
               PROVE  /\ contacts'[c] \in Contact
                      /\ contacts'[c].active = contacts[c].active
                      /\ contacts'[c].pending_down = contacts[c].pending_down
                      /\ contacts'[c].pending_up =
                            (contacts[c].pending_up \/ (pending_snow_lift /\ contacts[c].active))
    <2>1. contacts' = [c \in Contacts |->
             [contacts[c] EXCEPT !.pending_up = contacts[c].pending_up \/ (pending_snow_lift /\ contacts[c].active)]]
      BY DEF ReadSyn
    <2> QED BY <2>1 DEF Active, Landing, Lifting
  <1>1. contacts'[c] = [contacts[c] EXCEPT !.pending_up =
                            (contacts[c].pending_up \/ (pending_snow_lift /\ contacts[c].active))]
    BY DEF ReadSyn
  <1>2. QED
    BY <1>1, ContactFields DEF Contact

LEMMA UpDoes ==
    ASSUME contacts \in [Contacts -> Contact], NEW c \in Contacts, EnqueueUp(c)
    PROVE  /\ contacts' \in [Contacts -> Contact]
           /\ \A d \in Contacts : d # c => SameContact(d)
           /\ Lifting(c) /\ ~Lifting(c)' /\ ~Active(c)'
           /\ Landing(c)' <=> Landing(c)
  <1>1. contacts' = [contacts EXCEPT ![c] =
                        [contacts[c] EXCEPT !.pending_up = FALSE, !.active = FALSE, !.dirty = FALSE]]
    BY DEF EnqueueUp
  <1>2. contacts'[c] = [contacts[c] EXCEPT !.pending_up = FALSE, !.active = FALSE, !.dirty = FALSE]
    BY <1>1
  <1>3. contacts'[c] \in Contact
    BY <1>2, ContactFields DEF Contact
  <1>4. contacts' \in [Contacts -> Contact]
    BY <1>1, <1>2, <1>3
  <1>5. \A d \in Contacts : d # c => contacts'[d] = contacts[d]
    BY <1>1
  <1>6. /\ contacts'[c].active = FALSE
        /\ contacts'[c].pending_down = contacts[c].pending_down
        /\ contacts'[c].pending_up = FALSE
    BY <1>2, ContactFields DEF Contact
  <1>7. QED
    BY <1>4, <1>5, <1>6 DEF Active, Landing, Lifting, SameContact, EnqueueUp

LEMMA DownDoes ==
    ASSUME contacts \in [Contacts -> Contact], NEW c \in Contacts, EnqueueDown(c)
    PROVE  /\ contacts' \in [Contacts -> Contact]
           /\ \A d \in Contacts : d # c => SameContact(d)
           /\ Active(c)' <=> Active(c)
           /\ Landing(c) /\ ~Landing(c)'
           /\ ~Lifting(c) /\ ~Lifting(c)'
  <1>1. contacts' = [contacts EXCEPT ![c] = [contacts[c] EXCEPT !.pending_down = FALSE, !.dirty = FALSE]]
    BY DEF EnqueueDown
  <1>2. contacts'[c] = [contacts[c] EXCEPT !.pending_down = FALSE, !.dirty = FALSE]
    BY <1>1
  <1>3. contacts'[c] \in Contact
    BY <1>2, ContactFields DEF Contact
  <1>4. contacts' \in [Contacts -> Contact]
    BY <1>1, <1>2, <1>3
  <1>5. \A d \in Contacts : d # c => contacts'[d] = contacts[d]
    BY <1>1
  <1>6. /\ contacts'[c].active = contacts[c].active
        /\ contacts'[c].pending_down = FALSE
        /\ contacts'[c].pending_up = contacts[c].pending_up
    BY <1>2, ContactFields DEF Contact
  <1>7. QED
    BY <1>4, <1>5, <1>6 DEF Active, Landing, Lifting, SameContact, EnqueueDown

LEMMA MoveDoes ==
    ASSUME contacts \in [Contacts -> Contact], NEW c \in Contacts, EnqueueMove(c)
    PROVE  contacts' \in [Contacts -> Contact] /\ SameContacts
  <1>1. contacts' = [contacts EXCEPT ![c].dirty = FALSE]
    BY DEF EnqueueMove
  <1>2. QED
    BY <1>1, DirtyDoes

(***************************************************************************)
(* Type correctness                                                        *)
(***************************************************************************)

LEMMA SlotFacts ==
    /\ \A s \in Slots : s \in Contacts /\ s \in Int
    /\ \A c \in Contacts : c # -1 /\ c \in Int
    /\ NoFingers \in [Slots -> Ids]
  BY SlotsAssumption DEF NoFingers, Ids

LEMMA InitTyped == Init => TypeOK
  <1> SUFFICES ASSUME Init
               PROVE  TypeOK
    OBVIOUS
  <1>1. contacts \in [Contacts -> Contact]
    BY DEF Init, NoContact, Contact
  <1>2. fingers \in [Slots -> Ids] /\ reported \in [Slots -> Ids]
    BY SlotFacts DEF Init
  <1>3. panel \in Panels /\ protocol \in Protocols
    BY DEF Init, Panels, Protocols
  <1>4. Stream!StreamTypeOK
    BY DEF Init, Stream!Init, Stream!StreamTypeOK, Stream!Events
  <1>5. kernel_slot \in Slots /\ current_slot \in Contacts
    BY SlotsAssumption DEF Init
  <1>6. QED
    BY <1>1, <1>2, <1>3, <1>4, <1>5 DEF Init, TypeOK

(* What a step of the decoder or of the panel leaves alone. *)
LEMMA StreamUnchanged ==
    ASSUME TypeOK, UNCHANGED <<open, event>>
    PROVE  Stream!StreamTypeOK'
  BY DEF TypeOK, Stream!StreamTypeOK

LEMMA ReportTyped ==
    ASSUME TypeOK, NEW s \in Slots, ReportId(s)
    PROVE  /\ reported' \in [Slots -> Ids]
           /\ unread' \subseteq Slots
           /\ reading /\ reading'
           /\ UNCHANGED <<panel, fingers, history, touching, kernel_slot, open, event>>
  <1>1. fingers[s] \in Ids
    BY DEF TypeOK
  <1>2. QED
    BY <1>1 DEF TypeOK, ReportId, ReadOf, Read, panelVars

LEMMA FlushCases ==
    ASSUME FlushContactEvents
    PROVE  /\ ~reading
           /\ event = Stream!NoEvent
           /\ UNCHANGED <<panelVars, frameVars, protocol, current_slot, pending_snow_lift>>
           /\ \E c \in Contacts : EnqueueUp(c) \/ EnqueueDown(c) \/ EnqueueMove(c)
  BY DEF FlushContactEvents, EnqueueContactEvent

LEMMA FlushTyped ==
    ASSUME TypeOK, FlushContactEvents
    PROVE  contacts' \in [Contacts -> Contact] /\ Stream!StreamTypeOK'
  <1>1. PICK c \in Contacts : EnqueueUp(c) \/ EnqueueDown(c) \/ EnqueueMove(c)
    BY FlushCases
  <1>2. contacts' \in [Contacts -> Contact]
    BY <1>1, UpDoes, DownDoes, MoveDoes DEF TypeOK
  <1>3. open' \subseteq Contacts
    BY <1>1 DEF TypeOK, Stream!StreamTypeOK, EnqueueUp, EnqueueDown, EnqueueMove
  <1>4. event' \in Stream!Events
    <2>1. event' \in {Stream!Touch("touch_up", c), Stream!Touch("touch_down", c), Stream!Touch("touch_move", c)}
      BY <1>1 DEF EnqueueUp, EnqueueDown, EnqueueMove
    <2>2. QED
      BY <2>1 DEF Stream!Touch, Stream!Events
  <1>5. QED
    BY <1>2, <1>3, <1>4 DEF Stream!StreamTypeOK

LEMMA TypeStep == TypeOK /\ [Next]_vars => TypeOK'
  <1> SUFFICES ASSUME TypeOK, [Next]_vars
               PROVE  TypeOK'
    OBVIOUS
  <1>1. CASE SlotsFrame
    <2>1. fingers' \in [Slots -> Ids] /\ unread' \subseteq Slots /\ history' \subseteq {"dropped", "crowded"}
      BY <1>1 DEF SlotsFrame, TypeOK, NewFingers, Down, Remember
    <2>2. reading' = TRUE /\ UNCHANGED <<panel, reported, touching, kernel_slot, decoderVars, open, event>>
      BY <1>1 DEF SlotsFrame
    <2>3. QED
      BY <2>1, <2>2, StreamUnchanged DEF TypeOK, decoderVars
  <1>2. CASE SnowFrame
    <2>1. fingers' \in [Slots -> Ids] /\ unread' \subseteq Slots /\ history' \subseteq {"dropped", "crowded"}
      BY <1>2 DEF SnowFrame, TypeOK, NewFingers, Down, Remember
    <2>2. /\ reading' = TRUE /\ reported' = NoFingers
          /\ UNCHANGED <<panel, touching, kernel_slot, decoderVars, open, event>>
      BY <1>2 DEF SnowFrame
    <2>3. QED
      BY <2>1, <2>2, StreamUnchanged, SlotFacts DEF TypeOK, decoderVars
  <1>3. CASE LoseFrames
    <2>1. /\ fingers' \in [Slots -> Ids] /\ reported' = fingers'
          /\ kernel_slot' \in Slots /\ history' \subseteq {"dropped", "crowded"}
      BY <1>3 DEF LoseFrames, TypeOK
    <2>2. touching' \in BOOLEAN
      BY <1>3 DEF LoseFrames
    <2>3. ~reading /\ UNCHANGED <<panel, reading, unread, decoderVars, open, event>>
      BY <1>3 DEF LoseFrames, Settled
    <2>4. QED
      BY <2>1, <2>2, <2>3, StreamUnchanged DEF TypeOK, decoderVars
  <1>4. ASSUME NEW s \in Slots, ReadSlot(s) \/ ReadPosition(s)
        PROVE  TypeOK'
    <2>1. /\ reading /\ reading'
          /\ UNCHANGED <<panel, fingers, history, reported, touching, protocol, pending_snow_lift, open, event>>
      BY <1>4 DEF ReadSlot, ReadPosition, ReadOf, Read, panelVars
    <2>2. unread' \subseteq Slots /\ kernel_slot' \in Slots /\ current_slot' \in Contacts
      BY <1>4, SlotFacts DEF ReadSlot, ReadPosition, TypeOK
    <2>3. contacts' \in [Contacts -> Contact]
      BY <1>4, PositionDoes DEF ReadSlot, TypeOK
    <2>4. QED
      BY <2>1, <2>2, <2>3, StreamUnchanged DEF TypeOK
  <1>5. ASSUME NEW s \in Slots, ReadLift(s)
        PROVE  TypeOK'
    <2>1. /\ ReportId(s) /\ Lift(current_slot)
          /\ protocol' \in Protocols /\ UNCHANGED <<current_slot, pending_snow_lift>>
      BY <1>5 DEF ReadLift, Protocols
    <2>2. contacts' \in [Contacts -> Contact]
      BY <2>1, LiftDoes DEF TypeOK
    <2>3. QED
      BY <2>1, <2>2, ReportTyped, StreamUnchanged DEF TypeOK
  <1>6. ASSUME NEW s \in Slots, ReadId(s)
        PROVE  TypeOK'
    <2>1. /\ ReportId(s) /\ PutDown(current_slot')
          /\ UNCHANGED <<protocol, pending_snow_lift>>
      BY <1>6 DEF ReadId
    <2>2. current_slot' \in Contacts
      BY <1>6 DEF ReadId, TypeOK, Ids
    <2>3. contacts' \in [Contacts -> Contact]
      BY <2>1, <2>2, PutDownDoes DEF TypeOK
    <2>4. QED
      BY <2>1, <2>2, <2>3, ReportTyped, StreamUnchanged DEF TypeOK
  <1>7. CASE ReadTouchKey
    <2>1. /\ reading /\ touching' \in BOOLEAN /\ pending_snow_lift' \in BOOLEAN
          /\ UNCHANGED <<panelVars, open, event, reading, unread, reported, kernel_slot, protocol, contacts, current_slot>>
      BY <1>7 DEF ReadTouchKey, Read, TypeOK
    <2>2. QED
      BY <2>1, StreamUnchanged DEF TypeOK, panelVars
  <1>8. CASE ReadSyn
    <2>1. /\ reading' = FALSE /\ pending_snow_lift' = FALSE /\ unread = {}
          /\ UNCHANGED <<panelVars, open, event, unread, reported, touching, kernel_slot, protocol, current_slot>>
      BY <1>8 DEF ReadSyn, ReadSynReport, Read
    <2>2. contacts' \in [Contacts -> Contact]
      BY <1>8, SynDoes DEF TypeOK
    <2>3. QED
      BY <2>1, <2>2, StreamUnchanged DEF TypeOK, panelVars
  <1>9. CASE FlushContactEvents
    <2>1. UNCHANGED <<panelVars, frameVars, protocol, current_slot, pending_snow_lift>>
      BY <1>9, FlushCases
    <2>2. contacts' \in [Contacts -> Contact] /\ Stream!StreamTypeOK'
      BY <1>9, FlushTyped
    <2>3. QED
      BY <2>1, <2>2 DEF TypeOK, panelVars, frameVars
  <1>10. CASE PressKey \/ HandleEvent
    <2>1. UNCHANGED <<panelVars, frameVars, decoderVars>>
      BY <1>10 DEF PressKey, HandleEvent
    <2>2. open' = open /\ event' \in {Stream!KeyPress, Stream!NoEvent}
      BY <1>10 DEF PressKey, HandleEvent, Stream!Key, Stream!Handled
    <2>3. Stream!StreamTypeOK'
      BY <2>2 DEF TypeOK, Stream!StreamTypeOK, Stream!Events
    <2>4. QED
      BY <2>1, <2>3 DEF TypeOK, panelVars, frameVars, decoderVars
  <1>11. CASE UNCHANGED vars
    BY <1>11, StreamUnchanged DEF TypeOK, vars, panelVars, frameVars, decoderVars
  <1>12. QED
    BY <1>1, <1>2, <1>3, <1>4, <1>5, <1>6, <1>7, <1>8, <1>9, <1>10, <1>11, StepCases

(* Whatever a panel reports, configured as what it is or not, and whatever *)
(* frames are lost: the current slot is always the index of a contact.     *)
THEOREM TypeCorrect == Spec => []TypeOK
  <1>1. QED
    BY InitTyped, TypeStep, PTL DEF Spec

(***************************************************************************)
(* What is left of a frame                                                 *)
(***************************************************************************)

(* What is not yet reported is still to be read, a finger never turns into *)
(* another within one slot, and a report is about a finger that is or was  *)
(* there; BTN_TOUCH is in step with the fingers between frames.            *)
FrameInv ==
    /\ \A s \in Slots : Due(s) => s \in unread /\ (reported[s] = -1 \/ fingers[s] = -1)
    /\ unread \subseteq Down(fingers) \cup Down(reported)
    /\ panel.speaks = "snow" => unread \subseteq Down(fingers) /\ \A s \in Down(fingers) : fingers[s] = s
    /\ ~reading => (touching <=> Down(fingers) # {})

LEMMA NothingDue ==
    ASSUME TypeOK, FrameInv, unread = {}
    PROVE  /\ \A s \in Slots : reported[s] = fingers[s]
           /\ Down(reported) = Down(fingers)
  <1>1. \A s \in Slots : reported[s] = fingers[s]
    BY DEF FrameInv, Due
  <1>2. QED
    BY <1>1 DEF Down

LEMMA BetweenFrames ==
    ASSUME TypeOK, FrameInv, Settled
    PROVE  /\ ~reading /\ unread = {} /\ ~pending_snow_lift
           /\ \A s \in Slots : reported[s] = fingers[s]
           /\ Down(reported) = Down(fingers)
           /\ touching <=> Down(fingers) # {}
           /\ \A c \in Contacts : ~Pending(c)
  <1>1. ~reading /\ unread = {} /\ ~pending_snow_lift
    BY DEF Settled, TypeOK
  <1>2. \A c \in Contacts : ~Pending(c)
    BY DEF Settled, HasEvent, Pending, Landing, Lifting
  <1>3. QED
    BY <1>1, <1>2, NothingDue DEF FrameInv

LEMMA FrameStep == TypeOK /\ FrameInv /\ [Next]_vars => FrameInv'
  <1> SUFFICES ASSUME TypeOK, FrameInv, [Next]_vars
               PROVE  FrameInv'
    OBVIOUS
  <1>1. CASE SlotsFrame
    <2>1. PICK f \in NewFingers, moved \in SUBSET Slots :
             /\ moved \subseteq Down(f) \cap Down(fingers)
             /\ unread' = moved \cup {s \in Slots : f[s] # fingers[s]}
             /\ fingers' = f
      BY <1>1 DEF SlotsFrame
    <2>2. /\ panel' = panel /\ panel.speaks = "slots"
          /\ reading' = TRUE /\ reported' = reported /\ Settled
      BY <1>1 DEF SlotsFrame
    <2>3. \A s \in Slots : reported'[s] = fingers[s]
      BY <2>2, BetweenFrames
    <2>4. \A s \in Slots : fingers[s] # -1 /\ f[s] # -1 => f[s] = fingers[s]
      BY <2>1 DEF NewFingers, Down
    <2>5. \A s \in Slots : Due(s)' => s \in unread' /\ (reported'[s] = -1 \/ fingers'[s] = -1)
      BY <2>1, <2>3, <2>4 DEF Due
    <2>6. unread' \subseteq Down(fingers') \cup Down(reported')
      BY <2>1, <2>3 DEF Down
    <2>7. QED
      BY <2>2, <2>5, <2>6 DEF FrameInv, Down
  <1>2. CASE SnowFrame
    <2>1. PICK f \in NewFingers : unread' = Down(f) /\ fingers' = f
      BY <1>2 DEF SnowFrame
    <2>2. /\ panel' = panel /\ panel.speaks = "snow"
          /\ reading' = TRUE /\ reported' = NoFingers
      BY <1>2 DEF SnowFrame
    <2>3. \A s \in Slots : Due(s)' => s \in unread' /\ reported'[s] = -1
      BY <2>1, <2>2 DEF Due, NoFingers, Down
    <2>4. \A s \in Down(f) : f[s] = s
      BY <2>1, <2>2 DEF NewFingers
    <2>5. QED
      BY <2>1, <2>2, <2>3, <2>4 DEF FrameInv, Down
  <1>3. CASE LoseFrames
    <2>1. /\ fingers' \in [Slots -> Ids] /\ reported' = fingers' /\ panel' = panel
          /\ unread' = unread /\ reading' = reading /\ touching' = (Down(fingers)' # {}) /\ Settled
      BY <1>3 DEF LoseFrames
    <2>2. panel.speaks = "snow" => \A s \in Down(fingers)' : fingers'[s] = s
      BY <1>3 DEF LoseFrames
    <2>3. unread' = {}
      BY <2>1, BetweenFrames
    <2>4. QED
      BY <2>1, <2>2, <2>3 DEF FrameInv, Due
  <1>4. ASSUME NEW s \in Slots, ReadSlot(s) \/ ReadPosition(s)
        PROVE  FrameInv'
    <2>1. UNCHANGED <<panel, fingers, reading, reported, touching>>
      BY <1>4 DEF ReadSlot, ReadPosition, ReadOf, Read, panelVars
    <2>2. unread' = unread \/ (unread' = unread \ {s} /\ ~Due(s))
      BY <1>4 DEF ReadSlot, ReadPosition, Due
    <2>3. QED
      BY <2>1, <2>2 DEF FrameInv, Due, Down
  <1>5. ASSUME NEW s \in Slots, ReadLift(s) \/ ReadId(s)
        PROVE  FrameInv'
    <2>1. /\ reported' = [reported EXCEPT ![s] = fingers[s]]
          /\ unread' = IF fingers[s] = -1 THEN unread \ {s} ELSE unread
          /\ reading /\ UNCHANGED <<panel, fingers, reading>>
      BY <1>5 DEF ReadLift, ReadId, ReportId, ReadOf, Read, panelVars
    <2>2. reported'[s] = fingers[s] /\ \A t \in Slots : t # s => reported'[t] = reported[t]
      BY <2>1 DEF TypeOK
    <2>3. \A t \in Slots : Due(t)' => Due(t) /\ t # s /\ reported'[t] = reported[t]
      BY <2>1, <2>2 DEF Due
    <2>4. \A t \in Slots : Due(t)' => t \in unread' /\ (reported'[t] = -1 \/ fingers'[t] = -1)
      BY <2>1, <2>3 DEF FrameInv
    <2>5. unread' \subseteq Down(fingers') \cup Down(reported')
      BY <2>1, <2>2 DEF FrameInv, Down, TypeOK
    <2>6. panel.speaks = "snow" => unread' \subseteq Down(fingers)
      BY <2>1 DEF FrameInv
    <2>7. QED
      BY <2>1, <2>4, <2>5, <2>6 DEF FrameInv, Down
  <1>6. CASE ReadTouchKey
    <2>1. reading /\ UNCHANGED <<panel, fingers, reading, unread, reported>>
      BY <1>6 DEF ReadTouchKey, Read, panelVars
    <2>2. QED
      BY <2>1 DEF FrameInv, Due, Down
  <1>7. CASE ReadSyn
    <2>1. touching = (Down(fingers) # {}) /\ UNCHANGED <<panel, fingers, unread, reported, touching>>
      BY <1>7 DEF ReadSyn, ReadSynReport, Read, panelVars
    <2>2. QED
      BY <2>1 DEF FrameInv, Due, Down
  <1>8. CASE FlushContactEvents \/ PressKey \/ HandleEvent \/ UNCHANGED vars
    <2>1. UNCHANGED <<panelVars, frameVars>>
      BY <1>8, FlushCases DEF PressKey, HandleEvent, vars
    <2>2. QED
      BY <2>1 DEF FrameInv, Due, Down, panelVars, frameVars
  <1>9. QED
    BY <1>1, <1>2, <1>3, <1>4, <1>5, <1>6, <1>7, <1>8, StepCases

(***************************************************************************)
(* The protocol, and the lifts of snow panels                              *)
(***************************************************************************)

Standard == panel.configured = "standard_multitouch"

(* On a panel of slots the last lift of a frame is reported before         *)
(* BTN_TOUCH, and makes the protocol the standard one: the rule for snow   *)
(* lifts never applies.                                                    *)
SlotsInv ==
    panel.speaks = "slots" =>
        /\ ~pending_snow_lift
        /\ touching /\ Down(fingers) = {} /\ Down(reported) = {} => protocol = "standard_multitouch"
        /\ Standard => protocol = "standard_multitouch"

LEMMA SlotsStep == TypeOK /\ FrameInv /\ SlotsInv /\ [Next]_vars => SlotsInv'
  <1> SUFFICES ASSUME TypeOK, FrameInv, SlotsInv, [Next]_vars, panel'.speaks = "slots"
               PROVE  SlotsInv'
    BY DEF SlotsInv
  <1>1. CASE SlotsFrame
    <2>1. /\ UNCHANGED <<panel, reported, touching, pending_snow_lift, protocol>> /\ Settled
      BY <1>1 DEF SlotsFrame, decoderVars
    <2>2. touching => Down(reported) # {}
      BY <2>1, BetweenFrames
    <2>3. Down(reported)' = Down(reported)
      BY <2>1 DEF Down
    <2>4. QED
      BY <2>1, <2>2, <2>3 DEF SlotsInv, Standard
  <1>2. CASE SnowFrame
    BY <1>2 DEF SnowFrame
  <1>3. CASE LoseFrames
    <2>1. /\ touching' = (Down(fingers)' # {})
          /\ UNCHANGED <<panel, protocol, pending_snow_lift>>
      BY <1>3 DEF LoseFrames, decoderVars
    <2>2. QED
      BY <2>1 DEF SlotsInv, Standard
  <1>4. ASSUME NEW s \in Slots, ReadSlot(s) \/ ReadPosition(s)
        PROVE  SlotsInv'
    <2>1. UNCHANGED <<panel, fingers, reported, touching, protocol, pending_snow_lift>>
      BY <1>4 DEF ReadSlot, ReadPosition, ReadOf, Read, panelVars
    <2>2. QED
      BY <2>1 DEF SlotsInv, Standard, Down
  <1>5. ASSUME NEW s \in Slots, ReadLift(s)
        PROVE  SlotsInv'
    <2>1. protocol' = "standard_multitouch" /\ UNCHANGED <<panel, pending_snow_lift>>
      BY <1>5 DEF ReadLift, ReportId, ReadOf, Read, panelVars
    <2>2. QED
      BY <2>1 DEF SlotsInv
  <1>6. ASSUME NEW s \in Slots, ReadId(s)
        PROVE  SlotsInv'
    <2>1. fingers[s] # -1 /\ UNCHANGED <<panel, fingers, protocol, pending_snow_lift>>
      BY <1>6 DEF ReadId, ReportId, ReadOf, Read, panelVars
    <2>2. Down(fingers)' # {}
      BY <2>1 DEF Down
    <2>3. QED
      BY <2>1, <2>2 DEF SlotsInv, Standard
  <1>7. CASE ReadTouchKey
    <2>1. /\ unread = {} /\ touching # (Down(fingers) # {}) /\ touching' = ~touching
          /\ pending_snow_lift' = (pending_snow_lift \/ (~touching' /\ protocol = "snow"))
          /\ UNCHANGED <<panel, fingers, reported, protocol>>
      BY <1>7 DEF ReadTouchKey, Read, panelVars
    <2>2. Down(reported) = Down(fingers)
      BY <2>1, NothingDue
    <2>3. Down(fingers)' = Down(fingers)
      BY <2>1 DEF Down
    <2>4. CASE touching
      <3>1. protocol = "standard_multitouch"
        BY <2>1, <2>2, <2>4 DEF SlotsInv, TypeOK
      <3>2. QED
        BY <2>1, <3>1 DEF SlotsInv
    <2>5. CASE ~touching
      <3>1. touching' = TRUE /\ Down(fingers)' # {}
        BY <2>1, <2>3, <2>5 DEF TypeOK
      <3>2. ~pending_snow_lift'
        BY <2>1, <3>1 DEF SlotsInv
      <3>3. QED
        BY <2>1, <3>1, <3>2 DEF SlotsInv, Standard
    <2>6. QED
      BY <2>4, <2>5
  <1>8. CASE ReadSyn
    <2>1. ~pending_snow_lift' /\ UNCHANGED <<panel, fingers, reported, touching, protocol>>
      BY <1>8 DEF ReadSyn, ReadSynReport, Read, panelVars
    <2>2. QED
      BY <2>1 DEF SlotsInv, Standard, Down
  <1>9. CASE FlushContactEvents \/ PressKey \/ HandleEvent \/ UNCHANGED vars
    <2>1. UNCHANGED <<panelVars, frameVars, protocol, pending_snow_lift>>
      BY <1>9, FlushCases DEF PressKey, HandleEvent, vars, decoderVars
    <2>2. QED
      BY <2>1 DEF SlotsInv, Standard, Down, panelVars, frameVars
  <1>10. QED
    BY <1>1, <1>2, <1>3, <1>4, <1>5, <1>6, <1>7, <1>8, <1>9, StepCases

(* A snow panel never reports an id of -1; contacts are put down only in   *)
(* frames with fingers, and lifted only at the end of one without.         *)
SnowInv ==
    panel.speaks = "snow" =>
        /\ protocol = "snow"
        /\ pending_snow_lift => Down(fingers) = {}
        /\ Down(fingers) = {} => \A c \in Contacts : ~Landing(c)
        /\ reading \/ Down(fingers) # {} => \A c \in Contacts : ~Lifting(c)

LEMMA SnowReportsNoLift ==
    ASSUME TypeOK, FrameInv, panel.speaks = "snow", NEW s \in Slots, ReportId(s)
    PROVE  fingers[s] = s /\ s \in Down(fingers)
  BY DEF ReportId, ReadOf, FrameInv

(* The flush only takes pending events away. *)
LEMMA FlushTakes ==
    ASSUME TypeOK, FlushContactEvents
    PROVE  \A c \in Contacts :
             /\ Landing(c)' => Landing(c)
             /\ Lifting(c)' => Lifting(c)
             /\ Active(c)' => Active(c)
             /\ Active(c) => Active(c)' \/ Lifting(c)
             /\ Active(c)' /\ Lifting(c) => Lifting(c)'
             /\ Active(c) /\ Lifting(c)' => Active(c)'
  <1>1. PICK c \in Contacts : EnqueueUp(c) \/ EnqueueDown(c) \/ EnqueueMove(c)
    BY FlushCases
  <1>2. CASE EnqueueUp(c)
    BY <1>2, UpDoes DEF TypeOK, SameContact
  <1>3. CASE EnqueueDown(c)
    BY <1>3, DownDoes DEF TypeOK, SameContact
  <1>4. CASE EnqueueMove(c)
    BY <1>4, MoveDoes DEF TypeOK, SameContact, SameContacts
  <1>5. QED
    BY <1>1, <1>2, <1>3, <1>4

LEMMA SnowStep == TypeOK /\ FrameInv /\ SnowInv /\ [Next]_vars => SnowInv'
  <1> SUFFICES ASSUME TypeOK, FrameInv, SnowInv, [Next]_vars, panel'.speaks = "snow"
               PROVE  SnowInv'
    BY DEF SnowInv
  <1>1. CASE SlotsFrame
    BY <1>1 DEF SlotsFrame
  <1>2. CASE SnowFrame \/ LoseFrames
    <2>1. /\ UNCHANGED <<panel, contacts, protocol, pending_snow_lift>> /\ Settled
      BY <1>2 DEF SnowFrame, LoseFrames, decoderVars
    <2>2. ~pending_snow_lift /\ \A c \in Contacts : ~Landing(c) /\ ~Lifting(c)
      BY <2>1, BetweenFrames DEF Pending
    <2>3. \A c \in Contacts : ~Landing(c)' /\ ~Lifting(c)'
      BY <2>1, <2>2 DEF Landing, Lifting
    <2>4. QED
      BY <2>1, <2>2, <2>3 DEF SnowInv
  <1>3. ASSUME NEW s \in Slots, ReadSlot(s) \/ ReadPosition(s)
        PROVE  SnowInv'
    <2>1. UNCHANGED <<panel, fingers, reading, protocol, pending_snow_lift>>
      BY <1>3 DEF ReadSlot, ReadPosition, ReadOf, Read, panelVars
    <2>2. SameContacts
      BY <1>3, PositionDoes DEF ReadSlot, TypeOK, SameContacts, SameContact, Active, Landing, Lifting
    <2>3. QED
      BY <2>1, <2>2 DEF SnowInv, Down, SameContacts, SameContact
  <1>4. ASSUME NEW s \in Slots, ReadLift(s)
        PROVE  SnowInv'
    <2>1. ReportId(s) /\ fingers[s] = -1 /\ panel' = panel
      BY <1>4 DEF ReadLift, ReportId, ReadOf, Read, panelVars
    <2>2. QED
      BY <2>1, SnowReportsNoLift, SlotFacts
  <1>5. ASSUME NEW s \in Slots, ReadId(s)
        PROVE  SnowInv'
    <2>1. /\ ReportId(s) /\ PutDown(current_slot') /\ reading
          /\ UNCHANGED <<panel, fingers, reading, protocol, pending_snow_lift>>
      BY <1>5 DEF ReadId, ReportId, ReadOf, Read, panelVars
    <2>2. Down(fingers) # {} /\ Down(fingers)' = Down(fingers)
      BY <2>1, SnowReportsNoLift DEF Down
    <2>3. current_slot' \in Contacts
      BY <1>5 DEF ReadId, TypeOK, Ids
    <2>4. \A c \in Contacts : Lifting(c)' <=> Lifting(c)
      BY <2>1, <2>3, PutDownDoes DEF TypeOK, SameContact
    <2>5. QED
      BY <2>1, <2>2, <2>4 DEF SnowInv
  <1>6. CASE ReadTouchKey
    <2>1. /\ touching # (Down(fingers) # {}) /\ touching' = ~touching
          /\ pending_snow_lift' = (pending_snow_lift \/ (~touching' /\ protocol = "snow"))
          /\ UNCHANGED <<panel, fingers, reading, protocol, contacts>>
      BY <1>6 DEF ReadTouchKey, Read, panelVars
    <2>2. ~touching' => Down(fingers) = {}
      BY <2>1 DEF TypeOK
    <2>3. QED
      BY <2>1, <2>2 DEF SnowInv, Down, Landing, Lifting
  <1>7. CASE ReadSyn
    <2>1. /\ pending_snow_lift' = FALSE /\ reading /\ reading' = FALSE
          /\ UNCHANGED <<panel, fingers, protocol>>
      BY <1>7 DEF ReadSyn, ReadSynReport, Read, panelVars
    <2>2. /\ \A c \in Contacts : Landing(c)' <=> Landing(c)
          /\ \A c \in Contacts : Lifting(c)' => Lifting(c) \/ pending_snow_lift
      BY <1>7, SynDoes DEF TypeOK
    <2>3. Down(fingers)' = Down(fingers)
      BY <2>1 DEF Down
    <2>4. QED
      BY <2>1, <2>2, <2>3 DEF SnowInv
  <1>8. CASE FlushContactEvents
    <2>1. UNCHANGED <<panelVars, frameVars, protocol, pending_snow_lift>>
      BY <1>8, FlushCases
    <2>2. \A c \in Contacts : (Landing(c)' => Landing(c)) /\ (Lifting(c)' => Lifting(c))
      BY <1>8, FlushTakes
    <2>3. QED
      BY <2>1, <2>2 DEF SnowInv, Down, panelVars, frameVars
  <1>9. CASE PressKey \/ HandleEvent \/ UNCHANGED vars
    <2>1. UNCHANGED <<panelVars, frameVars, decoderVars>>
      BY <1>9 DEF PressKey, HandleEvent, vars
    <2>2. QED
      BY <2>1 DEF SnowInv, Down, Landing, Lifting, panelVars, frameVars, decoderVars
  <1>10. QED
    BY <1>1, <1>2, <1>3, <1>4, <1>5, <1>6, <1>7, <1>8, <1>9, StepCases

(***************************************************************************)
(* One report at a time for each contact                                   *)
(***************************************************************************)

(* A panel of slots that is configured as one, and loses no frame, has the *)
(* contact of a slot for the finger in that slot.                          *)
OwnSlotInv ==
    Standard /\ "dropped" \notin history =>
        /\ current_slot = kernel_slot
        /\ \A s \in Slots : Pending(s) => ~Due(s)

LEMMA StandardSpeaksSlots == TypeOK /\ Standard => panel.speaks = "slots"
  BY DEF TypeOK, Panels, Standard

LEMMA HistoryGrows ==
    ASSUME [Next]_vars
    PROVE  history \subseteq history' /\ panel' = panel
  <1>1. CASE SlotsFrame \/ SnowFrame \/ LoseFrames
    BY <1>1 DEF SlotsFrame, SnowFrame, LoseFrames, Remember
  <1>2. CASE UNCHANGED panelVars
    BY <1>2 DEF panelVars
  <1>3. SlotsFrame \/ SnowFrame \/ LoseFrames \/ UNCHANGED panelVars
    BY FlushCases
       DEF Next, ReadFrame, ReadSlot, ReadPosition, ReadLift, ReadId, ReportId, ReadOf, Read,
           ReadTouchKey, ReadSyn, ReadSynReport, PressKey, HandleEvent, vars, panelVars
  <1>4. QED
    BY <1>1, <1>2, <1>3

LEMMA OwnSlotStep ==
    TypeOK /\ FrameInv /\ SlotsInv /\ OwnSlotInv /\ [Next]_vars => OwnSlotInv'
  <1> SUFFICES ASSUME TypeOK, FrameInv, SlotsInv, OwnSlotInv, [Next]_vars,
                      Standard', "dropped" \notin history'
               PROVE  OwnSlotInv'
    BY DEF OwnSlotInv
  <1>0. /\ Standard /\ panel.speaks = "slots" /\ protocol = "standard_multitouch"
        /\ current_slot = kernel_slot
        /\ \A s \in Slots : Pending(s) => ~Due(s)
    BY HistoryGrows, StandardSpeaksSlots DEF OwnSlotInv, Standard, SlotsInv
  <1>1. CASE SlotsFrame
    <2>1. UNCHANGED <<current_slot, kernel_slot, contacts>> /\ Settled
      BY <1>1 DEF SlotsFrame, decoderVars
    <2>2. \A c \in Contacts : ~Pending(c)'
      BY <2>1, BetweenFrames DEF Pending, Landing, Lifting
    <2>3. QED
      BY <1>0, <2>1, <2>2, SlotFacts DEF OwnSlotInv
  <1>2. CASE SnowFrame \/ LoseFrames
    BY <1>0, <1>2 DEF SnowFrame, LoseFrames
  <1>3. ASSUME NEW s \in Slots, ReadSlot(s) \/ ReadPosition(s)
        PROVE  OwnSlotInv'
    <2>1. /\ UNCHANGED <<fingers, reported>>
          /\ current_slot' = kernel_slot'
      BY <1>0, <1>3 DEF ReadSlot, ReadPosition, ReadOf, Read, panelVars
    <2>2. SameContacts
      BY <1>3, PositionDoes DEF ReadSlot, TypeOK, SameContacts, SameContact, Active, Landing, Lifting
    <2>3. QED
      BY <1>0, <2>1, <2>2, SlotFacts DEF OwnSlotInv, SameContacts, SameContact, Pending, Due
  <1>4. ASSUME NEW s \in Slots, ReadLift(s) \/ ReadId(s)
        PROVE  OwnSlotInv'
    <2>1. /\ current_slot' = current_slot /\ kernel_slot' = kernel_slot /\ s = kernel_slot
          /\ Lift(current_slot) \/ PutDown(current_slot)
          /\ reported' = [reported EXCEPT ![s] = fingers[s]]
          /\ fingers' = fingers
      BY <1>0, <1>4 DEF ReadLift, ReadId, ReportId, Named, ReadOf, Read, panelVars
    <2>2. \A d \in Contacts : d # current_slot => SameContact(d)
      BY <2>1, LiftDoes, PutDownDoes DEF TypeOK
    <2>3. ~Due(s)' /\ \A t \in Slots : Due(t)' => Due(t)
      BY <2>1 DEF Due, TypeOK
    <2>4. QED
      BY <1>0, <2>1, <2>2, <2>3, SlotFacts DEF OwnSlotInv, SameContact, Pending
  <1>5. CASE ReadTouchKey
    <2>1. UNCHANGED <<fingers, reported, contacts, current_slot, kernel_slot>>
      BY <1>5 DEF ReadTouchKey, Read, panelVars
    <2>2. QED
      BY <1>0, <2>1 DEF OwnSlotInv, Pending, Landing, Lifting, Due
  <1>6. CASE ReadSyn
    <2>1. UNCHANGED <<fingers, reported, current_slot, kernel_slot>>
      BY <1>6 DEF ReadSyn, ReadSynReport, Read, panelVars
    <2>2. \A c \in Contacts : Pending(c)' <=> Pending(c)
      BY <1>0, <1>6, SynDoes DEF TypeOK, SlotsInv, Pending
    <2>3. QED
      BY <1>0, <2>1, <2>2, SlotFacts DEF OwnSlotInv, Due
  <1>7. CASE FlushContactEvents
    <2>1. UNCHANGED <<panelVars, frameVars, current_slot>>
      BY <1>7, FlushCases
    <2>2. \A c \in Contacts : Pending(c)' => Pending(c)
      BY <1>7, FlushTakes DEF Pending
    <2>3. QED
      BY <1>0, <2>1, <2>2, SlotFacts DEF OwnSlotInv, Due, panelVars, frameVars
  <1>8. CASE PressKey \/ HandleEvent \/ UNCHANGED vars
    <2>1. UNCHANGED <<panelVars, frameVars, decoderVars>>
      BY <1>8 DEF PressKey, HandleEvent, vars
    <2>2. QED
      BY <1>0, <2>1 DEF OwnSlotInv, Pending, Landing, Lifting, Due, panelVars, frameVars, decoderVars
  <1>9. QED
    BY <1>1, <1>2, <1>3, <1>4, <1>5, <1>6, <1>7, <1>8, StepCases

(* Fingers that come one at a time on a panel of slots: one id is reported *)
(* in a frame at most, before which no event is pending.                   *)
SinglyInv ==
    panel.speaks = "slots" /\ "crowded" \notin history =>
        /\ AtMostOne(Down(fingers) \cup Down(reported))
        /\ \A c \in Contacts, s \in Slots : Pending(c) => ~Due(s)

LEMMA FewFingers ==
    ASSUME NEW S \in SUBSET Slots, Cardinality(S) <= 1
    PROVE  AtMostOne(S)
  <1> SUFFICES ASSUME NEW x \in S, NEW y \in S, x # y
               PROVE  FALSE
    BY DEF AtMostOne
  <1>1. IsFiniteSet(S) /\ Cardinality(S) \in Nat
    BY SlotsAssumption, FS_Subset, FS_CardinalityType
  <1>2. IsFiniteSet(S \ {x}) /\ Cardinality(S \ {x}) = Cardinality(S) - 1
    BY <1>1, FS_RemoveElement
  <1>3. Cardinality(S \ {x}) = 0
    BY <1>1, <1>2, FS_CardinalityType
  <1>4. QED
    BY <1>2, <1>3, FS_EmptySet

LEMMA SinglyStep ==
    TypeOK /\ FrameInv /\ SlotsInv /\ SinglyInv /\ [Next]_vars => SinglyInv'
  <1> SUFFICES ASSUME TypeOK, FrameInv, SlotsInv, SinglyInv, [Next]_vars,
                      panel'.speaks = "slots", "crowded" \notin history'
               PROVE  SinglyInv'
    BY DEF SinglyInv
  <1>0. /\ panel.speaks = "slots" /\ ~pending_snow_lift
        /\ AtMostOne(Down(fingers) \cup Down(reported))
        /\ \A c \in Contacts, s \in Slots : Pending(c) => ~Due(s)
    BY HistoryGrows DEF SinglyInv, SlotsInv
  <1>1. CASE SlotsFrame
    <2>1. PICK f \in NewFingers : fingers' = f /\ Remember(f)
      BY <1>1 DEF SlotsFrame
    <2>2. UNCHANGED <<reported, contacts>> /\ Settled
      BY <1>1 DEF SlotsFrame, decoderVars
    <2>3. ~(Cardinality(Down(f) \cup Down(fingers)) > 1)
      BY <2>1 DEF Remember
    <2>4. Down(f) \cup Down(fingers) \in SUBSET Slots
      BY DEF Down
    <2>5. Cardinality(Down(f) \cup Down(fingers)) <= 1
      BY <2>3, <2>4, SlotsAssumption, FS_Subset, FS_CardinalityType
    <2>6. AtMostOne(Down(f) \cup Down(fingers))
      BY <2>4, <2>5, FewFingers
    <2>7. Down(reported)' = Down(fingers) /\ Down(fingers)' = Down(f)
      BY <2>1, <2>2, BetweenFrames DEF Down
    <2>8. \A c \in Contacts : ~Pending(c)'
      BY <2>2, BetweenFrames DEF Pending, Landing, Lifting
    <2>9. QED
      BY <2>6, <2>7, <2>8 DEF SinglyInv
  <1>2. CASE SnowFrame
    BY <1>0, <1>2 DEF SnowFrame
  <1>3. CASE LoseFrames
    <2>1. /\ reported' = fingers' /\ contacts' = contacts /\ Settled
          /\ Cardinality(Down(fingers)') <= 1
      BY <1>3 DEF LoseFrames, decoderVars
    <2>2. Down(fingers)' \in SUBSET Slots /\ Down(reported)' = Down(fingers)'
      BY <2>1 DEF Down
    <2>3. AtMostOne(Down(fingers)')
      BY <2>1, <2>2, FewFingers
    <2>4. \A c \in Contacts : ~Pending(c)'
      BY <2>1, BetweenFrames DEF Pending, Landing, Lifting
    <2>5. QED
      BY <2>2, <2>3, <2>4 DEF SinglyInv, AtMostOne
  <1>4. ASSUME NEW s \in Slots, ReadSlot(s) \/ ReadPosition(s)
        PROVE  SinglyInv'
    <2>1. UNCHANGED <<fingers, reported>>
      BY <1>4 DEF ReadSlot, ReadPosition, ReadOf, Read, panelVars
    <2>2. SameContacts
      BY <1>4, PositionDoes DEF ReadSlot, TypeOK, SameContacts, SameContact, Active, Landing, Lifting
    <2>3. QED
      BY <1>0, <2>1, <2>2 DEF SinglyInv, SameContacts, SameContact, Pending, Due, Down, AtMostOne
  <1>5. ASSUME NEW s \in Slots, ReadLift(s) \/ ReadId(s)
        PROVE  SinglyInv'
    <2>1. /\ reported' = [reported EXCEPT ![s] = fingers[s]]
          /\ fingers' = fingers /\ Due(s)
      BY <1>5 DEF ReadLift, ReadId, ReportId, ReadOf, Read, panelVars, Due
    <2>2. reported'[s] = fingers[s] /\ \A t \in Slots : t # s => reported'[t] = reported[t]
      BY <2>1 DEF TypeOK
    <2>3. \A t \in Slots : Due(t) => t \in Down(fingers) \cup Down(reported)
      BY DEF FrameInv
    <2>4. \A t \in Slots : Due(t) => t = s
      BY <1>0, <2>1, <2>3 DEF AtMostOne
    <2>5. \A t \in Slots : ~Due(t)'
      BY <2>1, <2>2, <2>4 DEF Due
    <2>6. Down(reported)' \subseteq Down(fingers) \cup Down(reported) /\ Down(fingers)' = Down(fingers)
      BY <2>1, <2>2 DEF Down
    <2>7. QED
      BY <1>0, <2>5, <2>6 DEF SinglyInv, AtMostOne
  <1>6. CASE ReadTouchKey
    <2>1. UNCHANGED <<fingers, reported, contacts>>
      BY <1>6 DEF ReadTouchKey, Read, panelVars
    <2>2. QED
      BY <1>0, <2>1 DEF SinglyInv, Pending, Landing, Lifting, Due, Down, AtMostOne
  <1>7. CASE ReadSyn
    <2>1. UNCHANGED <<fingers, reported>>
      BY <1>7 DEF ReadSyn, ReadSynReport, Read, panelVars
    <2>2. \A c \in Contacts : Pending(c)' <=> Pending(c)
      BY <1>0, <1>7, SynDoes DEF TypeOK, Pending
    <2>3. QED
      BY <1>0, <2>1, <2>2 DEF SinglyInv, Due, Down, AtMostOne
  <1>8. CASE FlushContactEvents
    <2>1. UNCHANGED <<fingers, reported>>
      BY <1>8, FlushCases DEF panelVars, frameVars
    <2>2. \A c \in Contacts : Pending(c)' => Pending(c)
      BY <1>8, FlushTakes DEF Pending
    <2>3. QED
      BY <1>0, <2>1, <2>2 DEF SinglyInv, Due, Down, AtMostOne
  <1>9. CASE PressKey \/ HandleEvent \/ UNCHANGED vars
    <2>1. UNCHANGED <<panelVars, frameVars, decoderVars>>
      BY <1>9 DEF PressKey, HandleEvent, vars
    <2>2. QED
      BY <1>0, <2>1
         DEF SinglyInv, Pending, Landing, Lifting, Due, Down, AtMostOne, panelVars, frameVars, decoderVars
  <1>10. QED
    BY <1>1, <1>2, <1>3, <1>4, <1>5, <1>6, <1>7, <1>8, <1>9, StepCases

(***************************************************************************)
(* The stream                                                              *)
(***************************************************************************)

(* Unless the decoder was misled, a contact with an event pending is       *)
(* active and waits for one event only, and the main loop holds it down    *)
(* exactly if it is active and its arrival was handed over.                *)
ContactOK(c) ==
    /\ Pending(c) => Active(c)
    /\ ~(Lifting(c) /\ Landing(c))
    /\ c \in open => Active(c)
    /\ Active(c) /\ ~Landing(c) => c \in open

ContactInv == Misled \/ \A c \in Contacts : ContactOK(c)

LEMMA MisledStays ==
    ASSUME [Next]_vars, ~Misled'
    PROVE  ~Misled
  BY HistoryGrows DEF Misled

(* When a panel of slots reports an id, the contact it will be taken for   *)
(* has nothing pending.                                                    *)
LEMMA NothingPending ==
    ASSUME TypeOK, OwnSlotInv, SinglyInv, ~Misled, panel.speaks = "slots",
           NEW s \in Slots, ReportId(s)
    PROVE  /\ ~Pending(current_slot)
           /\ ~Standard => \A c \in Contacts : ~Pending(c)
  <1>1. Due(s) /\ s = kernel_slot
    BY DEF ReportId, Named, Due
  <1>2. CASE "crowded" \notin history
    BY <1>1, <1>2 DEF SinglyInv, TypeOK
  <1>3. CASE Standard /\ "dropped" \notin history
    BY <1>1, <1>3 DEF OwnSlotInv
  <1>4. panel.configured \in {"snow", "standard_multitouch"}
    BY DEF TypeOK, Panels
  <1>5. Standard => panel.configured # "snow"
    BY DEF Standard
  <1>6. QED
    BY <1>2, <1>3, <1>4, <1>5 DEF Misled, Standard

LEMMA ContactStep ==
    /\ TypeOK /\ FrameInv /\ SlotsInv /\ SnowInv /\ OwnSlotInv /\ SinglyInv
    /\ ContactInv /\ [Next]_vars
    => ContactInv'
  <1> SUFFICES ASSUME TypeOK, FrameInv, SlotsInv, SnowInv, OwnSlotInv, SinglyInv, ContactInv,
                      [Next]_vars, ~Misled', NEW c \in Contacts
               PROVE  ContactOK(c)'
    BY DEF ContactInv
  <1>0. ~Misled /\ \A d \in Contacts : ContactOK(d)
    BY MisledStays DEF ContactInv
  <1>p. panel.speaks \in {"slots", "snow"}
    BY DEF TypeOK, Panels
  <1>1. CASE \/ SlotsFrame \/ SnowFrame \/ LoseFrames \/ ReadTouchKey \/ PressKey \/ HandleEvent
             \/ UNCHANGED vars
    <2>1. UNCHANGED <<contacts, open>>
      BY <1>1 DEF SlotsFrame, SnowFrame, LoseFrames, ReadTouchKey, Read, PressKey, HandleEvent,
                  Stream!Key, Stream!Handled, vars, decoderVars
    <2>2. QED
      BY <1>0, <2>1 DEF ContactOK, Pending, Active, Landing, Lifting
  <1>2. ASSUME NEW s \in Slots, ReadSlot(s) \/ ReadPosition(s)
        PROVE  ContactOK(c)'
    <2>1. open' = open
      BY <1>2 DEF ReadSlot, ReadPosition, ReadOf, Read
    <2>2. SameContacts
      BY <1>2, PositionDoes DEF ReadSlot, TypeOK, SameContacts, SameContact, Active, Landing, Lifting
    <2>3. QED
      BY <1>0, <2>1, <2>2 DEF ContactOK, Pending, SameContacts, SameContact
  <1>3. ASSUME NEW s \in Slots, ReadLift(s)
        PROVE  ContactOK(c)'
    <2>1. ReportId(s) /\ fingers[s] = -1 /\ Lift(current_slot) /\ open' = open
      BY <1>3 DEF ReadLift, ReportId, ReadOf, Read
    <2>2. ~Pending(current_slot)
      BY <1>0, <1>p, <2>1, SnowReportsNoLift, SlotFacts, NothingPending
    <2>3. CASE c = current_slot
      BY <1>0, <2>1, <2>2, <2>3, LiftDoes DEF ContactOK, Pending, TypeOK
    <2>4. CASE c # current_slot
      BY <1>0, <2>1, <2>4, LiftDoes DEF ContactOK, Pending, SameContact, TypeOK
    <2>5. QED
      BY <2>3, <2>4
  <1>4. ASSUME NEW s \in Slots, ReadId(s)
        PROVE  ContactOK(c)'
    <2>1. ReportId(s) /\ PutDown(current_slot') /\ reading /\ open' = open
      BY <1>4 DEF ReadId, ReportId, ReadOf, Read
    <2>2. current_slot' \in Contacts
      BY <1>4 DEF ReadId, TypeOK, Ids
    <2>3. ~Lifting(current_slot')
      <3>1. CASE panel.speaks = "snow"
        BY <2>1, <2>2, <3>1 DEF SnowInv
      <3>2. CASE panel.speaks = "slots" /\ ~Standard
        BY <1>0, <2>1, <2>2, <3>2, NothingPending DEF Pending
      <3>3. CASE panel.speaks = "slots" /\ Standard
        <4>1. current_slot' = current_slot
          BY <1>4, <3>3 DEF ReadId, SlotsInv
        <4>2. QED
          BY <1>0, <2>1, <3>3, <4>1, NothingPending DEF Pending
      <3>4. QED
        BY <1>p, <3>1, <3>2, <3>3
    <2>4. CASE c = current_slot'
      BY <2>1, <2>2, <2>3, <2>4, PutDownDoes DEF ContactOK, Pending, TypeOK
    <2>5. CASE c # current_slot'
      BY <1>0, <2>1, <2>2, <2>5, PutDownDoes DEF ContactOK, Pending, SameContact, TypeOK
    <2>6. QED
      BY <2>4, <2>5
  <1>5. CASE ReadSyn
    <2>1. open' = open
      BY <1>5 DEF ReadSyn, ReadSynReport, Read
    <2>2. pending_snow_lift => ~Landing(c)
      BY <1>p DEF SlotsInv, SnowInv
    <2>3. QED
      BY <1>0, <1>5, <2>1, <2>2, SynDoes DEF ContactOK, Pending, TypeOK
  <1>6. CASE FlushContactEvents
    <2>1. PICK d \in Contacts : EnqueueUp(d) \/ EnqueueDown(d) \/ EnqueueMove(d)
      BY <1>6, FlushCases
    <2>2. CASE EnqueueUp(d)
      <3>1. open' = open \ {d}
        BY <2>2 DEF EnqueueUp
      <3>2. QED
        BY <1>0, <2>2, <3>1, UpDoes DEF ContactOK, Pending, SameContact, TypeOK
    <2>3. CASE EnqueueDown(d)
      <3>1. open' = open \cup {d}
        BY <2>3 DEF EnqueueDown
      <3>2. QED
        BY <1>0, <2>3, <3>1, DownDoes DEF ContactOK, Pending, SameContact, TypeOK
    <2>4. CASE EnqueueMove(d)
      <3>1. open' = open
        BY <2>4 DEF EnqueueMove
      <3>2. QED
        BY <1>0, <2>4, <3>1, MoveDoes DEF ContactOK, Pending, SameContacts, SameContact, TypeOK
    <2>5. QED
      BY <2>1, <2>2, <2>3, <2>4
  <1>7. QED
    BY <1>1, <1>2, <1>3, <1>4, <1>5, <1>6, StepCases

Inv ==
    /\ TypeOK
    /\ FrameInv
    /\ SlotsInv
    /\ SnowInv
    /\ OwnSlotInv
    /\ SinglyInv
    /\ ContactInv

LEMMA NobodyTouches ==
    ASSUME Init
    PROVE  /\ Down(fingers) = {} /\ Down(reported) = {}
           /\ \A s \in Slots : ~Due(s)
           /\ \A c \in Contacts : ~Pending(c) /\ ~Active(c) /\ c \notin open
  <1>1. Down(fingers) = {} /\ Down(reported) = {} /\ \A s \in Slots : ~Due(s)
    BY DEF Init, Down, Due, NoFingers
  <1>2. \A c \in Contacts : contacts[c] = NoContact /\ c \notin open
    BY DEF Init, Stream!Init
  <1>3. QED
    BY <1>1, <1>2 DEF Pending, Active, Landing, Lifting, NoContact

LEMMA InitInv == Init => Inv
  <1> SUFFICES ASSUME Init
               PROVE  Inv
    OBVIOUS
  <1>1. TypeOK
    BY InitTyped
  <1>2. ~reading /\ ~touching /\ ~pending_snow_lift /\ unread = {} /\ kernel_slot = current_slot
    BY DEF Init
  <1>3. FrameInv
    BY <1>2, NobodyTouches DEF FrameInv
  <1>4. SlotsInv
    BY <1>2 DEF Init, SlotsInv, Standard
  <1>5. SnowInv
    <2>1. panel.speaks = "snow" => protocol = "snow"
      BY DEF Init, Panels
    <2>2. QED
      BY <1>2, <2>1, NobodyTouches DEF SnowInv, Pending
  <1>6. OwnSlotInv
    BY <1>2, NobodyTouches DEF OwnSlotInv
  <1>7. SinglyInv
    BY NobodyTouches DEF SinglyInv, AtMostOne
  <1>8. ContactInv
    BY NobodyTouches DEF ContactInv, ContactOK, Pending
  <1>9. QED
    BY <1>1, <1>3, <1>4, <1>5, <1>6, <1>7, <1>8 DEF Inv

LEMMA InvStep == Inv /\ [Next]_vars => Inv'
  BY TypeStep, FrameStep, SlotsStep, SnowStep, OwnSlotStep, SinglyStep, ContactStep DEF Inv

(* A step of the decoder is one of the stream, or leaves it alone.         *)
LEMMA StreamStep == Inv /\ [Next]_vars => [Stream!Next \/ Misled]_<<open, event>>
  <1> SUFFICES ASSUME Inv, [Next]_vars, ~Misled
               PROVE  Stream!Next \/ UNCHANGED <<open, event>>
    OBVIOUS
  <1>0. TypeOK /\ \A c \in Contacts : ContactOK(c)
    BY DEF Inv, ContactInv
  <1>1. CASE SlotsFrame \/ SnowFrame \/ LoseFrames \/ ReadTouchKey \/ ReadSyn \/ UNCHANGED vars
    BY <1>1 DEF SlotsFrame, SnowFrame, LoseFrames, ReadTouchKey, ReadSyn, ReadSynReport, Read, vars
  <1>2. ASSUME NEW s \in Slots, ReadSlot(s) \/ ReadPosition(s) \/ ReadLift(s) \/ ReadId(s)
        PROVE  UNCHANGED <<open, event>>
    BY <1>2 DEF ReadSlot, ReadPosition, ReadLift, ReadId, ReportId, ReadOf, Read
  <1>3. CASE FlushContactEvents
    <2>1. PICK c \in Contacts : EnqueueUp(c) \/ EnqueueDown(c) \/ EnqueueMove(c)
      BY <1>3, FlushCases
    <2>2. event = Stream!NoEvent
      BY <1>3, FlushCases
    <2>3. EnqueueUp(c) => Stream!Up(c)
      BY <1>0, <2>2 DEF EnqueueUp, Stream!Up, ContactOK, Pending, Lifting
    <2>4. EnqueueDown(c) => Stream!Down(c)
      BY <2>2 DEF EnqueueDown, Stream!Down
    <2>5. EnqueueMove(c) => Stream!Move(c)
      BY <1>0, <2>2 DEF EnqueueMove, Stream!Move, ContactOK, Active, Landing
    <2>6. QED
      BY <2>1, <2>3, <2>4, <2>5 DEF Stream!Next
  <1>4. CASE PressKey \/ HandleEvent
    BY <1>4 DEF PressKey, HandleEvent, Stream!Next
  <1>5. QED
    BY <1>1, <1>2, <1>3, <1>4, StepCases

(* The decoder implements the abstract stream, for any number of slots and *)
(* fingers: no release and no move is handed over of a contact that the    *)
(* main loop does not hold down, until the decoder is misled.              *)
THEOREM StreamIsEmitted == Spec => EmitsStream
  <1>1. Init => Stream!Init
    BY DEF Init
  <1>2. QED
    BY <1>1, InitInv, InvStep, StreamStep, PTL DEF Spec, EmitsStream

(***************************************************************************)
(* The fingers                                                             *)
(***************************************************************************)

LEMMA SeparateNotMisled ==
    ASSUME TypeOK, "dropped" \notin history,
           panel.speaks = "snow" \/ Standard \/ "crowded" \notin history
    PROVE  ~Misled
  BY DEF Misled, Standard

(* The contacts of a panel that is configured as what it is are the slots  *)
(* with a finger, and those whose lift waits to be handed over.            *)
OwnKnown ==
    \A c \in Contacts :
        /\ Active(c) <=> c \in Down(reported) \/ Lifting(c)
        /\ Lifting(c) => c \notin Down(reported)

OwnKnownInv == Standard /\ "dropped" \notin history => OwnKnown

LEMMA OwnKnownStep == Inv /\ OwnKnownInv /\ [Next]_vars => OwnKnownInv'
  <1> SUFFICES ASSUME Inv, OwnKnownInv, [Next]_vars, Standard', "dropped" \notin history'
               PROVE  OwnKnown'
    BY DEF OwnKnownInv
  <1>0. /\ TypeOK /\ Standard /\ "dropped" \notin history /\ OwnKnown
        /\ panel.speaks = "slots" /\ protocol = "standard_multitouch" /\ ~pending_snow_lift
        /\ current_slot = kernel_slot /\ ~Misled
    BY HistoryGrows, StandardSpeaksSlots, SeparateNotMisled
       DEF Inv, OwnKnownInv, OwnSlotInv, Standard, SlotsInv
  <1>1. CASE SlotsFrame \/ ReadTouchKey \/ PressKey \/ HandleEvent \/ UNCHANGED vars
    <2>1. UNCHANGED <<reported, contacts>>
      BY <1>1 DEF SlotsFrame, ReadTouchKey, PressKey, HandleEvent, vars, decoderVars, frameVars
    <2>2. QED
      BY <1>0, <2>1 DEF OwnKnown, Down, Active, Lifting
  <1>2. CASE SnowFrame \/ LoseFrames
    BY <1>0, <1>2 DEF SnowFrame, LoseFrames
  <1>3. ASSUME NEW s \in Slots, ReadSlot(s) \/ ReadPosition(s)
        PROVE  OwnKnown'
    <2>1. reported' = reported
      BY <1>3 DEF ReadSlot, ReadPosition
    <2>2. SameContacts
      BY <1>0, <1>3, PositionDoes DEF ReadSlot, TypeOK, SameContacts, SameContact, Active, Landing, Lifting
    <2>3. QED
      BY <1>0, <2>1, <2>2 DEF OwnKnown, Down, SameContacts, SameContact
  <1>4. ASSUME NEW s \in Slots, ReadLift(s) \/ ReadId(s)
        PROVE  OwnKnown'
    <2>1. /\ ReportId(s) /\ s = current_slot /\ current_slot' = current_slot
          /\ reported' = [reported EXCEPT ![s] = fingers[s]]
          /\ reported[s] # fingers[s]
      BY <1>0, <1>4 DEF ReadLift, ReadId, ReportId, Named
    <2>2. s \in Contacts /\ ~Lifting(s)
      BY <1>0, <2>1, SlotFacts, NothingPending DEF Inv, Pending
    <2>3. \A c \in Contacts : c # s => (c \in Down(reported)' <=> c \in Down(reported))
      BY <1>0, <2>1 DEF Down, TypeOK
    <2>4. CASE ReadLift(s)
      <3>1. fingers[s] = -1 /\ Lift(s)
        BY <2>1, <2>4 DEF ReadLift
      <3>2. s \in Down(reported) /\ s \notin Down(reported)'
        BY <1>0, <2>1, <3>1 DEF Down, TypeOK
      <3>3. Active(s)' /\ Lifting(s)'
        BY <1>0, <2>2, <3>1, <3>2, LiftDoes DEF OwnKnown, TypeOK
      <3>4. \A c \in Contacts : c # s => SameContact(c)
        BY <1>0, <2>2, <3>1, LiftDoes DEF TypeOK
      <3>5. QED
        BY <1>0, <2>3, <3>2, <3>3, <3>4 DEF OwnKnown, SameContact
    <2>5. CASE ReadId(s)
      <3>1. fingers[s] # -1 /\ PutDown(s)
        BY <2>1, <2>5 DEF ReadId
      <3>2. s \in Down(reported)'
        BY <1>0, <2>1, <3>1 DEF Down, TypeOK
      <3>3. Active(s)' /\ ~Lifting(s)'
        BY <1>0, <2>2, <3>1, PutDownDoes DEF TypeOK
      <3>4. \A c \in Contacts : c # s => SameContact(c)
        BY <1>0, <2>2, <3>1, PutDownDoes DEF TypeOK
      <3>5. QED
        BY <1>0, <2>3, <3>2, <3>3, <3>4 DEF OwnKnown, SameContact
    <2>6. QED
      BY <1>4, <2>4, <2>5
  <1>5. CASE ReadSyn
    <2>1. reported' = reported
      BY <1>5 DEF ReadSyn, ReadSynReport
    <2>2. \A c \in Contacts : (Active(c)' <=> Active(c)) /\ (Lifting(c)' <=> Lifting(c))
      BY <1>0, <1>5, SynDoes DEF TypeOK
    <2>3. QED
      BY <1>0, <2>1, <2>2 DEF OwnKnown, Down
  <1>6. CASE FlushContactEvents
    <2>1. reported' = reported
      BY <1>6, FlushCases DEF frameVars
    <2>2. QED
      BY <1>0, <1>6, <2>1, FlushTakes DEF OwnKnown, Down
  <1>7. QED
    BY <1>1, <1>2, <1>3, <1>4, <1>5, <1>6, StepCases

(* On a snow panel a finger that was reported is the contact of its index, *)
(* and when the last one has gone every contact waits for its lift.        *)
SnowKnown ==
    /\ \A s \in Down(fingers) : ~Due(s) => Active(s)
    /\ Down(fingers) = {} /\ ~touching /\ ~pending_snow_lift =>
           \A c \in Contacts : Active(c) => Lifting(c)

SnowKnownInv == panel.speaks = "snow" /\ "dropped" \notin history => SnowKnown

LEMMA SnowKnownStep == Inv /\ SnowKnownInv /\ [Next]_vars => SnowKnownInv'
  <1> SUFFICES ASSUME Inv, SnowKnownInv, [Next]_vars, panel'.speaks = "snow", "dropped" \notin history'
               PROVE  SnowKnown'
    BY DEF SnowKnownInv
  <1>0. /\ TypeOK /\ FrameInv /\ SnowInv /\ SnowKnown
        /\ panel.speaks = "snow" /\ protocol = "snow" /\ "dropped" \notin history
    BY HistoryGrows DEF Inv, SnowInv, SnowKnownInv
  <1>s. \A s \in Slots : s \in Contacts
    BY SlotFacts
  <1>1. CASE SlotsFrame \/ LoseFrames
    BY <1>0, <1>1 DEF SlotsFrame, LoseFrames
  <1>2. CASE SnowFrame
    <2>1. PICK f \in NewFingers : Down(f) \cup Down(fingers) # {} /\ fingers' = f
      BY <1>2 DEF SnowFrame
    <2>2. reported' = NoFingers /\ touching' = touching /\ Settled
      BY <1>2 DEF SnowFrame
    <2>3. \A s \in Down(fingers)' : Due(s)'
      BY <2>2 DEF Due, Down, NoFingers
    <2>4. Down(fingers)' = Down(f)
      BY <2>1 DEF Down
    <2>5. touching' \/ Down(fingers)' # {}
      BY <1>0, <2>1, <2>2, <2>4, BetweenFrames
    <2>6. QED
      BY <2>3, <2>5 DEF SnowKnown
  <1>3. ASSUME NEW s \in Slots, ReadSlot(s) \/ ReadPosition(s)
        PROVE  SnowKnown'
    <2>1. UNCHANGED <<fingers, reported, touching, pending_snow_lift>>
      BY <1>3 DEF ReadSlot, ReadPosition, ReadOf, Read, panelVars
    <2>2. SameContacts
      BY <1>0, <1>3, PositionDoes DEF ReadSlot, TypeOK, SameContacts, SameContact, Active, Landing, Lifting
    <2>3. QED
      BY <1>0, <1>s, <2>1, <2>2 DEF SnowKnown, Down, Due, SameContacts, SameContact
  <1>4. ASSUME NEW s \in Slots, ReadLift(s)
        PROVE  SnowKnown'
    <2>1. ReportId(s) /\ fingers[s] = -1
      BY <1>4 DEF ReadLift
    <2>2. QED
      BY <1>0, <2>1, SnowReportsNoLift, SlotFacts
  <1>5. ASSUME NEW s \in Slots, ReadId(s)
        PROVE  SnowKnown'
    <2>1. /\ ReportId(s) /\ fingers' = fingers
          /\ reported' = [reported EXCEPT ![s] = fingers[s]]
      BY <1>5 DEF ReadId, ReportId, ReadOf, Read, panelVars
    <2>2. fingers[s] = s /\ s \in Down(fingers) /\ Down(fingers)' = Down(fingers)
      BY <1>0, <2>1, SnowReportsNoLift DEF Down
    <2>3. PutDown(s)
      BY <1>0, <1>5, <2>2 DEF ReadId
    <2>4. Active(s)' /\ \A c \in Contacts : c # s => SameContact(c)
      BY <1>0, <1>s, <2>3, PutDownDoes DEF TypeOK
    <2>5. \A t \in Slots : t # s => (Due(t)' <=> Due(t))
      BY <1>0, <2>1 DEF Due, TypeOK
    <2>6. \A t \in Down(fingers) : ~Due(t)' => Active(t)'
      BY <1>0, <1>s, <2>4, <2>5 DEF SnowKnown, SameContact, Down
    <2>7. QED
      BY <2>2, <2>6 DEF SnowKnown
  <1>6. CASE ReadTouchKey
    <2>1. /\ touching # (Down(fingers) # {}) /\ touching' = ~touching
          /\ pending_snow_lift' = (pending_snow_lift \/ (~touching' /\ protocol = "snow"))
          /\ UNCHANGED <<fingers, reported, contacts>>
      BY <1>6 DEF ReadTouchKey, Read, panelVars
    <2>2. touching' \/ pending_snow_lift'
      BY <1>0, <2>1
    <2>3. QED
      BY <1>0, <2>1, <2>2 DEF SnowKnown, Down, Due, Active, Lifting
  <1>7. CASE ReadSyn
    <2>1. UNCHANGED <<fingers, reported, touching>>
      BY <1>7 DEF ReadSyn, ReadSynReport, Read, panelVars
    <2>2. \A c \in Contacts : /\ Active(c)' <=> Active(c)
                              /\ Lifting(c)' <=> Lifting(c) \/ (pending_snow_lift /\ Active(c))
      BY <1>0, <1>7, SynDoes DEF TypeOK
    <2>3. QED
      BY <1>0, <1>s, <2>1, <2>2 DEF SnowKnown, Down, Due
  <1>8. CASE FlushContactEvents
    <2>1. UNCHANGED <<fingers, reported, touching, pending_snow_lift>>
      BY <1>8, FlushCases DEF panelVars, frameVars
    <2>2. Down(fingers) # {} => \A c \in Contacts : ~Lifting(c)
      BY <1>0 DEF SnowInv
    <2>3. QED
      BY <1>0, <1>8, <1>s, <2>1, <2>2, FlushTakes DEF SnowKnown, Down, Due
  <1>9. CASE PressKey \/ HandleEvent \/ UNCHANGED vars
    <2>1. UNCHANGED <<panelVars, frameVars, decoderVars>>
      BY <1>9 DEF PressKey, HandleEvent, vars
    <2>2. QED
      BY <1>0, <2>1 DEF SnowKnown, Down, Due, Active, Lifting, panelVars, frameVars, decoderVars
  <1>10. QED
    BY <1>1, <1>2, <1>3, <1>4, <1>5, <1>6, <1>7, <1>8, <1>9, StepCases

(* A single finger on a panel of slots that is configured as snow is some  *)
(* contact, the current one, and the slot of the finger was named last.    *)
GuestKnown ==
    /\ \A c \in Contacts : Active(c) => (Down(reported) # {} /\ c = current_slot) \/ Lifting(c)
    /\ \A c \in Contacts : Lifting(c) => Down(reported) = {}
    /\ \A s \in Down(reported) : s = kernel_slot /\ Active(current_slot)
    /\ \A c, d \in Contacts : Active(c) /\ Active(d) => c = d

GuestKnownInv == panel.speaks = "slots" /\ history = {} => GuestKnown

LEMMA GuestKnownStep == Inv /\ GuestKnownInv /\ [Next]_vars => GuestKnownInv'
  <1> SUFFICES ASSUME Inv, GuestKnownInv, [Next]_vars, panel'.speaks = "slots", history' = {}
               PROVE  GuestKnown'
    BY DEF GuestKnownInv
  <1>0. /\ TypeOK /\ FrameInv /\ GuestKnown
        /\ panel.speaks = "slots" /\ ~pending_snow_lift
        /\ AtMostOne(Down(fingers) \cup Down(reported))
        /\ \A c \in Contacts, s \in Slots : Pending(c) => ~Due(s)
    BY HistoryGrows DEF Inv, SlotsInv, SinglyInv, GuestKnownInv
  <1>c. current_slot \in Contacts
    BY <1>0 DEF TypeOK
  <1>1. CASE SlotsFrame \/ ReadTouchKey \/ PressKey \/ HandleEvent \/ UNCHANGED vars
    <2>1. UNCHANGED <<reported, contacts, kernel_slot, current_slot>>
      BY <1>1 DEF SlotsFrame, ReadTouchKey, PressKey, HandleEvent, vars, decoderVars, frameVars
    <2>2. QED
      BY <1>0, <2>1 DEF GuestKnown, Down, Active, Lifting
  <1>2. CASE SnowFrame \/ LoseFrames
    BY <1>0, <1>2 DEF SnowFrame, LoseFrames
  <1>3. ASSUME NEW s \in Slots, ReadSlot(s)
        PROVE  GuestKnown'
    <2>1. /\ s \in unread /\ s # kernel_slot
          /\ UNCHANGED <<reported, contacts>>
      BY <1>0, <1>3 DEF ReadSlot, ReadOf, Named
    <2>2. Down(reported) = {}
      <3>1. s \in Down(fingers) \cup Down(reported)
        BY <1>0, <2>1 DEF FrameInv
      <3>2. \A t \in Down(reported) : t = s /\ t = kernel_slot
        BY <1>0, <3>1 DEF AtMostOne, GuestKnown
      <3>3. QED
        BY <2>1, <3>2
    <2>3. Down(reported)' = {}
      BY <2>1, <2>2 DEF Down
    <2>4. \A c \in Contacts : (Active(c)' <=> Active(c)) /\ (Lifting(c)' <=> Lifting(c))
      BY <2>1 DEF Active, Lifting
    <2>5. QED
      BY <1>0, <2>2, <2>3, <2>4 DEF GuestKnown
  <1>4. ASSUME NEW s \in Slots, ReadPosition(s)
        PROVE  GuestKnown'
    <2>1. UNCHANGED <<reported, kernel_slot, current_slot>>
      BY <1>4 DEF ReadPosition
    <2>2. SameContacts
      BY <1>0, <1>4, PositionDoes DEF TypeOK
    <2>3. QED
      BY <1>0, <1>c, <2>1, <2>2 DEF GuestKnown, Down, SameContacts, SameContact, Active
  <1>5. ASSUME NEW s \in Slots, ReadLift(s)
        PROVE  GuestKnown'
    <2>1. /\ fingers[s] = -1 /\ reported[s] # fingers[s] /\ Lift(current_slot)
          /\ reported' = [reported EXCEPT ![s] = fingers[s]]
      BY <1>5 DEF ReadLift, ReportId
    <2>2. \A c \in Contacts : ~Lifting(c)
      BY <1>0, <2>1 DEF Due, Pending
    <2>3. s \in Down(reported)
      BY <2>1 DEF Down
    <2>4. Down(reported)' = {}
      <3>1. Down(reported)' \subseteq Down(reported) \ {s}
        BY <1>0, <2>1 DEF Down, TypeOK
      <3>2. QED
        BY <1>0, <2>3, <3>1 DEF AtMostOne
    <2>5. \A c \in Contacts : Active(c)' <=> Active(c)
      BY <1>0, <1>c, <2>1, LiftDoes DEF TypeOK, SameContact
    <2>6. \A c \in Contacts : c = current_slot /\ Active(c) => Lifting(c)'
      BY <1>0, <2>1, LiftDoes DEF TypeOK
    <2>7. \A c \in Contacts : Active(c) => c = current_slot
      BY <1>0, <2>2 DEF GuestKnown
    <2>8. \A c \in Contacts : Active(c)' => Lifting(c)'
      BY <2>5, <2>6, <2>7
    <2>9. QED
      BY <1>0, <2>4, <2>5, <2>8 DEF GuestKnown
  <1>6. ASSUME NEW s \in Slots, ReadId(s)
        PROVE  GuestKnown'
    <2>1. /\ fingers[s] # -1 /\ reported[s] # fingers[s] /\ PutDown(current_slot')
          /\ reported' = [reported EXCEPT ![s] = fingers[s]]
          /\ s = kernel_slot /\ kernel_slot' = kernel_slot
      BY <1>0, <1>6 DEF ReadId, ReportId, Named
    <2>2. current_slot' \in Contacts
      BY <1>0, <1>6 DEF ReadId, TypeOK, Ids
    <2>3. \A c \in Contacts : ~Lifting(c)
      BY <1>0, <2>1 DEF Due, Pending
    <2>4. Down(reported) = {}
      <3>1. reported[s] = -1 /\ s \in Down(fingers)
        BY <1>0, <2>1 DEF FrameInv, Due, Down
      <3>2. \A t \in Down(reported) : t = s
        BY <1>0, <3>1 DEF AtMostOne
      <3>3. s \notin Down(reported)
        BY <3>1 DEF Down
      <3>4. QED
        BY <3>2, <3>3
    <2>5. \A c \in Contacts : ~Active(c)
      BY <1>0, <2>3, <2>4 DEF GuestKnown
    <2>6. Down(reported)' = {s}
      BY <1>0, <2>1, <2>4 DEF Down, TypeOK
    <2>7. Active(current_slot)' /\ \A c \in Contacts : ~Lifting(c)'
      BY <1>0, <2>1, <2>2, <2>3, PutDownDoes DEF TypeOK, SameContact, Active
    <2>8. \A c \in Contacts : Active(c)' => c = current_slot'
      BY <1>0, <2>1, <2>2, <2>5, PutDownDoes DEF TypeOK, SameContact
    <2>9. QED
      BY <2>1, <2>6, <2>7, <2>8 DEF GuestKnown
  <1>7. CASE ReadSyn
    <2>1. UNCHANGED <<reported, kernel_slot, current_slot>>
      BY <1>7 DEF ReadSyn, ReadSynReport
    <2>2. \A c \in Contacts : (Active(c)' <=> Active(c)) /\ (Lifting(c)' <=> Lifting(c))
      BY <1>0, <1>7, SynDoes DEF TypeOK
    <2>3. QED
      BY <1>0, <1>c, <2>1, <2>2 DEF GuestKnown, Down, Active
  <1>8. CASE FlushContactEvents
    <2>1. UNCHANGED <<reported, kernel_slot, current_slot>>
      BY <1>8, FlushCases DEF frameVars
    <2>2. \A c \in Contacts :
             /\ Lifting(c)' => Lifting(c)
             /\ Active(c)' => Active(c)
             /\ Active(c) => Active(c)' \/ Lifting(c)
             /\ Active(c)' /\ Lifting(c) => Lifting(c)'
      BY <1>0, <1>8, FlushTakes
    <2>3. Down(reported)' = Down(reported)
      BY <2>1 DEF Down
    <2>4. Down(reported) # {} => Active(current_slot)'
      BY <1>0, <1>c, <2>1, <2>2 DEF GuestKnown, Active
    <2>5. QED
      BY <1>0, <2>1, <2>2, <2>3, <2>4 DEF GuestKnown
  <1>9. QED
    BY <1>1, <1>2, <1>3, <1>4, <1>5, <1>6, <1>7, <1>8, StepCases

KnownInv == Inv /\ OwnKnownInv /\ SnowKnownInv /\ GuestKnownInv

LEMMA InitKnown == Init => KnownInv
  <1> SUFFICES ASSUME Init
               PROVE  OwnKnownInv /\ SnowKnownInv /\ GuestKnownInv
    BY InitInv DEF KnownInv
  <1>1. OwnKnown /\ SnowKnown /\ GuestKnown
    BY NobodyTouches DEF OwnKnown, SnowKnown, GuestKnown, Pending
  <1>2. QED
    BY <1>1 DEF OwnKnownInv, SnowKnownInv, GuestKnownInv

(* What the main loop holds down once everything is handed over.           *)
LEMMA OpenIsActive ==
    ASSUME Inv, Settled, ~Misled
    PROVE  \A c \in Contacts : c \in open <=> Active(c)
  BY BetweenFrames DEF Inv, ContactInv, ContactOK, Pending

LEMMA KnownWhenSettled == KnownInv => FingersAreKnown
  <1> SUFFICES ASSUME KnownInv, Settled, "dropped" \notin history
               PROVE  CASE panel.speaks = "snow" -> Down(fingers) \subseteq open /\ (Down(fingers) = {} => open = {})
                        [] panel.configured = "standard_multitouch" -> open = Down(fingers)
                        [] OTHER -> "crowded" \notin history => Cardinality(open) = Cardinality(Down(fingers))
    BY DEF FingersAreKnown
  <1>0. /\ Inv /\ TypeOK /\ FrameInv
        /\ open \subseteq Contacts /\ Down(fingers) \subseteq Contacts
        /\ \A s \in Slots : ~Due(s)
        /\ Down(reported) = Down(fingers) /\ (touching <=> Down(fingers) # {})
        /\ ~pending_snow_lift
        /\ \A c \in Contacts : ~Pending(c)
    BY BetweenFrames, SlotFacts DEF KnownInv, Inv, TypeOK, Stream!StreamTypeOK, Due, Down
  <1>1. CASE panel.speaks = "snow"
    <2>1. \A c \in Contacts : c \in open <=> Active(c)
      BY <1>0, <1>1, SeparateNotMisled, OpenIsActive
    <2>2. SnowKnown
      BY <1>1 DEF KnownInv, SnowKnownInv
    <2>3. Down(fingers) \subseteq open
      BY <1>0, <2>1, <2>2 DEF SnowKnown, Down
    <2>4. Down(fingers) = {} => open = {}
      BY <1>0, <2>1, <2>2 DEF SnowKnown, Pending
    <2>5. ~Standard
      BY <1>0, <1>1, StandardSpeaksSlots
    <2>6. QED
      BY <1>1, <2>3, <2>4, <2>5 DEF Standard
  <1>2. CASE Standard
    <2>1. \A c \in Contacts : c \in open <=> Active(c)
      BY <1>0, <1>2, SeparateNotMisled, OpenIsActive
    <2>2. OwnKnown
      BY <1>2 DEF KnownInv, OwnKnownInv
    <2>3. open = Down(fingers)
      BY <1>0, <2>1, <2>2 DEF OwnKnown, Pending
    <2>4. panel.speaks = "slots"
      BY <1>0, <1>2, StandardSpeaksSlots
    <2>5. QED
      BY <1>2, <2>3, <2>4 DEF Standard
  <1>3. CASE panel.speaks = "slots" /\ "crowded" \notin history
    <2>1. \A c \in Contacts : c \in open <=> Active(c)
      BY <1>0, <1>3, SeparateNotMisled, OpenIsActive
    <2>2. history = {}
      BY <1>0, <1>3 DEF TypeOK
    <2>3. GuestKnown /\ AtMostOne(Down(fingers))
      BY <1>0, <1>3, <2>2 DEF KnownInv, GuestKnownInv, Inv, SinglyInv, AtMostOne
    <2>4. CASE Down(fingers) = {}
      <3>1. open = {}
        BY <1>0, <2>1, <2>3, <2>4 DEF GuestKnown, Pending
      <3>2. QED
        BY <1>2, <1>3, <2>4, <3>1 DEF Standard
    <2>5. CASE Down(fingers) # {}
      <3>1. PICK s \in Down(fingers) : Down(fingers) = {s}
        BY <2>3, <2>5 DEF AtMostOne
      <3>2. current_slot \in Contacts /\ Active(current_slot)
        BY <1>0, <2>3, <3>1 DEF GuestKnown, TypeOK
      <3>3. open = {current_slot}
        BY <1>0, <2>1, <2>3, <3>2 DEF GuestKnown
      <3>4. Cardinality(open) = Cardinality(Down(fingers))
        BY <3>1, <3>3, FS_Singleton
      <3>5. QED
        BY <1>2, <1>3, <3>4 DEF Standard
    <2>6. QED
      BY <2>4, <2>5
  <1>4. panel.speaks \in {"slots", "snow"}
    BY <1>0 DEF TypeOK, Panels
  <1>5. CASE panel.speaks = "slots" /\ ~Standard /\ "crowded" \in history
    BY <1>5 DEF Standard
  <1>6. QED
    BY <1>1, <1>2, <1>3, <1>4, <1>5

(* As long as no frame is lost, the main loop knows the fingers on the     *)
(* panel whenever everything read has been handed over: for any number of  *)
(* slots, on all three combinations of panel and configuration.            *)
THEOREM FingersKnown == Spec => []FingersAreKnown
  <1>1. KnownInv /\ [Next]_vars => KnownInv'
    BY InvStep, OwnKnownStep, SnowKnownStep, GuestKnownStep DEF KnownInv
  <1>2. QED
    BY <1>1, InitKnown, KnownWhenSettled, PTL DEF Spec

(***************************************************************************)
(* TouchMap: for panels and screens of any size, touches are on the screen,*)
(* and a panel that is fine enough reaches every pixel of it.              *)
(***************************************************************************)

(* A quotient lies between the bounds of its products.                     *)
LEMMA Quotient ==
  ASSUME NEW a \in Nat, NEW b \in Nat \ {0}
  PROVE  /\ a \div b \in Nat
         /\ (a \div b) * b <= a
         /\ a < (a \div b) * b + b
  OBVIOUS

(* What is at most a fraction's denominator scales to at most the maximum. *)
LEMMA ScaledWithin ==
  ASSUME NEW v \in Nat, NEW m \in Nat, NEW r \in Nat \ {0}, v <= r
  PROVE  (v * m) \div r \in 0..m
  <1> DEFINE q == (v * m) \div r
  <1>1. v * m \in Nat /\ v * m <= r * m
    OBVIOUS
  <1>2. q \in Nat /\ q * r <= v * m
    BY <1>1, Quotient
  <1>3. q * r <= m * r
    BY <1>1, <1>2
  <1>4. q <= m
    BY <1>2, <1>3
  <1>5. QED
    BY <1>2, <1>4

(* A scale that has at least m steps hits each of 0..m: where the fraction *)
(* reaches p first, it has not yet reached p + 1.                          *)
LEMMA ScaleReaches ==
  ASSUME NEW m \in Nat \ {0}, NEW r \in Nat \ {0}, m <= r, NEW p \in 0..m
  PROVE  \E v \in 0..r : (v * m) \div r = p
  <1> DEFINE v == (p * r + (m - 1)) \div m
  <1>1. p \in Nat /\ p * r \in Nat /\ m - 1 \in Nat
    OBVIOUS
  <1>2. /\ v \in Nat
        /\ v * m <= p * r + (m - 1)
        /\ p * r <= v * m
    BY <1>1, Quotient
  <1>3. v <= r
    <2>1. v * m <= m * r + (m - 1)
      BY <1>1, <1>2
    <2>2. v >= r + 1 => v * m >= m * r + m
      BY <1>2
    <2>3. QED
      BY <1>2, <2>1, <2>2
  <1> HIDE DEF v
  <1>4. (v * m) \div r = p
    <2> DEFINE q == (v * m) \div r
    <2>1. v * m \in Nat /\ q \in Nat /\ q * r <= v * m /\ v * m < q * r + r
      BY <1>2, Quotient
    <2>2. v * m < p * r + r
      BY <1>1, <1>2
    <2> HIDE DEF q
    <2>3. q * r < (p + 1) * r /\ p * r < (q + 1) * r
      BY <1>1, <1>2, <2>1, <2>2
    <2>4. q < p + 1 /\ p < q + 1
      BY <1>1, <2>1, <2>3
    <2>5. QED
      BY <1>1, <2>1, <2>4 DEF q
  <1>5. QED
    BY <1>2, <1>3, <1>4

-----------------------------------------------------------------------------
(* One axis: whatever the driver reports, the result is in range.          *)
LEMMA NormalizedWithin ==
  ASSUME NEW value \in Int, NEW low \in Int, NEW high \in Int, NEW m \in Nat
  PROVE  NormalizeAxis(value, low, high, m) \in 0..m
  <1>1. CASE m = 0
    BY <1>1 DEF NormalizeAxis
  <1>2. CASE m # 0 /\ high <= low
    BY <1>2 DEF NormalizeAxis, Clamp
  <1>3. CASE m # 0 /\ high > low
    <2> DEFINE v == Clamp(value, low, high) - low
               r == high - low
    <2>1. v \in Nat /\ r \in Nat \ {0} /\ v <= r
      BY <1>3 DEF Clamp
    <2>2. NormalizeAxis(value, low, high, m) = (v * m) \div r
      BY <1>3 DEF NormalizeAxis
    <2> HIDE DEF v, r
    <2>3. QED
      BY <2>1, <2>2, ScaledWithin
  <1>4. QED
    BY <1>1, <1>2, <1>3

(* And every result is reached from a value in range.                      *)
LEMMA NormalizedReaches ==
  ASSUME NEW low \in Int, NEW high \in Int, NEW m \in Nat, m <= high - low, NEW p \in 0..m
  PROVE  \E value \in low..high : NormalizeAxis(value, low, high, m) = p
  <1>1. CASE m = 0
    <2>1. low \in low..high /\ NormalizeAxis(low, low, high, m) = p
      BY <1>1 DEF NormalizeAxis
    <2>2. QED
      BY <2>1
  <1>2. CASE m # 0
    <2> DEFINE r == high - low
    <2>1. r \in Nat \ {0} /\ m <= r /\ m \in Nat \ {0}
      BY <1>2
    <2>2. PICK v \in 0..r : (v * m) \div r = p
      BY <2>1, ScaleReaches
    <2>3. low + v \in low..high /\ Clamp(low + v, low, high) - low = v
      BY <2>2 DEF Clamp
    <2>4. NormalizeAxis(low + v, low, high, m) = ((Clamp(low + v, low, high) - low) * m) \div r
      BY <1>2, <2>1 DEF NormalizeAxis
    <2> HIDE DEF r
    <2>5. NormalizeAxis(low + v, low, high, m) = p
      BY <2>2, <2>3, <2>4
    <2>6. QED
      BY <2>3, <2>5
  <1>3. QED
    BY <1>1, <1>2

(* Exchanging the axes exchanges what they are scaled to, and mirroring    *)
(* maps the screen to itself.                                              *)
LEMMA MappedPoint ==
  ASSUME NEW d \in Devices, NEW s \in Screens, NEW raw_x \in Int, NEW raw_y \in Int,
         NEW x, NEW y,
         IF ShouldSwapAxes(d, s)
           THEN /\ x = NormalizeAxis(raw_y, d.y_min, d.y_max, s.width - 1)
                /\ y = NormalizeAxis(raw_x, d.x_min, d.x_max, s.height - 1)
           ELSE /\ x = NormalizeAxis(raw_x, d.x_min, d.x_max, s.width - 1)
                /\ y = NormalizeAxis(raw_y, d.y_min, d.y_max, s.height - 1)
  PROVE  MapTouchPoint(d, s, raw_x, raw_y) =
           [x |-> IF d.mirror_x THEN s.width - 1 - x ELSE x,
            y |-> IF d.mirror_y THEN s.height - 1 - y ELSE y]
  <1>1. CASE ShouldSwapAxes(d, s)
    BY <1>1 DEF MapTouchPoint
  <1>2. CASE ~ShouldSwapAxes(d, s)
    BY <1>2 DEF MapTouchPoint
  <1>3. QED
    BY <1>1, <1>2

LEMMA Ranges ==
  ASSUME NEW d \in Devices, NEW s \in Screens
  PROVE  /\ d.x_min \in Int /\ d.x_max \in Int /\ d.y_min \in Int /\ d.y_max \in Int
         /\ d.mirror_x \in BOOLEAN /\ d.mirror_y \in BOOLEAN
         /\ s.width - 1 \in Nat /\ s.height - 1 \in Nat
  BY DevicesAssumption, ScreensAssumption

(* Touches are on the screen, for every panel, screen and driver.          *)
THEOREM TouchLandsOnScreen == TouchesOnScreen
  <1> SUFFICES ASSUME NEW d \in Devices, NEW s \in Screens, NEW raw_x \in RawValues, NEW raw_y \in RawValues
               PROVE  MapTouchPoint(d, s, raw_x, raw_y) \in [x : 0..(s.width - 1), y : 0..(s.height - 1)]
    BY DEF TouchesOnScreen
  <1>1. raw_x \in Int /\ raw_y \in Int
    BY RawAssumption
  <1>2. \E x \in 0..(s.width - 1), y \in 0..(s.height - 1) :
          MapTouchPoint(d, s, raw_x, raw_y) =
            [x |-> IF d.mirror_x THEN s.width - 1 - x ELSE x,
             y |-> IF d.mirror_y THEN s.height - 1 - y ELSE y]
    <2>1. CASE ShouldSwapAxes(d, s)
      <3>1. /\ NormalizeAxis(raw_y, d.y_min, d.y_max, s.width - 1) \in 0..(s.width - 1)
            /\ NormalizeAxis(raw_x, d.x_min, d.x_max, s.height - 1) \in 0..(s.height - 1)
        BY <1>1, Ranges, NormalizedWithin
      <3>2. QED
        BY <1>1, <2>1, <3>1, MappedPoint
    <2>2. CASE ~ShouldSwapAxes(d, s)
      <3>1. /\ NormalizeAxis(raw_x, d.x_min, d.x_max, s.width - 1) \in 0..(s.width - 1)
            /\ NormalizeAxis(raw_y, d.y_min, d.y_max, s.height - 1) \in 0..(s.height - 1)
        BY <1>1, Ranges, NormalizedWithin
      <3>2. QED
        BY <1>1, <2>2, <3>1, MappedPoint
    <2>3. QED
      BY <2>1, <2>2
  <1>3. QED
    BY <1>2, Ranges

(* A panel no coarser than the screen reaches all of it: the point that is *)
(* mirrored back is reached on either axis, from the range of that axis.   *)
THEOREM NoPixelOutOfReach == EveryPixelReachable
  <1> SUFFICES ASSUME NEW d \in Devices, NEW s \in Screens, FineEnough(d, s),
                      NEW x \in 0..(s.width - 1), NEW y \in 0..(s.height - 1)
               PROVE  \E raw_x \in d.x_min..d.x_max, raw_y \in d.y_min..d.y_max :
                        MapTouchPoint(d, s, raw_x, raw_y) = [x |-> x, y |-> y]
    BY DEF EveryPixelReachable
  <1> DEFINE px == IF d.mirror_x THEN s.width - 1 - x ELSE x
             py == IF d.mirror_y THEN s.height - 1 - y ELSE y
  <1>1. /\ px \in 0..(s.width - 1) /\ (IF d.mirror_x THEN s.width - 1 - px ELSE px) = x
        /\ py \in 0..(s.height - 1) /\ (IF d.mirror_y THEN s.height - 1 - py ELSE py) = y
    BY Ranges
  <1> HIDE DEF px, py
  <1>2. \E raw_x \in d.x_min..d.x_max, raw_y \in d.y_min..d.y_max :
          IF ShouldSwapAxes(d, s)
            THEN /\ px = NormalizeAxis(raw_y, d.y_min, d.y_max, s.width - 1)
                 /\ py = NormalizeAxis(raw_x, d.x_min, d.x_max, s.height - 1)
            ELSE /\ px = NormalizeAxis(raw_x, d.x_min, d.x_max, s.width - 1)
                 /\ py = NormalizeAxis(raw_y, d.y_min, d.y_max, s.height - 1)
    <2>1. CASE ShouldSwapAxes(d, s)
      <3>1. s.height - 1 <= d.x_max - d.x_min /\ s.width - 1 <= d.y_max - d.y_min
        BY <2>1, Ranges DEF FineEnough
      <3>2. /\ \E raw_y \in d.y_min..d.y_max : NormalizeAxis(raw_y, d.y_min, d.y_max, s.width - 1) = px
            /\ \E raw_x \in d.x_min..d.x_max : NormalizeAxis(raw_x, d.x_min, d.x_max, s.height - 1) = py
        BY <1>1, <3>1, Ranges, NormalizedReaches
      <3>3. QED
        BY <2>1, <3>2
    <2>2. CASE ~ShouldSwapAxes(d, s)
      <3>1. s.width - 1 <= d.x_max - d.x_min /\ s.height - 1 <= d.y_max - d.y_min
        BY <2>2, Ranges DEF FineEnough
      <3>2. /\ \E raw_x \in d.x_min..d.x_max : NormalizeAxis(raw_x, d.x_min, d.x_max, s.width - 1) = px
            /\ \E raw_y \in d.y_min..d.y_max : NormalizeAxis(raw_y, d.y_min, d.y_max, s.height - 1) = py
        BY <1>1, <3>1, Ranges, NormalizedReaches
      <3>3. QED
        BY <2>2, <3>2
    <2>3. QED
      BY <2>1, <2>2
  <1>3. PICK raw_x \in d.x_min..d.x_max, raw_y \in d.y_min..d.y_max :
          IF ShouldSwapAxes(d, s)
            THEN /\ px = NormalizeAxis(raw_y, d.y_min, d.y_max, s.width - 1)
                 /\ py = NormalizeAxis(raw_x, d.x_min, d.x_max, s.height - 1)
            ELSE /\ px = NormalizeAxis(raw_x, d.x_min, d.x_max, s.width - 1)
                 /\ py = NormalizeAxis(raw_y, d.y_min, d.y_max, s.height - 1)
    BY <1>2
  <1>4. MapTouchPoint(d, s, raw_x, raw_y) =
          [x |-> IF d.mirror_x THEN s.width - 1 - px ELSE px,
           y |-> IF d.mirror_y THEN s.height - 1 - py ELSE py]
    <2>1. CASE ShouldSwapAxes(d, s)
      BY <1>3, <2>1 DEF MapTouchPoint
    <2>2. CASE ~ShouldSwapAxes(d, s)
      BY <1>3, <2>2 DEF MapTouchPoint
    <2>3. QED
      BY <2>1, <2>2
  <1>5. QED
    BY <1>1, <1>4
=============================================================================
