CONSTANTS
    Slots <- TwoSlots
    Contacts <- ThreeIds
    Devices <- SomePanels
    Screens <- SomeScreens
    RawValues <- SomeValues
SPECIFICATION Spec
INVARIANTS
    TypeOK
    FingersAreKnown
PROPERTIES
    EmitsStream
