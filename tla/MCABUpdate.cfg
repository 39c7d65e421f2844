\* Two requests at a time, and everything that can go wrong.
SPECIFICATION FairSpec
CONSTANTS
    o1 = o1
    o2 = o2
    Ops <- TwoOps
INVARIANTS
    TypeOK
    SomeGoodSlot
    BadBootIsTrial
PROPERTIES
    MarkConfirmsBooted
    BadSlotAbandoned
