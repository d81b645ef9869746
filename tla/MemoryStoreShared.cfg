SPECIFICATION Spec
CONSTANTS
    i1 = i1
    i2 = i2
    i3 = i3
    s1 = s1
    s2 = s2
    main = main
    other = other
    Ids <- TwoIds
    Slots <- TwoSlots
    Slot <- SlotOf
    Procs <- Both
    Writers <- Alone
    Splits = {}
    MaxCrashes = 1
    MaxBreaks = 1
INVARIANTS IndexKnown KeptWhileIntact
PROPERTIES ImplementsMemoryLog
