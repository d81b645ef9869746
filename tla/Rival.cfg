SPECIFICATION RivalSpec
CONSTANTS
    i1 = i1
    i2 = i2
    i3 = i3
    s1 = s1
    s2 = s2
    main = main
    other = other
    Ids <- TwoIds
    Slots <- TwoSlots
    Slot <- SlotOf
    Procs <- Both
    Writers <- Both
    Splits = {i1}
    MaxCrashes = 1
    MaxBreaks = 1
    pid1 = pid1
    pid2 = pid2
    Commands <- TwoCommands
    MaxCommands = 3
    MaxMisreads = 1
    lead = lead
    member = member
    send1 = send1
    send2 = send2
    task1 = task1
    id1 = id1
    id2 = id2
    NoTurn = NoTurn
    Agents <- LeadAndMember
    Orchestrator = lead
    Sends <- TwoSends
    Delegations <- OneDelegation
    RunIds <- TwoRunIds
    MaxRounds = 2
    MaxClears = 1
    MaxUnsaved = 1
    MaxRestarts = 1
INVARIANTS NoDuplicates LegacyKept HistoryIsWhatWasAnswered
PROPERTIES RegisteredStays
CHECK_DEADLOCK FALSE
