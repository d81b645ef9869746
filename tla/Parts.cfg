SPECIFICATION PartsSpec
CONSTANTS
    a1 = a1
    r1 = r1
    r2 = r2
    i1 = i1
    i2 = i2
    o1 = o1
    focus = focus
    gateway = gateway
    reader1 = reader1
    reader2 = reader2
    a2 = a2
    w1 = w1
    w2 = w2
    t1 = t1
    p1 = p1
    s1 = s1
    create1 = create1
    rename1 = rename1
    rename2 = rename2
    delete1 = delete1
    repair1 = repair1
    m1 = m1
    f1 = f1
    None = None
    Terminal = Terminal
    Agents <- OneAgent
    Runs <- TwoRuns
    Asks <- OneAsk
    Offices <- OneOffice
    ToolClasses <- NoClass
    MaxTerminal = 1
    MaxCalls = 2
    Attempts = 2
    MaxRetries = 1
    NoClient = NoClient
    Fields <- SomeFields
    Whole <- FocusOnly
    Nodes <- GatewayNode
    Gateway <- GatewayFields
    GatewayUrl <- Url
    GatewayToken <- Token
    LocalDefaults <- AnyDefaults
    Shapes <- PatchShapes
    Readers <- TwoReaders
    Forcing <- OneForcing
    MaxPatches = 2
    Keep = Keep
    Nobody = Nobody
    NoSettings = NoSettings
    Approvals <- TwoAsks
    MaxRuns = 3
    NoRun = NoRun
    Unset = Unset
    Workers <- TwoWorkers
    Listed <- TwoAgents
    Temps <- OneTemp
    Patterns <- OnePattern
    Groups <- TwoGroups
    Skills <- OneSkill
    Jobs <- SomeJobs
    MaxJobs = 2
    NoMutation = NoMutation
    Mutations <- SomeMutations
    Kind <- KindOf
    Target <- TargetOf
    ScheduledJobs <- NoJobs
    Owner <- NoOwner
    MaxDrops = 0
    Typed <- OneTyped
    Elsewhere <- OneElsewhere
    Says <- SomeTexts
    HistoryLimit = 9
    HistoryCalls <- TwoCalls
    MaxFresh = 1
    MaxBreaks = 0
    Nothing = Nothing
    win1 = win1
    win2 = win2
    old1 = old1
    made1 = made1
    heard1 = heard1
    Windows <- TwoWindows
    Old <- OneOld
    Made <- OneMade
    Heard <- OneHeard
    Statuses <- TwoStatuses
    StoreLimit = 2
    MaxChanges = 2
    MaxResends = 0
    MaxMishaps = 1
    MaxDamages = 1
    NoCard = NoCard
INVARIANTS
    PartsTypeOK
    FinalOfOwnTurn AnnouncedIsOutcome ApprovalShown
    OneConnection RetryArmed
     ForcedIsFresh
    OneFollowUpPerPause
    FinishedAsAsked
    BlockFits
PROPERTIES  OthersKept AnswersMerged NoGhosts TasksKept
CHECK_DEADLOCK FALSE
