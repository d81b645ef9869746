SPECIFICATION LiveSpec
CONSTANTS
    a1 = a1
    r1 = r1
    i1 = i1
    o1 = o1
    c1 = c1
    c2 = c2
    rename1 = rename1
    delete1 = delete1
    j1 = j1
    f1 = f1
    win1 = win1
    win2 = win2
    task1 = task1
    None = None
    NoRequest = NoRequest
    Terminal = Terminal
    Office = o1
    Agents <- OneAgent
    Runs <- OneRun
    Asks <- OneAsk
    Offices <- OneOffice
    Connects <- TwoConnects
    ToolClasses <- NoClass
    MaxTerminal = 0
    NoMutation = NoMutation
    Mutations <- TwoMutations
    Kind <- KindOf
    Target <- TargetOf
    ScheduledJobs <- OneJob
    Owner <- OwnerOf
    MaxDrops = 1
    Typed <- NoneTyped
    Elsewhere <- OneElsewhere
    Says <- SomeTexts
    HistoryLimit = 9
    HistoryCalls <- OneCall
    MaxFresh = 0
    MaxBreaks = 1
    Nothing = Nothing
    Windows <- TwoWindows
    Old <- NoTask
    Made <- NoTask
    Heard <- OneTask
    Statuses <- TwoStatuses
    StoreLimit = 1
    MaxChanges = 2
    MaxResends = 1
    MaxMishaps = 1
    MaxDamages = 0
    NoCard = NoCard
INVARIANTS OneConnectAnswer NoDeafOffice DeletedOrWhole
PROPERTIES ConnectSettles AskedIsEnded HistorySettles BoardsAgree
CHECK_DEADLOCK FALSE
