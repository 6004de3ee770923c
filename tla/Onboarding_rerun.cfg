\* Two releases, two mishaps; what each account does is in MCInstallation.
CONSTANTS
    MaxEdits = 1
    MaxTools = 2
    MaxReleases = 2
    MaxMishaps = 2
    Accounts <- MCAccounts
SPECIFICATION AccountSpec
INVARIANTS
    SettingsKept
    
    RunnableByName
    ShellTextKept
    RemovedIsGone
    OnboardedRuns
CHECK_DEADLOCK FALSE
