SPECIFICATION PartSpec
CONSTANTS
    Devices = {1, 2}
    Infos = {1, 2, 3}
    MaxEvents = 3
    Restarters = {"r1"}
    MaxChanges = 4
    Addresses = {a1, a2}
    Levels = {1, 2}
    MaxAds = 3
    MaxKeys = 1
    SettingNames = {"animation", "logLevel"}
    Values = {"on", "error"}
    ValidLevels = {"info", "error"}
    MaxSaves = 2
    Percentages = {0, 70}
    MaxSignals = 6
    NoValue = NoValue
    Tested <- Preferences
INVARIANTS
    PairedListed TeardownQuiet ActiveTrue
    ScanFollows AnimationTrue SettingsKept BatteryTrue PreferenceApplied
CHECK_DEADLOCK FALSE
