CONSTANTS
    Releases = {{"LGTV_MAC"}, {"LGTV_MAC", "other"}}
    LegacyUnits = {}
    Unnoticed = {"session", "tree"}
SPECIFICATION ISpec
INVARIANTS ITypeOK EnabledHasFile InstallIsWhole UninstallLeavesNothing SettingsCarried UpdateLosesNothing
