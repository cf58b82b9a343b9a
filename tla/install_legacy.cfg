CONSTANTS
    Releases = {{"both"}}
    LegacyUnits = {"lgtvpc-monitor", "lgpowercontrol-resume"}
    Unnoticed = {}
SPECIFICATION ISpec
INVARIANTS LegacyStopped
