CONSTANTS
    Installed = {"monitor", "notify"}
    Callers = {"user", "root"}
SPECIFICATION ASpec
INVARIANTS ATypeOK CardAsAsked StatusAnswered LogHeeded
PROPERTIES GoodKeyKept
