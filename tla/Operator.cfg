SPECIFICATION Spec
CONSTANTS
    Plans <- Scenarios
    Callers <- Callees
    Asked <- Commands
    Images = {"base", "other"}
    RockyBase = "base"
    Defaults <- Roles
    Specs <- Tomls
INVARIANTS
    
    SeededRolesHold
    ToolchainsOnPath
CHECK_DEADLOCK FALSE
