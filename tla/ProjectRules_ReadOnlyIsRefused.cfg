SPECIFICATION ProjectSpec
CONSTANTS
    Modules = {1, 2, 3}
    Base = 1
    Rules <- TheRules
    RolesOf <- TheRoles
    MaxAssignments = 3
    Routings = {"router", "function"}
    ApiHabits = {}
    MaxDeclarations = 3
    Listings <- TheListings
    MaxParts = 3
    MaxWritten = 3
    SettingsFiles = {1, 2, 3}
    SharedFile = 1
    Development = {2}
    Levers = {"A", "B"}
    Assignments <- TheAssignments
    MaxWiring = 3
    WiringHabits = {}
INVARIANT
    ReadOnlyIsRefused
CHECK_DEADLOCK FALSE
