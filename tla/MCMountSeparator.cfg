SPECIFICATION Spec
CONSTANTS
    Images <- MCImages
    Options <- MCOptions
    Handles = {h1, h2}
    Paths <- MCPaths
    Others = {"a", "b", "61"}
    Names = {"p", "qq"}
    Sizes = {0, 1, 2, 5}
    MaxInt = 5
INVARIANT ListedNamesResolve
CHECK_DEADLOCK FALSE
