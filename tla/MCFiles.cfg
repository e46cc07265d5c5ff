SPECIFICATION AllSpec
CONSTANTS
    Images <- MCImages
    Options <- MCOptions
    Handles = {h1, h2}
    Paths <- MCPaths
    Others = {"a", "b", "61"}
    Names = {"p", "qq"}
    Sizes = {0, 1, 2, 5}
    MaxInt = 5
    Disks <- MCDisks
    EntryNames <- MCNames
    MaxIndex = 2
    t1 = t1
    Volumes <- AllVolumes
    Identifiers <- AllIdentifiers
    Parents = {2}
    TreePaths <- AllPaths
    Chars <- AllChars
    Separator = 1
    Folded <- FoldedChars
    Decomposed <- DecomposedChars
    Utf8Size <- SizesOfChars
    HashOf <- SmallHash
    MaxIdentifier <- LargestIdentifier
    RecursionLimit = 2
INVARIANTS
    EntriesAreHeld
    PlainNamesResolve
    AnswersAreRight
    ErrorsHaveCauses
    ValuesAreWhole
    AnswersDoNotDependOnHistory
    AttributeIsTheOneAskedFor
    LookupsAreExact
    PathsLeadNowhereElse
    EncodingIsRight
\* The program ends when it cannot mount the volume or is told to.
CHECK_DEADLOCK FALSE
