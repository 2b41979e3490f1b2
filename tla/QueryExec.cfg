\* Every filter and projection of a small vocabulary, every page of small collections.
CONSTANTS
    KeyOrder <- MCKeyOrder
    Nesting <- MCNesting
    Depth = 6
    Split <- MCSplit
    Operator <- MCOperator
    Atoi <- MCAtoi
    Regex <- MCRegex
    Queries <- MCQueries
    IntMax = 15
    FilterOf <- MCFilterOf
    Passes <- MCPasses
    Meant <- MCMeant
    ProjectionOf <- MCProjectionOf
    Projected <- MCProjected
    KeyOf <- MCKeyOf
SPECIFICATION Spec
INVARIANTS PageIsReference HeapHoldsBest SortKeysAreOrdered FilterMeansWhatItSays ProjectionReturnsWanted
