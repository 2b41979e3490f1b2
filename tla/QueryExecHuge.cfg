\* A skip and a limit near the largest int.
CONSTANTS
    KeyOrder <- MCKeyOrder
    Nesting <- MCNesting
    Depth = 6
    Split <- MCSplit
    Operator <- MCOperator
    Atoi <- MCAtoi
    Regex <- MCRegex
    Queries <- MCHuge
    IntMax = 7
    FilterOf <- MCFilterOf
    Passes <- MCPasses
    Meant <- MCMeant
    ProjectionOf <- MCProjectionOf
    Projected <- MCProjected
    KeyOf <- MCKeyOf
SPECIFICATION Spec
INVARIANT AlwaysAnswered
