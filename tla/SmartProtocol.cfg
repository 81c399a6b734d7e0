\* One connection: both service names and an unknown one, a known and an
\* unknown capability token, the root name set or not.
CONSTANTS
    Paths <- MCPaths
    RootNames <- MCRootNames
    ServiceNames <- MCServiceNames
    Tokens <- MCTokens
    Unset = Unset
    Slash = "/"
    MaxTokens = 2
SPECIFICATION Spec
INVARIANT PushOnlyWhenRequested
CHECK_DEADLOCK FALSE
