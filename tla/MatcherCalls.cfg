\* Two goroutines that make matchers, each matching inputs on both sides of
\* the limit of pooled buffers.
CONSTANTS
    Callers = {"a", "b"}
    Requests <- MCRequests
    MaxCalls <- MCMaxCalls
    MaxTokens = 3
    TokenCap = 2
    Arrays = {1, 2, 3, 4, 5, 6, 7, 8, 9, 10, 11, 12}
SPECIFICATION Spec
INVARIANTS
    OneEngine
    BuffersOwned
