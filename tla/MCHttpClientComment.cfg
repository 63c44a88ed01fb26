CONSTANT Responses <- MCResponses
SPECIFICATION HttpSpec
INVARIANT BlankLineEndsHeaders
