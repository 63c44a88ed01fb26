CONSTANT Responses <- MCResponses
SPECIFICATION HttpSpec
INVARIANT PrintsInOrder
INVARIANT SilentEndIsComplete
PROPERTY ChainEnds
