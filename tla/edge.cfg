SPECIFICATION EdgeSpec
CONSTANTS
    MaxGiven = 2
    Names <- MCNames
    MaxLayers = 24
    Responses <- MCResponses
    Wrapped <- MCWrapped
    Callbacks <- MCCallbacks
    Previews <- MCPreviews
    Commands <- MCCommands
    Prologues <- MCPrologues
    a = a
    b = b
    Bytes = {a, b}
    RequestLimit = 3
    ResponseLimit = 0
    MaxPiece = 2
    MaxPieces = 4
    NoBody = NoBody
    NoResult = NoResult
    MaxAttempts = 3
    Bodies <- MCBodies
    Results <- MCResults
    ResultIn <- MCResultIn
    Fit <- MCFit
\* What was read, asked, answered or logged is done with.
CHECK_DEADLOCK FALSE
INVARIANTS
    OutcomesShow
    WrappersUnwrap
    RequestsAreNamed
    CommandsArrive
    AskingOnceSuffices
    AcceptedIsQueried
    LogIsTrue
    AttemptRunsOnce
    ResultsAreRead
PROPERTIES
    AnsweredIsFinal
    CallEnds
