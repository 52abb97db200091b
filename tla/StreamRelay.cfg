\* Bodies of every kind of provider, cut into reads anywhere; the client may leave
\* and the upstream may break at any moment.
SPECIFICATION Spec
CONSTANTS
    None = None
    Scenarios <- MCScenarios
INVARIANTS
    StreamBooks
    ClientSeesEvents
    CallsStayApart
    StreamTellsTheAnswer
    AnswerComesBack
PROPERTIES
    Ends
    GoneIsLeftAlone
