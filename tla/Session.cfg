SPECIFICATION Spec
CONSTANT MaxSessions = 3
INVARIANT ShowsOwnAnswer
PROPERTY AnswersAdvance
