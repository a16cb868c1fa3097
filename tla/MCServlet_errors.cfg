SPECIFICATION Spec
CONSTANTS
  Names <- MCNames
  Handlers <- MCHandlers
  Scripts <- MCScripts
  TextName <- MCText
  CommentName <- MCComment
  NULL = NULL
  Sizes = {1}
  RecordSize = 2
  MaxSessions = 1
  MaxOutput = 2
  MaxDeaths = 0
INVARIANT ErrorsSent
