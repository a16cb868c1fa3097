SPECIFICATION FairSpec
CONSTANTS
  Names <- MCNames
  Handlers <- MCHandlers
  Scripts <- MCScripts
  TextName <- MCText
  CommentName <- MCComment
  NULL = NULL
  Sizes = {1, 2}
  RecordSize = 2
  MaxSessions = 3
  MaxOutput = 3
  MaxDeaths = 1
INVARIANTS TypeOK OwnTextOnly
PROPERTIES ServiceKept ServletReturns
