SPECIFICATION MCSpec
CONSTANTS
  Thread = {t1, t2}
  Busy = {t1}
  Draft = {d1}
  Meanwhile = FALSE
  MaxClock = 1
  None = None
  Reviewer = {devin, coderabbit}
  Requestable = {coderabbit}
  SECOND = 2
  TIMEOUT = 3
  INTERVAL = 2
  MaxNow = 8
  MaxEvents = 2
PROPERTIES
  RepliesOnceToWhatWasRead
  SendsOnlyApproved
  ResolvesWhatIsAnswered
  TimeoutMeansSilence
