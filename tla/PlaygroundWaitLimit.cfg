\* What docs/error-codes.md says of code 4005.
SPECIFICATION AnswerSpec
CONSTANTS
  Calls <- MCRequests
  Answers <- MCAnswers
  ShortLimit = 1
  PromptLimit = 1
  MaxOutputTokens = 2
INVARIANT WaitLimitReported
\* A request that was answered is over.
CHECK_DEADLOCK FALSE
