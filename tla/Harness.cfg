SPECIFICATION Spec
CONSTANTS
  MaxCases = 3
  Backlog = 1
  Stacks = {1, 2}
  Results <- MCResults
  NoStatus = NoStatus
INVARIANTS RunsInOrder AnswerIsOwn ReportIsOwn
PROPERTIES Ends
\* The campaign ends, and the proxy with it.
CHECK_DEADLOCK FALSE
