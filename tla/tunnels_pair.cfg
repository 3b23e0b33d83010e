SPECIFICATION Spec
CONSTANTS
  a1 = a1
  a2 = a2
  NoOne = NoOne
  Attempts <- AttemptsTwo
  MaxConcurrent = 1
  WireBuf = 1
  QueueBuf = 1
  MailboxBuf = 1
  MaxChunks <- OneTalks
  MaxAnswers <- Silent
  MaxStreams = 1
CHECK_DEADLOCK FALSE
INVARIANTS
  TypeOK
  WaitIsAnswered
