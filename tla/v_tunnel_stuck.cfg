SPECIFICATION FairSpec
CONSTANTS
  a1 = a1
  a2 = a2
  NoOne = NoOne
  Attempts <- AttemptsOne
  MaxConcurrent = 1
  WireBuf = 2
  QueueBuf = 1
  MailboxBuf = 1
  MaxChunks <- Longer
  MaxAnswers <- Longer
  MaxStreams = 1
CHECK_DEADLOCK FALSE
PROPERTY
  LoopComesBack
