SPECIFICATION ProgramSpec
CONSTANTS
  DataSize = 1024
  BufferSizes <- MCBufferSizes
  Characters <- MCCharacters
  MaxRequests = 2
  Numerals <- MCNumerals
  CSeqLengths = {2, 2000}
  DataLengths <- MCDataLengths
  HeaderValues <- MCHeaderValues
  SendLengths <- MCSendLengths
CHECK_DEADLOCK FALSE
INVARIANTS ProgramTypeOK HandlerSeesWhatWasSent AnswersInOrder ResponseFits AnnouncedMeansReady
PROPERTY WaitingClientIsAnswered
