CONSTANTS
  QLen = 2
  SocketLen = 2
  MaxMessages = 8
  MaxExits = 2
SPECIFICATION SyslogSpec
INVARIANTS PrintedInOrder
PROPERTIES ReceiverNeverWaits QueuedIsPrinted ListensAgain
CHECK_DEADLOCK FALSE
