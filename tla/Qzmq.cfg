SPECIFICATION Spec
CONSTANTS
  Fds = {1, 2}
  Endpoints = {"e"}
  Messages <- MCMessages
  MaxContexts = 1
  MaxSockets = 2
  MaxTraffic = 2
INVARIANTS
  SocketsAgree
  CallbackKnowsSocket
  NoneLostOrStuck
  MergedOnlyAfterFailure
PROPERTIES
  MessagesRead
