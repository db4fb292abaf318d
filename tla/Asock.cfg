SPECIFICATION FairSpec
CONSTANT MaxDescriptor = 3
INVARIANTS SocketRequestsOnce SocketWaitArmed DispatcherArmed DescriptorsOwned ConnectedIfNoError
PROPERTIES CloseEndsAll
