SPECIFICATION ReadySpec
CONSTANTS
    None = None
    Publishers = {p1, p2}
    MaxPublications = 2
    Jobs <- MCJobs
    FactNames <- MCFactNames
    Values <- MCValues
    Sources <- MCSources
    Namespaces <- MCNamespaces
    Conversations <- MCConversations
    EventIds <- MCEventIds
    Requests <- MCRequests
    Direct <- MCDirect
INVARIANTS
    OneResultPerRequest
    FactsAnswerForEvidence
    PublishedAsRead
PROPERTIES
    RevisionIdentifiesContent
SYMMETRY PublisherSymmetry
