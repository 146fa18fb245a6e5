SPECIFICATION FairSpec
CONSTANTS
    Null = Null
    Events = {e1, e2}
    Handlers = {h1, h2}
    MaxFailures = 2
INVARIANTS
    AtMostOnce
    OneOwner
    ProcessedMeansNotified
    AcknowledgedIsRecorded
PROPERTIES
    ImplementsInbox
    AcceptedIsSettled
    EventIsAcknowledged
