SPECIFICATION MailSpec
CONSTANTS
    t1 = t1
    t2 = t2
    t3 = t3
    q1 = q1
    m1 = m1
    m2 = m2
    b1 = b1
    b2 = b2
    NoMsg = NoMsg
    NoBlock = NoBlock
    Idle = Idle
    Boot = Boot
    NoArg = NoArg
    Task <- Tasks2
    WaitObj <- Lists
    Queue <- Queues1
    MailQueue = q1
    Msg <- Msgs
    Block <- Blocks2
    QueueLen = {2}
    MaxLen = 2
    Jobs <- QueueJobs
    QueueTimeout <- Timeouts
    Lowest = 2
    TimeSlice = 1
    MaxDelay = 1
    Calls = {"delete", "queueCreate", "queue", "isrQueue", "queueDelete", "mail", "isrMail"}
    CreatePrio = {0, 1}
    Delay = {}
    MaxLock = 0
    Unprotected = {}
CONSTRAINT MessagesOrMails
SYMMETRY Symmetry
INVARIANTS
    QueueTypeOK
    NodesConserved
    NoWaitWithNodes
    WaitersHaveQueue
    MailsAreSafe
PROPERTIES
    EachIsAQueue
