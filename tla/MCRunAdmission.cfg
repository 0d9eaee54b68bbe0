CONSTANTS
    r1 = r1  r2 = r2  r3 = r3  ann = ann  bob = bob  qa = qa
    Requests = {r1, r2, r3}
    Users = {ann, bob}
    Agents = {qa}
    Threads = {t1}
    UserOf <- MCUserOf
    AgentOf <- MCAgentOf
    MaxLimit = 1
    MaxDay = 1
    NoOne = NoOne
    NoThread = NoThread
SPECIFICATION FairSpec
INVARIANTS QuotaRespected ThreadPrivate AnswerMatchesStore
CHECK_DEADLOCK FALSE
PROPERTY EveryRequestAnswered
