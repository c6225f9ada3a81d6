CONSTANTS
    t1 = t1
    t2 = t2
    todo = todo
    done = done
    ana = ana
    bob = bob
    None = None
    Keep = Keep
    Requests = {1, 2}
    TaskIds = {t1, t2, t3}
    First = t1
    Second = t2
    StatusIds = {todo, done, extra}
    Seeds = {todo, done}
    Completed = {done}
    Users = {ana, bob}
    Parents = {None, t1}
    Columns = {None, done}
    Lists <- SomeLists
    Actors = {ana}
    Leavers = {bob}
    Bulks <- SomeBulks
    MaxServed = 2

SPECIFICATION Spec

INVARIANTS
    TypeOK
    DateFollowsStatus
    TellsDifference
    SubtaskWithinParent

PROPERTIES
    BulkAllOrNothing
    RequestsEnd

CHECK_DEADLOCK FALSE
