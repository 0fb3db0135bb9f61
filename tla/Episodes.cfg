CONSTANTS
    Processes = {p1}
    Episodes = {"e1", "e2", "e3"}
    SchemeOf <- MCSchemeOf
    KindOf <- MCKindOf
    Requests <- MCRequests
    Orders <- MCOrders
    Layouts <- MCAnyLayout
    SchemaSize = 1
    ColumnsSize = 2
    TopicSize = 1
    MaxVersion <- MCRewriteFirst
    MaxCalls = 3
    Absent = Absent
    Torn = Torn
    NoIds = NoIds
SPECIFICATION Spec
INVARIANTS
    TypeOK
    EveryStreamGetsItsOwnArray
    FirstCallIsCurrent
    LineageCoversTable
    OrdersNeverMix
    SameInputsWhileWrittenOnce
