CONSTANTS
    Processes = {p1}
    Episodes = {"e1", "e2"}
    SchemeOf <- MCSchemeOfTwo
    KindOf <- MCKindOf
    Requests <- MCOne
    Orders <- MCOrders
    Layouts <- MCTwoLayouts
    SchemaSize = 1
    ColumnsSize = 2
    TopicSize = 1
    MaxVersion <- MCRewriteFirstOfTwo
    MaxCalls = 3
    Absent = Absent
    Torn = Torn
    NoIds = NoIds
SPECIFICATION Spec
INVARIANT
    SameInputsSameTable
