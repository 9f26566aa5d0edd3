CONSTANTS
    Clusters = {"c1", "c2"}
    Namespaces = {"n1", "n2"}
    Pods = {"p1"}
    Home <- MCHome
    SliceSize = 2
    Request = 1
    Before <- MCBefore
    SameName <- MCSameName
    Capacity <- MCCapacity
SPECIFICATION Spec
PROPERTY UnhealthyResync
CHECK_DEADLOCK FALSE
