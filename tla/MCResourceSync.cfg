CONSTANTS
    Kinds <- MCKinds
    MaxUid = 7
    MaxCopies = 2
    MaxEvents <- MCMaxEvents
    Pods <- MCPods
    First = "a"
    MaxPodEvents = 3
SPECIFICATION MCSpec
INVARIANT BoundHaveNode
PROPERTIES NeverDeletesLive OpaqueKept Converges Quiesces UnusedGo
\* Nothing is left to do for nodes and events, which have no patrol.
CHECK_DEADLOCK FALSE
