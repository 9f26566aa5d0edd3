CONSTANTS
    Flavours = {"native", "aliyun", "capi"}
    Hooks = {"aliyun"}
    Cuts = {1, 6}
    Failing = {"apiserver"}
    Costs <- MCCosts
    Budget = 2
SPECIFICATION Spec
INVARIANT RunningIsServedAndNothingLeft
PROPERTIES Concludes
CHECK_DEADLOCK FALSE
