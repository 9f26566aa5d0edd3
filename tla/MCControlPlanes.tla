--------------------------- MODULE MCControlPlanes ---------------------------
(* An instance of ControlPlanes for TLC: all provisioners, one of them with  *)
(* the webhook.  With a budget of 2, events that cost 1 come in pairs.       *)
EXTENDS ControlPlanes

Single(kinds) == [kind \in kinds |-> 2]
InPairs(kinds) == [kind \in kinds |-> 1]
MCCosts ==
    [native |-> Single({"edit", "early delete", "outage", "lag", "crash", "delete"})
                @@ InPairs({"call", "upgrade"}),
     aliyun |-> InPairs({"call", "crash", "edit", "delete", "early delete", "upgrade", "lost", "cloud"}),
     capi   |-> Single({"call", "delete", "early delete", "outage", "removed",
                        "certificate", "service", "cluster", "pause"})]
=============================================================================
