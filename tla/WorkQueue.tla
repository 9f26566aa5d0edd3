----------------------------- MODULE WorkQueue -----------------------------
(***************************************************************************)
(* What a controller expects of its work queue, whichever it is: an added  *)
(* item stays pending until it is taken, it is taken by one worker at a    *)
(* time, and adding it while it is worked on makes it pending again.  The  *)
(* queue owes nothing for items added after it is closed.                  *)
(***************************************************************************)
CONSTANT Item
VARIABLES pending, active, closed
vars == <<pending, active, closed>>

Init == pending = {} /\ active = {} /\ closed = FALSE

Add(x) == ~closed /\ pending' = pending \cup {x} /\ UNCHANGED <<active, closed>>

Take(x) ==
    /\ x \in pending \ active
    /\ pending' = pending \ {x}
    /\ active' = active \cup {x}
    /\ UNCHANGED closed

Finish(x) == x \in active /\ active' = active \ {x} /\ UNCHANGED <<pending, closed>>

Close == closed' = TRUE /\ UNCHANGED <<pending, active>>

Next == (\E x \in Item : Add(x) \/ Take(x) \/ Finish(x)) \/ Close

Spec == Init /\ [][Next]_vars
=============================================================================
