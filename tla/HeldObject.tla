----------------------------- MODULE HeldObject -----------------------------
(***************************************************************************)
(* What a held file promises, whatever moves underneath it: from the       *)
(* moment save() returns until forget() is called, every retrieve delivers *)
(* the whole file.  A retrieve that overlaps forget() delivers the whole   *)
(* file or fails.  None begins after forget().                             *)
(***************************************************************************)
CONSTANT Readers

VARIABLES
    status,  \* "saving", "held", "forgotten"
    view     \* what each reader has got from its latest retrieve

vars == <<status, view>>

Init ==
    /\ status \in {"saving", "held"}
    /\ view = [r \in Readers |-> "none"]

Hold ==
    /\ status = "saving"
    /\ status' = "held"
    /\ UNCHANGED view

Begin(r) ==
    /\ status = "held" /\ view[r] # "reading"
    /\ view' = [view EXCEPT ![r] = "reading"]
    /\ UNCHANGED status

Deliver(r) ==
    /\ view[r] = "reading"
    /\ view' = [view EXCEPT ![r] = "all"]
    /\ UNCHANGED status

Fail(r) ==
    /\ status = "forgotten" /\ view[r] = "reading"
    /\ view' = [view EXCEPT ![r] = "error"]
    /\ UNCHANGED status

Forget ==
    /\ status = "held"
    /\ status' = "forgotten"
    /\ UNCHANGED view

Next ==
    \/ Hold \/ Forget
    \/ \E r \in Readers : Begin(r) \/ Deliver(r) \/ Fail(r)

Spec == Init /\ [][Next]_vars
=============================================================================
