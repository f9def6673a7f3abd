---------------------------- MODULE MutationCall ----------------------------
(***************************************************************************)
(* What a call that changes something on the server promises the component *)
(* that makes it: the change is made once when the call succeeds, at most  *)
(* once when it fails, and never when it is refused; and it is refused     *)
(* only where the refusal is excused.  How often a token is fetched and a  *)
(* request is sent for that is not said.                                   *)
(***************************************************************************)
EXTENDS Naturals

CONSTANT Slots

VARIABLES
    status,     \* of each call
    effects,    \* how often the server has carried it out
    excused     \* whether it may be refused; moves freely

Init == status = [c \in Slots |-> "idle"] /\ effects = [c \in Slots |-> 0]

Goes(c, from, to, times) ==
    status[c] = from /\ status'[c] = to /\ effects'[c] = times

Ask(c) == Goes(c, "idle", "asked", 0)
Succeed(c) == Goes(c, "asked", "done", 1)
Fail(c) == \E times \in 0..1 : Goes(c, "asked", "failed", times)
Refuse(c) == excused[c] /\ Goes(c, "asked", "refused", 0)
Settle(c) == \E end \in {"done", "failed", "refused"} : Goes(c, end, "idle", 0)

Step(c) == Ask(c) \/ Settle(c) \/ Succeed(c) \/ Fail(c) \/ Refuse(c)

(* Calls do not wait for each other: one step may move several. *)
Next == \A c \in Slots : UNCHANGED <<status[c], effects[c]>> \/ Step(c)

Spec == Init /\ [][Next]_<<status, effects>>
=============================================================================
