---------------------------- MODULE WorkerSlots ----------------------------
(***************************************************************************)
(* What the stream runner promises about its tasks: "one task per          *)
(* stream_sources row" (streams/runner.py).  Every source has one slot.  A *)
(* worker comes into an empty slot only; it leaves the slot by ending, or  *)
(* by being told to stop, after which it drains until it ends and never    *)
(* gets the slot back.                                                     *)
(***************************************************************************)
CONSTANTS
    Sources,    \* the slots
    Workers,    \* identities of workers, which may come again once they ended
    Nobody      \* no worker

VARIABLES
    slot,       \* slot[s]: the worker at work for s, or Nobody
    draining    \* draining[s]: workers for s that were told to stop

Init ==
    /\ slot = [s \in Sources |-> Nobody]
    /\ draining = [s \in Sources |-> {}]

\* Draining workers end in their own time.
Drained(s) == draining'[s] \subseteq draining[s]

Rest(s) == slot'[s] = slot[s] /\ Drained(s)

Fill(s) ==
    /\ slot[s] = Nobody /\ slot'[s] \in Workers
    /\ \A x \in Sources : slot[x] # slot'[s] /\ slot'[s] \notin draining[x]
    /\ Drained(s)

Vacate(s) == slot'[s] = Nobody /\ Drained(s)

Retire(s) ==
    /\ slot[s] # Nobody /\ slot'[s] = Nobody
    /\ draining'[s] \subseteq draining[s] \cup {slot[s]}

Next == \A s \in Sources : Rest(s) \/ Fill(s) \/ Vacate(s) \/ Retire(s)

Spec == Init /\ [][Next]_<<slot, draining>>
=============================================================================
