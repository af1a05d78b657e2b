---------------------------- MODULE MessageFate ----------------------------
(***************************************************************************)
(* What the stream side of lumid.data promises about every message,        *)
(* whoever received it: "on error: park the message in stream_dlq"         *)
(* (streams/runner.py).  A message that was received is held until it is   *)
(* kept, in the sink or among the dead letters, and what is kept stays     *)
(* kept.  A message that is held may get lost for two reasons only: the    *)
(* process changed its life, or the message was cut off, which is for the  *)
(* implementation to define and should be as little as possible.           *)
(***************************************************************************)
CONSTANT Msgs

VARIABLES
    fate,   \* fate[m]: "unseen", "held", "kept" or "lost"
    cut,    \* messages the code in its present state does not answer for
    life    \* changes when the process starts, begins to stop or ends

Fates == {"unseen", "held", "kept", "lost"}

Turns(m, from, to) == fate[m] \in from /\ fate'[m] = to

Stays(m) == fate'[m] = fate[m]
Receive(m) == Turns(m, {"unseen"}, "held")
Keep(m) == Turns(m, {"held"}, "kept")
Return(m) == Turns(m, {"lost"}, "held")
Lose(m) == Turns(m, {"held"}, "lost") /\ (m \in cut \/ life' # life)
Spoil(m) == Turns(m, {"unseen"}, "lost") /\ m \in cut

Init ==
    /\ fate = [m \in Msgs |-> "unseen"]
    /\ cut \in SUBSET Msgs

Next ==
    /\ fate' \in [Msgs -> Fates]
    /\ cut' \in SUBSET Msgs
    /\ \A m \in Msgs :
          Stays(m) \/ Receive(m) \/ Keep(m) \/ Return(m) \/ Lose(m) \/ Spoil(m)

Spec == Init /\ [][Next]_<<fate, cut, life>>
=============================================================================
