---------------------------- MODULE ChatAdapters ----------------------------
(***************************************************************************)
(* The LLM adapters (agent/providers): what the conversation of a run is   *)
(* turned into for each provider, and how the pieces of a streamed answer  *)
(* become tool calls.                                                      *)
(*                                                                         *)
(* A message has a role and a sequence of tool names: those an assistant   *)
(* message asks for, those a tool message answers.  The place of a call in *)
(* its message stands for its call_id.                                     *)
(***************************************************************************)
EXTENDS Integers, Sequences

\* make_adapter: the compatible servers are served by the adapter of OpenAI.
ProviderNames == {"anthropic", "openai", "openai_compat"}
Adapter(provider) == IF provider = "anthropic" THEN "anthropic" ELSE "openai"

Asks(msg) == IF msg.role = "assistant" THEN msg.calls ELSE <<>>
Answers(msg) == IF msg.role = "tool" THEN msg.calls ELSE <<>>

\* Seeded fault: the results of tools are sent under the role they have in the run.
ToAnthropicPlain(msg) == [role |-> msg.role, asks |-> Asks(msg), answers |-> Answers(msg)]

\* _to_anthropic: results of tools are blocks of a user message, each with its call_id.
ToAnthropic(msg) ==
    [role |-> IF msg.role = "tool" THEN "user" ELSE msg.role,
     asks |-> Asks(msg), answers |-> Answers(msg)]

\* _to_openai: the blocks of results become one text, which names no call.
ToOpenAI(msg) == [role |-> msg.role, asks |-> Asks(msg), answers |-> <<>>]

Wire(provider, messages) ==
    [i \in DOMAIN messages |->
        IF Adapter(provider) = "anthropic" THEN ToAnthropic(messages[i]) ELSE ToOpenAI(messages[i])]

\* What the two interfaces demand: every call is answered by the message that follows, and
\* nothing else is an answer.  A compatible server may take whatever it is sent.
Accepts(provider, wire) ==
    \/ provider = "openai_compat"
    \/ LET answering == IF provider = "anthropic" THEN "user" ELSE "tool" IN
       \A i \in DOMAIN wire :
          /\ wire[i].role \in {"user", "assistant", answering}
          /\ wire[i].asks # <<>> =>
                /\ i < Len(wire) /\ wire[i + 1].role = answering
                /\ wire[i + 1].answers = wire[i].asks
          /\ wire[i].answers # <<>> => i > 1 /\ wire[i - 1].asks = wire[i].answers
-----------------------------------------------------------------------------
(* Streamed calls.  A fragment tells the index of its call, its name in the *)
(* first one, and how many pieces of its arguments it brings.               *)

NoName == ""
NewSlot == [name |-> NoName, args |-> 0]

\* Seeded fault: a fragment replaces the arguments that were there.
GatherLast(slots, f) ==
    LET slot == IF f.index \in DOMAIN slots THEN slots[f.index] ELSE NewSlot
        name == IF f.name # NoName THEN f.name ELSE slot.name
        args == IF f.args > 0 THEN f.args ELSE slot.args
    IN [i \in DOMAIN slots \cup {f.index} |->
            IF i = f.index THEN [name |-> name, args |-> args] ELSE slots[i]]

\* OpenAIAdapter: a slot of pending_calls per index, in the order of their first fragments.
Gather(slots, f) ==
    LET slot == IF f.index \in DOMAIN slots THEN slots[f.index] ELSE NewSlot
        name == IF f.name # NoName THEN f.name ELSE slot.name
    IN [i \in DOMAIN slots \cup {f.index} |->
            IF i = f.index THEN [name |-> name, args |-> slot.args + f.args] ELSE slots[i]]

\* The calls an adapter yields when the stream has ended well: AnthropicAdapter asks the
\* library for the message that was said.
Yielded(provider, said, slots) ==
    IF Adapter(provider) = "anthropic" THEN said ELSE [k \in 1 .. Len(said) |-> slots[k]]
=============================================================================
