\* Two turns of the model with up to two calls each; everything may fail, the peer may
\* go away. A response that has ended stops.
CONSTANTS
    cards = cards
    probe = probe
    remote_q = remote_q
    Replay = replay
    Unoffered = madeup
    Catalog = {replay, cards, probe, remote_q}
    Local = {replay, cards}
    Remote = {remote_q}
    Routes = {probe}
    SkillTools = {replay, cards, probe}
    Previews = {cards, probe}
    Bodies <- MCBodies
    Providers = {"anthropic", "openai_compat", "none"}
    MaxSteps = 2
    MaxCalls = 2
    MaxPieces = 2
    Faults = {"insert", "adapter", "local", "remote", "http", "unreachable", "tool_audit", "persist", "audit", "peer"}
SPECIFICATION FairSpec
CHECK_DEADLOCK FALSE
INVARIANTS TypeOK RetrievalIsDelivered RowTellsTheRun ProviderUnderstands CallsAsSaid
PROPERTY ResponseEnds
