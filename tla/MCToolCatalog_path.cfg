\* The tools of objects.
CONSTANTS
    RemoteTools = {"bars", "quotes"}
    ValuesOf <- MCValuesOf
    Allowlists <- MCAllowlists
    Actors = {"mcp"}
    MaxChanges = 0
    NoCall = NoCall
SPECIFICATION Spec
INVARIANTS ArgumentsAreObeyed
