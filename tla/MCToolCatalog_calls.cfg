\* Both callers, every tool and argument, a remote server that changes.
CONSTANTS
    RemoteTools = {"bars"}
    ValuesOf <- MCValuesOf
    Allowlists <- MCAllowlists
    Actors = {"agent", "mcp"}
    MaxChanges = 2
    NoCall = NoCall
SPECIFICATION Spec
INVARIANTS TypeOK RouteIsReached ListedIsServed
