---------------------------- MODULE ToolCatalog ----------------------------
(***************************************************************************)
(* How the routes of the service become tools and a tool call becomes a    *)
(* request again: agent/tools.py, the dispatchers of the agent             *)
(* (agent/runner.py) and of the MCP server (mcp_server/server.py), and the *)
(* remote MCP client (remote/client.py) from startup to shutdown.          *)
(*                                                                         *)
(* A path is a sequence of segments, a value a sequence of segments, a     *)
(* tool name a sequence of words; joining them with "/" or "_" is left     *)
(* out, and so is the limit of 64 characters, which no route reaches.      *)
(***************************************************************************)
EXTENDS Integers, Sequences, FiniteSets, SequencesExt, TLC

CONSTANTS
    RemoteTools,  \* tools the remote server may have
    ValuesOf,     \* values a caller gives to a parameter
    Allowlists,   \* what an agent run may be limited to; {} for no limit
    Actors,       \* out of {"agent", "mcp"}
    MaxChanges,   \* bound: changes of the remote server
    NoCall

ASSUME ActorsAssumption == Actors \subseteq {"agent", "mcp"}
ASSUME BoundsAssumption == MaxChanges \in Nat

VARIABLES
    remote,      \* the client on the application state
    discovered,  \* tools it listed when it was opened
    there,       \* tools the remote server has now
    changes,
    offered,     \* tools of the agent run
    last         \* the last call: who called what, and what it reached

vars == <<remote, discovered, there, changes, offered, last>>

\* The routes of create_app, in the order of their registration.  A word in capitals is
\* a parameter in braces, PATH_PATH the one with a converter, {path:path}.
R(method, path) == [method |-> method, path |-> path]
Routes == <<
    R("GET", <<"healthz">>),
    R("GET", <<"storage", "v1", "object", "BUCKET", "PATH_PATH">>),
    R("POST", <<"storage", "v1", "bucket", "BUCKET">>),
    R("PUT", <<"storage", "v1", "object", "BUCKET", "PATH_PATH">>),
    R("DELETE", <<"storage", "v1", "object", "BUCKET", "PATH_PATH">>),
    R("GET", <<"storage", "v1", "stat", "BUCKET", "PATH_PATH">>),
    R("GET", <<"storage", "v1", "list", "BUCKET">>),
    R("POST", <<"storage", "v1", "upload", "sign", "BUCKET", "PATH_PATH">>),
    R("POST", <<"storage", "v1", "download", "sign", "BUCKET", "PATH_PATH">>),
    R("POST", <<"sql", "v1">>),
    R("POST", <<"sql", "v1", "explain">>),
    R("POST", <<"sql", "v1", "count">>),
    R("POST", <<"sql", "v1", "sample">>),
    R("POST", <<"v1", "streams">>),
    R("GET", <<"v1", "streams">>),
    R("GET", <<"v1", "streams", "SOURCE_ID">>),
    R("POST", <<"v1", "streams", "SOURCE_ID", "state">>),
    R("GET", <<"v1", "streams", "SOURCE_ID", "status">>),
    R("POST", <<"v1", "ingest", "SOURCE_ID">>),
    R("GET", <<"v1", "streams", "SOURCE_ID", "dlq">>),
    R("POST", <<"v1", "streams", "dlq", "DLQ_ID", "replay">>),
    R("POST", <<"agent", "v1">>),
    R("GET", <<"v1", "admin", "audit">>),
    R("GET", <<"v1", "admin", "runs">>),
    R("GET", <<"v1", "admin", "runs", "RUN_ID">>) >>

\* The parameter a segment of a template stands for, and the placeholder a
\* dispatcher looks for: they differ where the template names a converter.
ParamOf ==
    [s \in {"BUCKET", "PATH_PATH", "SOURCE_ID", "DLQ_ID", "RUN_ID"} |->
        CASE s = "BUCKET" -> "bucket" [] s = "PATH_PATH" -> "path"
          [] s = "SOURCE_ID" -> "source_id" [] s = "DLQ_ID" -> "dlq_id"
          [] s = "RUN_ID" -> "run_id"]
Placeholder ==
    [bucket |-> "BUCKET", path |-> "PATH", source_id |-> "SOURCE_ID",
     dlq_id |-> "DLQ_ID", run_id |-> "RUN_ID"]
IsRest(segment) == segment = "PATH_PATH"

Places(route) == 1 .. Len(route.path)
IsParam(segment) == segment \in DOMAIN ParamOf
Params(route) == {ParamOf[route.path[i]] : i \in {k \in Places(route) : IsParam(route.path[k])}}

\* _tool_name.
ToolName(route) ==
    <<route.method>> \o
        [i \in Places(route) |->
            IF IsParam(route.path[i]) THEN ParamOf[route.path[i]] ELSE route.path[i]]

\* _EXCLUDE_PATH_PREFIXES and build_tool_catalog.
Excluded(route) == Head(route.path) \in {"agent", "mcp", "healthz", "docs", "openapi", "redoc"}
Catalog == {ToolName(Routes[i]) : i \in {j \in DOMAIN Routes : ~Excluded(Routes[j])}}

LocalTools == {<<"get_schema_cards">>, <<"replay_retrieval_plan">>}
RemoteName(t) == <<"remote", t>>
Owns(name) == Head(name) = "remote"

Outcome ==
    [via : {"unavailable", "unknown", "local", "remote", "unopened", "error", "http"},
     route : DOMAIN Routes \cup {0}]

Init ==
    /\ remote = "none" /\ discovered = {} /\ changes = 0
    /\ there \in SUBSET RemoteTools
    /\ offered = {} /\ last = NoCall

TypeOK ==
    /\ remote \in {"none", "open", "closed", "dropped"}
    /\ discovered \subseteq RemoteTools /\ there \subseteq RemoteTools
    /\ remote \in {"none", "dropped"} => discovered = {}
    /\ offered \subseteq Catalog \cup LocalTools \cup {RemoteName(t) : t \in RemoteTools}
    /\ last # NoCall => last.actor \in Actors /\ last.outcome \in Outcome
-----------------------------------------------------------------------------
(* The remote client.                                                      *)

\* Seeded fault: a client that could not be opened keeps what it listed.
OpenLeaving ==
    /\ remote = "none"
    /\ remote' \in {"open", "dropped"} /\ discovered' = there
    /\ UNCHANGED <<there, changes, offered, last>>

\* lifespan: aopen lists the tools; when it fails there is no client.
Open ==
    /\ remote = "none"
    /\ \/ remote' = "open" /\ discovered' = there
       \/ remote' = "dropped" /\ UNCHANGED discovered
    /\ UNCHANGED <<there, changes, offered, last>>

Close ==
    /\ remote = "open" /\ remote' = "closed"
    /\ UNCHANGED <<discovered, there, changes, offered, last>>

RemoteChange ==
    /\ changes < MaxChanges /\ changes' = changes + 1
    /\ there' \in SUBSET RemoteTools \ {there}
    /\ UNCHANGED <<remote, discovered, offered, last>>

\* Requests come after startup; a run may outlive the client.
Ready == remote # "none"
HasRemote == remote \in {"open", "closed"}

\* call: an error of the session, as for a tool that is gone, is an answer.
RemoteCall(name) ==
    IF remote # "open" THEN "unopened"
    ELSE IF name[2] \in there THEN "remote" ELSE "error"
-----------------------------------------------------------------------------
(* From a call to a request.                                               *)

\* Seeded fault: the table is keyed by path.
RouteByPath(name) ==
    LET is == {i \in DOMAIN Routes : Tail(ToolName(Routes[i])) = Tail(name)} IN
    {i \in is : \A j \in is : j <= i /\ Routes[i].method = Head(name)}

\* routes_by_name, with the routes the catalog leaves out: the last one of a
\* name counts.
RouteByName(name) ==
    LET is == {i \in DOMAIN Routes : ToolName(Routes[i]) = name} IN
    {i \in is : \A j \in is : j <= i}

\* Seeded fault: all arguments go into the query.
FilledNot(route, args) == route.path

\* The template with each placeholder replaced by its argument.
Filled(route, args) ==
    FlattenSeq([i \in Places(route) |->
        LET keys == {k \in DOMAIN args : Placeholder[k] = route.path[i]} IN
        IF keys = {} THEN <<route.path[i]>> ELSE args[CHOOSE k \in keys : TRUE]])

\* The router: the first route of this method that fits.
Fits(route, method, url) ==
    /\ route.method = method
    /\ IF IsRest(Last(route.path)) THEN Len(url) >= Len(route.path)
       ELSE Len(url) = Len(route.path)
    /\ \A i \in Places(route) : IsParam(route.path[i]) \/ route.path[i] = url[i]

Reached(method, url) ==
    LET is == {i \in DOMAIN Routes : Fits(Routes[i], method, url)} IN
    {i \in is : \A j \in is : i <= j}

\* What the handler finds in its parameters.
Bound(route, url) ==
    [p \in Params(route) |->
        LET i == CHOOSE i \in Places(route) :
                    IsParam(route.path[i]) /\ ParamOf[route.path[i]] = p
        IN IF IsRest(route.path[i]) THEN SubSeq(url, i, Len(url)) ELSE <<url[i]>>]

Empty == [k \in {} |-> <<>>]
Nothing(via) == [via |-> via, route |-> 0]

\* What a caller was told of: the tools of the run, or list_tools of MCP.
Listed(actor) ==
    IF actor = "agent" THEN offered ELSE Catalog \cup {RemoteName(t) : t \in discovered}

Http(actor, name, args) ==
    LET route == Routes[CHOOSE i \in RouteByName(name) : TRUE]
        url == Filled(route, args)
        hit == Reached(route.method, url)
    IN [actor |-> actor, name |-> name, args |-> args, listed |-> Listed(actor),
        outcome |-> [via |-> "http", route |-> IF hit = {} THEN 0 ELSE CHOOSE i \in hit : TRUE],
        seen |-> IF hit = {} THEN Empty ELSE Bound(Routes[CHOOSE i \in hit : TRUE], url)]

Other(actor, name, via) ==
    [actor |-> actor, name |-> name, args |-> Empty, listed |-> Listed(actor),
     outcome |-> Nothing(via), seen |-> Empty]

Names ==
    {ToolName(Routes[i]) : i \in DOMAIN Routes} \cup LocalTools
        \cup {RemoteName(t) : t \in RemoteTools}

\* Arguments as the input schema asks for them.
Arguments(name) ==
    LET ps == UNION {Params(Routes[i]) : i \in RouteByName(name)} IN
    {f \in [ps -> UNION {ValuesOf[p] : p \in ps}] : \A p \in ps : f[p] \in ValuesOf[p]}
-----------------------------------------------------------------------------
(* The two callers.                                                        *)

\* run_agent_endpoint: the tools of a run are fixed when it begins.
BeginRun(allowed) ==
    /\ "agent" \in Actors /\ Ready
    /\ LET all == Catalog \cup LocalTools \cup {RemoteName(t) : t \in discovered} IN
       offered' = IF allowed = {} THEN all ELSE all \cap allowed
    /\ last' = NoCall
    /\ UNCHANGED <<remote, discovered, there, changes>>

\* ToolDispatcher.call.
AgentCall(name, args) ==
    /\ "agent" \in Actors /\ offered # {}
    /\ last' = IF name \notin offered THEN Other("agent", name, "unavailable")
               ELSE IF name \in LocalTools THEN Other("agent", name, "local")
               ELSE IF HasRemote /\ Owns(name) THEN Other("agent", name, RemoteCall(name))
               ELSE IF RouteByName(name) = {} THEN Other("agent", name, "unknown")
               ELSE Http("agent", name, args)
    /\ UNCHANGED <<remote, discovered, there, changes, offered>>

\* call_tool of the MCP server; it does not look at what list_tools says.
McpCall(name, args) ==
    /\ "mcp" \in Actors /\ Ready
    /\ last' = IF HasRemote /\ Owns(name) THEN Other("mcp", name, RemoteCall(name))
               ELSE IF RouteByName(name) = {} THEN Other("mcp", name, "unknown")
               ELSE Http("mcp", name, args)
    /\ UNCHANGED <<remote, discovered, there, changes, offered>>

Next ==
    \/ Open \/ Close \/ RemoteChange
    \/ \E allowed \in Allowlists : BeginRun(allowed)
    \/ \E name \in Names : \E args \in Arguments(name) :
        AgentCall(name, args) \/ McpCall(name, args)

Spec == Init /\ [][Next]_vars
-----------------------------------------------------------------------------
(* Properties.                                                             *)

\* A call of a route's tool arrives at the handler it was made of, and every
\* argument that stands for one segment arrives as it was given, also when its
\* value is a word of another route.
RouteIsReached ==
    last # NoCall /\ last.outcome.via = "http" =>
        /\ last.outcome.route # 0
        /\ ToolName(Routes[last.outcome.route]) = last.name
        /\ \A k \in DOMAIN last.args : k # "path" => last.seen[k] = last.args[k]

\* What is listed is served: a tool that a run or an MCP client was told of is
\* never unknown, whatever happened to the remote server since.
ListedIsServed ==
    last # NoCall /\ last.name \in last.listed =>
        last.outcome.via \notin {"unavailable", "unknown"}

\* "Every CRUD endpoint a direct client can hit is automatically a tool the
\* agent can call" (agent/tools.py): the call acts on what its arguments name.
ArgumentsAreObeyed ==
    last # NoCall /\ last.outcome.via = "http" =>
        \A k \in DOMAIN last.args : last.seen[k] = last.args[k]

\* "the agent and MCP catalogs are identical by construction"
\* (mcp_server/server.py): a run without limits is offered what MCP lists.
CatalogsAgree ==
    last # NoCall /\ last.actor = "agent" =>
        last.listed = Catalog \cup {RemoteName(t) : t \in discovered}
=============================================================================
