---------------------------- MODULE SchemaCards ----------------------------
(***************************************************************************)
(* The schema-card cache (retrieve/card_store.py) and the builder behind   *)
(* it (retrieve/card_builder.py), used by the get_schema_cards tool of any *)
(* number of agent runs at once, while the catalog of the database changes.*)
(*                                                                         *)
(* A caller means a set of tables and writes it down as a text, which the  *)
(* cache turns into a key and the builder into a list of tables.  A card   *)
(* carries its own built_at; what else it says is left out, but for one    *)
(* thing: the schema of the stored form limits top_k_values to ten         *)
(* entries, the builder does not, so the card of a table with more common  *)
(* values (Wide) is written and cannot be read back.                       *)
(***************************************************************************)
EXTENDS ScopeText

CONSTANTS
    Tables,      \* base tables there may be, as pairs of names: sequences of characters
    System,      \* names of the schemas "*" leaves out
    Scopes,      \* what callers ask for: sequences of entries
    Separator,   \* what callers write between two entries
    Wide,        \* tables with more than ten most common values in a column
    Callers,     \* tool calls
    TTL,         \* lifetime of an entry
    MaxClock,    \* bound: time that passes
    MaxChanges,  \* bound: tables created or dropped
    NoBundle,
    Faults       \* what may fail, out of {"load", "resolve", "card", "save"}

\* What a caller may mean by one entry: a table, the tables of a schema, all tables, or
\* nothing the builder knows.
Entry ==
    [form : {"table", "schema", "all", "bare"}, table : Tables]

ASSUME TablesAssumption ==
    IsFiniteSet(Tables) /\ Tables \subseteq Seq(STRING) \X Seq(STRING)
ASSUME SeparatorAssumption ==
    Separator \in Seq({Blank, Comma}) /\ Strip(Separator) = <<Comma>>
ASSUME WideAssumption == Wide \subseteq Tables
ASSUME ScopesAssumption == Scopes \subseteq Seq(Entry)
ASSUME BoundsAssumption == TTL \in Nat \ {0} /\ MaxClock \in Nat /\ MaxChanges \in Nat
ASSUME FaultsAssumption == Faults \subseteq {"load", "resolve", "card", "save"}

VARIABLES
    clock,
    exists,   \* tables of the database
    changed,  \* changed[t]: when t was last created or dropped, or Never (history)
    object,   \* object[k]: the bundle cached under key k, or NoBundle
    call      \* call[c]: where the call c is, its scope, and the bundle it works on

vars == <<clock, exists, changed, object, call>>

Never == -1

\* How an entry is written.
Form(e) ==
    CASE e.form = "table" -> SqlIdentifier(e.table[1]) \o <<Dot>> \o SqlIdentifier(e.table[2])
      [] e.form = "schema" -> SqlIdentifier(e.table[1]) \o <<Dot, Star>>
      [] e.form = "all" -> <<Star>>
      [] e.form = "bare" -> SqlIdentifier(e.table[1])

Written(scope) == Join([i \in DOMAIN scope |-> Form(scope[i])], Separator)

\* What becomes of the text of each scope.
Text == [s \in Scopes |-> Written(s)]
KeyOf == [s \in Scopes |-> Key(Text[s])]
IsStar == [s \in Scopes |-> Strip(Text[s]) = <<Star>>]
Valid == [s \in Scopes |-> IsStar[s] \/ IsScope(Text[s])]
ExplicitOf == [s \in Scopes |-> Explicit(Text[s])]
WildcardsOf == [s \in Scopes |-> Wildcards(Text[s])]
Keys == {KeyOf[s] : s \in Scopes}

Card == [table : Tables, built_at : 0 .. MaxClock]

\* A bundle: its cards, and the tables it lacks because their card raised (history).
Bundle == [cards : Seq(Card), left : SUBSET Tables]
NoCards == [cards |-> <<>>, left |-> {}]

Idle == [pc |-> "idle", scope |-> <<>>, todo |-> <<>>, bundle |-> NoCards, raised |-> FALSE]

TypeOK ==
    /\ clock \in 0 .. MaxClock
    /\ exists \subseteq Tables
    /\ changed \in [Tables -> {Never} \cup 0 .. MaxClock]
    /\ \A k \in Keys : object[k] = NoBundle \/ object[k] \in Bundle
    /\ \A c \in Callers :
          /\ call[c].pc \in {"idle", "resolve", "cards", "served", "failed"}
          /\ call[c].scope \in Scopes \cup {<<>>}
          /\ call[c].todo \in Seq(Tables) /\ IsInjective(call[c].todo)
          /\ call[c].bundle \in Bundle
          /\ call[c].raised \in BOOLEAN

Init ==
    /\ clock = 0
    /\ exists \in SUBSET Tables
    /\ changed = [t \in Tables |-> Never]
    /\ object = [k \in Keys |-> NoBundle]
    /\ call = [c \in Callers |-> Idle]

Outcomes(f) == IF f \in Faults THEN {"ok", "lost", "applied"} ELSE {"ok"}
Effective(o) == o \in {"ok", "applied"}

TablesOf(b) == {b.cards[i].table : i \in DOMAIN b.cards}

\* The call c ends without an answer; raised tells whether an await failed.
Fails(c, raised) ==
    call' = [call EXCEPT ![c] =
                            [Idle EXCEPT !.pc = "failed", !.scope = call[c].scope, !.raised = raised]]
Raises(c) == Fails(c, TRUE)
-----------------------------------------------------------------------------
(* SchemaCardCache.                                                        *)

\* model_validate_json accepts what was stored.
Readable(b) == TablesOf(b) \cap Wide = {}

\* Seeded fault: the newest card decides.
IsFreshNewest(b) == \E i \in DOMAIN b.cards : clock - b.cards[i].built_at < TTL

\* _is_fresh: the oldest card decides, and no card is not fresh.
IsFresh(b) ==
    b.cards # <<>> /\ \A i \in DOMAIN b.cards : clock - b.cards[i].built_at < TTL

\* A call begins: its scope is known, and it goes on at p.
Begins(c, s, p) == call' = [call EXCEPT ![c] = [Idle EXCEPT !.pc = p, !.scope = s]]

\* Seeded fault: what cannot be read ends the call.
GetStrict(c, s) ==
    LET cached == object[KeyOf[s]] IN
    /\ call[c].pc = "idle"
    /\ IF cached = NoBundle THEN Begins(c, s, "resolve")
       ELSE IF ~Readable(cached) THEN Begins(c, s, "failed")
       ELSE IF IsFresh(cached)
       THEN call' = [call EXCEPT ![c] =
                        [Idle EXCEPT !.pc = "served", !.scope = s, !.bundle = cached]]
       ELSE Begins(c, s, "resolve")
    /\ UNCHANGED <<clock, exists, changed, object>>

\* get: _load, in a thread, and the look at what it returns.  An entry that is missing,
\* cannot be read or is not fresh leads to the builder; any other error is raised.
Get(c, s) ==
    LET cached == object[KeyOf[s]] IN
    /\ call[c].pc = "idle"
    /\ \/ IF cached # NoBundle /\ Readable(cached) /\ IsFresh(cached)
          THEN call' = [call EXCEPT ![c] =
                           [Idle EXCEPT !.pc = "served", !.scope = s, !.bundle = cached]]
          ELSE Begins(c, s, "resolve")
       \/ /\ "load" \in Faults
          /\ call' = [call EXCEPT ![c] =
                         [Idle EXCEPT !.pc = "failed", !.scope = s, !.raised = TRUE]]
    /\ UNCHANGED <<clock, exists, changed, object>>

\* refresh goes straight to the builder.
Refresh(c, s) ==
    /\ call[c].pc = "idle"
    /\ Begins(c, s, "resolve")
    /\ UNCHANGED <<clock, exists, changed, object>>

\* All cards are built: _save, in a thread; without it the bundle is not returned either.
Save(c) ==
    /\ call[c].pc = "cards" /\ call[c].todo = <<>>
    /\ \E o \in Outcomes("save") :
          /\ object' = IF Effective(o)
                       THEN [object EXCEPT ![KeyOf[call[c].scope]] = call[c].bundle] ELSE object
          /\ IF o = "ok" THEN call' = [call EXCEPT ![c].pc = "served"] ELSE Raises(c)
    /\ UNCHANGED <<clock, exists, changed>>
-----------------------------------------------------------------------------
(* SchemaCardBuilder.                                                      *)

\* Seeded fault: a table that is named and matched is listed twice.
DistinctNot(ts) == ts

\* _dedupe_tables: the first of each stays.
Distinct(ts) ==
    LET seen[i \in 0 .. Len(ts)] ==
            IF i = 0 THEN <<>>
            ELSE IF Contains(seen[i - 1], ts[i]) THEN seen[i - 1] ELSE Append(seen[i - 1], ts[i])
    IN seen[Len(ts)]

\* The base tables of the schemas, as information_schema lists them one by one.
TablesIn(schemas) ==
    FlattenSeq([k \in DOMAIN schemas |-> SetToSeq({t \in exists : t[1] = schemas[k]})])

\* _list_user_schemas
UserSchemas == SetToSeq({t[1] : t \in exists} \ System)

\* _resolve_scope: the named tables, whether they exist or not, then those of the schemas.
Resolved(s) ==
    Distinct(IF IsStar[s] THEN TablesIn(UserSchemas)
             ELSE ExplicitOf[s] \o TablesIn(WildcardsOf[s]))

\* The scope is read; one that is not a scope ends the call.
Resolve(c) ==
    LET s == call[c].scope IN
    /\ call[c].pc = "resolve"
    /\ \/ /\ Valid[s]
          /\ call' = [call EXCEPT ![c].pc = "cards", ![c].todo = Resolved(s)]
       \/ ~Valid[s] /\ Fails(c, FALSE)
       \/ "resolve" \in Faults /\ Raises(c)
    /\ UNCHANGED <<clock, exists, changed, object>>

\* The five queries of a card that read the catalog name its table by a literal, which
\* some names have not, and raise if there is no such table.
Nameable == {t \in Tables : Regclass(RegclassLiteral(t)) = {t}}
Found(t) == t \in exists \cap Nameable

\* Seeded fault: a table that is gone ends the build.
BuildCardStopping(c) ==
    LET t == Head(call[c].todo) IN
    /\ call[c].pc = "cards" /\ call[c].todo # <<>>
    /\ call' = IF Found(t)
               THEN [call EXCEPT ![c].todo = Tail(@),
                                 ![c].bundle.cards = Append(@, [table |-> t, built_at |-> clock])]
               ELSE [call EXCEPT ![c].todo = <<>>]
    /\ UNCHANGED <<clock, exists, changed, object>>

\* _build_card of the next table; an exception, as for a table that does not
\* exist any more, is logged and the table left out.
BuildCard(c) ==
    LET t == Head(call[c].todo) IN
    /\ call[c].pc = "cards" /\ call[c].todo # <<>>
    /\ \/ /\ Found(t)
          /\ call' = [call EXCEPT ![c].todo = Tail(@),
                      ![c].bundle.cards = Append(@, [table |-> t, built_at |-> clock])]
       \/ /\ ~Found(t)
          /\ call' = [call EXCEPT ![c].todo = Tail(@)]
       \/ /\ Found(t) /\ "card" \in Faults
          /\ call' = [call EXCEPT ![c].todo = Tail(@), ![c].bundle.left = @ \cup {t}]
    /\ UNCHANGED <<clock, exists, changed, object>>
-----------------------------------------------------------------------------
(* The world.                                                              *)

Tick ==
    /\ clock < MaxClock
    /\ clock' = clock + 1
    /\ UNCHANGED <<exists, changed, object, call>>

\* Another session creates or drops a table.
Change(t) ==
    /\ Cardinality({x \in Tables : changed[x] # Never}) < MaxChanges
    /\ exists' = IF t \in exists THEN exists \ {t} ELSE exists \cup {t}
    /\ changed' = [changed EXCEPT ![t] = clock]
    /\ UNCHANGED <<clock, object, call>>

\* The next tool call of an agent run takes the place of a finished one.
Again(c) ==
    /\ call[c].pc \in {"served", "failed"}
    /\ call' = [call EXCEPT ![c] = Idle]
    /\ UNCHANGED <<clock, exists, changed, object>>

Next ==
    \/ \E c \in Callers, s \in Scopes : Get(c, s) \/ Refresh(c, s)
    \/ \E c \in Callers : Resolve(c) \/ BuildCard(c) \/ Save(c) \/ Again(c)
    \/ Tick
    \/ \E t \in Tables : Change(t)

Spec == Init /\ [][Next]_vars
-----------------------------------------------------------------------------
(* Properties.                                                             *)

\* What a caller means, whatever the text says.
Means(scope, t) ==
    \E i \in DOMAIN scope :
        \/ scope[i].form = "table" /\ scope[i].table = t
        \/ scope[i].form = "schema" /\ scope[i].table[1] = t[1]
        \/ scope[i].form = "all" /\ t[1] \notin System

\* A name alone, or "*" among other entries.
Malformed(scope) ==
    \E i \in DOMAIN scope :
        \/ scope[i].form = "bare"
        \/ scope[i].form = "all" /\ Len(scope) > 1

\* The cards a caller gets are of the tables it means, and of all of them but for those
\* that were created or dropped meanwhile and those whose own card raised: whoever built
\* the bundle, under whatever spelling of the scope, and whatever became of other cards.
AnswerFitsScope ==
    \A c \in Callers : call[c].pc = "served" =>
        LET b == call[c].bundle IN
        /\ \A t \in TablesOf(b) : Means(call[c].scope, t)
        /\ \A t \in exists \cap Nameable :
              Means(call[c].scope, t) /\ changed[t] = Never => t \in TablesOf(b) \cup b.left

\* A call fails only if the store or the connection did, or the scope makes no sense: a
\* missing table, a failing card or an unreadable entry never fails it.
FailsOnlyByFault ==
    \A c \in Callers : call[c].pc = "failed" => call[c].raised \/ Malformed(call[c].scope)

\* A table that is gone is forgotten: the cache serves no card of a table that was dropped
\* a lifetime ago, however the bundle's other cards are dated and whenever it was saved.
GoneIsForgotten ==
    [][\A c \in Callers : call[c].pc = "idle" /\ call'[c].pc = "served" =>
          \A t \in TablesOf(call'[c].bundle) : t \in exists \/ changed[t] > clock - TTL]_vars
-----------------------------------------------------------------------------
(* Claims of the repository that the code does not always keep.            *)

\* "get(scope) returns the cached bundle if fresh, otherwise
\* rebuilds-and-stores" (retrieve/card_store.py); it holds while Wide is empty.
FreshIsServed ==
    [][\A c \in Callers, s \in Scopes :
          Get(c, s) /\ call'[c].pc = "resolve" =>
              object[KeyOf[s]] = NoBundle \/ ~IsFresh(object[KeyOf[s]])]_vars

\* A scope "schema.*" means "all base tables in schema" (card_builder.py).
ScopeIsComplete ==
    \A c \in Callers : call[c].pc = "served" =>
        \A t \in exists : Means(call[c].scope, t) /\ changed[t] = Never
                              => t \in TablesOf(call[c].bundle)

\* "comma-separated combinations of the above" (card_builder.py:161), "*" among them.
CombinationsAreScopes ==
    \A c \in Callers : call[c].pc = "failed" /\ ~call[c].raised =>
        \E i \in DOMAIN call[c].scope : call[c].scope[i].form = "bare"

\* "Use SQL identifiers exactly as shown below" (schema_card.py): the name a card shows
\* is read back as the table it is the card of.
ShownNameReadsBack ==
    \A c \in Callers : \A t \in TablesOf(call[c].bundle) :
        IsScope(FqName(t)) /\ Explicit(FqName(t)) = <<t>>
=============================================================================
