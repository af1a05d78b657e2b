----------------------------- MODULE ScopeText -----------------------------
(***************************************************************************)
(* How a scope of schema cards is read: the two tokenizers of              *)
(* retrieve/card_builder.py, the cache key of retrieve/card_store.py and   *)
(* the names retrieve/schema_card.py shows to a planner.                   *)
(*                                                                         *)
(* A text is a sequence of characters.  A table is a pair of names, its    *)
(* schema and its own.                                                     *)
(***************************************************************************)
EXTENDS Integers, Sequences, FiniteSets, SequencesExt, FiniteSetsExt

Quote == "\""
Blank == " "
Comma == ","
Dot == "."
Star == "*"

\* Characters a name shows as they are; any other character makes it a quoted one.
Special == {Quote, Blank, Comma, Dot, Star}

Wrapped(s) == <<Quote>> \o s \o <<Quote>>

\* replace('"', '""')
Doubled(name) ==
    FlattenSeq([i \in DOMAIN name |-> IF name[i] = Quote THEN <<Quote, Quote>> ELSE <<name[i]>>])

IsSimple(name) == name # <<>> /\ \A i \in DOMAIN name : name[i] \notin Special

\* _sql_identifier
SqlIdentifier(name) == IF IsSimple(name) THEN name ELSE Wrapped(Doubled(name))

Join(ss, sep) == FlattenSeq([i \in DOMAIN ss |-> IF i = 1 THEN ss[i] ELSE sep \o ss[i]])

\* str.strip
Strip(s) ==
    LET solid == {i \in DOMAIN s : s[i] # Blank}
    IN IF solid = {} THEN <<>> ELSE SubSeq(s, Min(solid), Max(solid))

\* Where the loop of _split_top_level is after s.  The two quotes of a doubled one leave
\* the quotes and enter them again, with nothing between to split.
Scanned(s, delim, quotes) ==
    LET at[i \in 0 .. Len(s)] ==
            IF i = 0 THEN [parts |-> <<>>, buf |-> <<>>, quoted |-> FALSE]
            ELSE LET st == at[i - 1] IN
                 IF s[i] = delim /\ ~st.quoted
                 THEN [st EXCEPT !.parts = Append(@, st.buf), !.buf = <<>>]
                 ELSE [st EXCEPT !.buf = Append(@, s[i]), !.quoted = IF s[i] \in quotes THEN ~@ ELSE @]
    IN at[Len(s)]

Pieces(st) == Append(st.parts, st.buf)

SplitTopLevel(s, delim) == Pieces(Scanned(s, delim, {Quote}))

\* str.split
Split(s, delim) == Pieces(Scanned(s, delim, {}))

\* replace('""', '"'): of each pair of quotes the second one goes.
Undoubled(s) ==
    LET at[i \in 0 .. Len(s)] ==
            IF i = 0 THEN [out |-> <<>>, half |-> FALSE]
            ELSE LET st == at[i - 1] IN
                 IF s[i] = Quote /\ st.half THEN [st EXCEPT !.half = FALSE]
                 ELSE [out |-> Append(st.out, s[i]), half |-> s[i] = Quote]
    IN at[Len(s)].out

\* _strip_outer_quotes
Unquoted(s) ==
    IF Len(s) >= 2 /\ s[1] = Quote /\ s[Len(s)] = Quote
    THEN Undoubled(SubSeq(s, 2, Len(s) - 1)) ELSE s
-----------------------------------------------------------------------------
(* _split_scope_parts                                                      *)

\* Seeded fault: the builder splits like the cache key does.
PartsAnywhere(text) == Split(text, Comma)

Parts(text) == SplitTopLevel(text, Comma)

IsWildcard(part) == Len(part) >= 2 /\ part[Len(part) - 1] = Dot /\ part[Len(part)] = Star

SchemaOf(part) == Unquoted(Strip(SubSeq(part, 1, Len(part) - 2)))

Names(part) ==
    LET cols == SplitTopLevel(part, Dot) IN [k \in DOMAIN cols |-> Strip(cols[k])]

IsTable(part) == Len(Names(part)) = 2 /\ Names(part)[1] # <<>> /\ Names(part)[2] # <<>>

TableOf(part) == <<Unquoted(Names(part)[1]), Unquoted(Names(part)[2])>>

\* What the loop over the parts has read; a part that is neither raises "invalid scope entry".
Reading(text) ==
    LET raw == Parts(text)
        at[i \in 0 .. Len(raw)] ==
            IF i = 0 THEN [wildcards |-> <<>>, explicit |-> <<>>, ok |-> TRUE]
            ELSE LET st == at[i - 1]
                     part == Strip(raw[i])
                 IN IF part = <<>> THEN st
                    ELSE IF IsWildcard(part)
                    THEN [st EXCEPT !.wildcards = Append(@, SchemaOf(part))]
                    ELSE IF IsTable(part) THEN [st EXCEPT !.explicit = Append(@, TableOf(part))]
                    ELSE [st EXCEPT !.ok = FALSE]
    IN at[Len(raw)]

IsScope(text) == Reading(text).ok
Explicit(text) == Reading(text).explicit
Wildcards(text) == Reading(text).wildcards
-----------------------------------------------------------------------------
(* The cache key and the names that are shown.                             *)

\* _key: the stripped parts in sorted order, so a bag of them.  Quotes mean nothing here.
Key(text) ==
    LET raw == Split(text, Comma)
    IN {<<p, Cardinality({k \in DOMAIN raw : Strip(raw[k]) = p})>> :
            p \in {Strip(raw[k]) : k \in DOMAIN raw} \ {<<>>}}

\* TableRef.fqname, which a card shows, and TableRef.regclass_literal.
FqName(t) == t[1] \o <<Dot>> \o t[2]
RegclassLiteral(t) == Wrapped(t[1]) \o <<Dot>> \o Wrapped(t[2])

\* PostgreSQL takes a quoted identifier that ends where its quotes say.
IsQuoted(s) == s = Wrapped(Doubled(Unquoted(s)))

\* The table a literal means to PostgreSQL, or none.
Regclass(literal) ==
    LET names == SplitTopLevel(literal, Dot)
    IN IF Len(names) = 2 /\ \A k \in 1 .. 2 : IsQuoted(names[k])
       THEN {<<Unquoted(names[1]), Unquoted(names[2])>>} ELSE {}
=============================================================================
