--------------------------- MODULE MCSchemaCards ---------------------------
(* SchemaCards on small instances: a table with a comma in its name and one   *)
(* of a system schema.                                                        *)
EXTENDS SchemaCards, TLC

WithComma == <<<<"s">>, <<"x", Comma, "y">>>>
Internal == <<<<"m">>, <<"a">>>>

Skewed == <<<<"w">>, <<"b">>>>

MCTables == {WithComma, Internal, Skewed}
MCSystem == {<<"m">>}
MCSeparator == <<Comma, Blank>>

Of(form, t) == [form |-> form, table |-> t]

\* A table, its schema and another one; everything; and no scope.
MCScopes == {
    <<Of("table", WithComma), Of("schema", WithComma), Of("schema", Internal)>>,
    <<Of("all", WithComma)>>,
    <<Of("bare", WithComma)>>}

\* Everything, and a table besides.
MCCombinedScopes == {<<Of("all", WithComma), Of("table", Internal)>>}

MCWide == {Skewed}

\* Two names that differ in a blank after a comma, each asked for.
Spaced == <<<<"s">>, <<"x", Comma, Blank, "y">>>>
MCLookalikes == {WithComma, Spaced}
MCLookalikeScopes == {<<Of("table", WithComma)>>, <<Of("table", Spaced)>>}

\* A table with a quote in its name.
Quoted == <<<<"s">>, <<"x", Quote, "y">>>>
MCQuotedTables == {Quoted}
MCQuotedScopes == {<<Of("schema", Quoted)>>}

Symmetry == Permutations(Callers)
============================================================================
