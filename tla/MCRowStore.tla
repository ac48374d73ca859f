----------------------------- MODULE MCRowStore -----------------------------
(* Small instances of RowStore for TLC, by name. *)
EXTENDS RowStore

CONSTANTS s1, s2, f1, f2, k1, b1, b2, c1, c2

MCScopes == {s1, s2}
MCFields == {f1, f2}
OneKey   == {k1}
MCBodies == {b1, b2}

\* Two entities, which list their categories in opposite orders, and a record.
Entities     == {1, 2}
MCCategories == {c1, c2}
Crosswise    == [r \in Entities |-> IF r = 1 THEN <<c1, c2>> ELSE <<c2, c1>>]
MCEdits      == {{<<2, f1>>}, {<<1, f1>>, <<3, f1>>}, {<<3, f2>>}}
=============================================================================
