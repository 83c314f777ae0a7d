----------------------------- MODULE MCLexicon ------------------------------
(* The lexicon for TLC: an alphabet with upper and lower case and a sharp s *)
(* that folds to two characters, and entries whose matches overlap.         *)
EXTENDS Lexicon

CONSTANTS p1

Alphabet == {"a", "A", "s", "z", "_"}
FoldOf   == [c \in Alphabet |->
               CASE c = "A" -> <<"a">> [] c = "z" -> <<"s", "s">> [] OTHER -> <<c>>]

Entry(id, variant, mode, canonical, priority, scope) ==
    [id |-> id, variant |-> variant, mode |-> mode, canonical |-> canonical,
     priority |-> priority, scope |-> scope, enabled |-> TRUE]

EntryPool == {
    Entry(1, <<"a">>, "casefold", <<"z", "a">>, 1, None),
    Entry(2, <<"a", "_", "a">>, "casefold", <<"A">>, 1, None),
    Entry(3, <<"s">>, "casefold", <<"a", "a", "a">>, 2, None),
    Entry(4, <<"s", "s">>, "casefold", <<"s">>, 1, p1),
    Entry(5, <<"A">>, "sensitive", <<"A", "_", "A">>, 2, p1)}
=============================================================================
