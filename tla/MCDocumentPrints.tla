-------------------------- MODULE MCDocumentPrints --------------------------
(* DocumentPrints for TLC: two windows on one document, and what their    *)
(* users ask for.                                                         *)
EXTENDS DocumentPrints, Integers, TLC

From(first, last) == [start |-> first, end |-> last]

\* Ranges of a document of three pages: the whole, two ranges of which the
\* second is beyond the end, an open one and a single page out of order.
MCRanges ==
    {<<From(0, 2)>>, <<From(0, 1), From(5, 6)>>, <<From(2, 2), From(1, -1)>>}

Asked(ranges, copies) ==
    [ranges : ranges, page_set : {"all", "even", "odd"}, collate : BOOLEAN,
     reverse : BOOLEAN, copies : copies, pages_per_sheet : {1, 2}]

Simple ==
    [ranges |-> <<From(0, 1)>>, page_set |-> "all", collate |-> TRUE,
     reverse |-> FALSE, copies |-> 1, pages_per_sheet |-> 1]

\* One operation that asks for anything, beside one for two pages in the
\* other window; or three operations for two pages each.
MCPlans ==
    {(1 :> s) @@ (2 :> Simple) @@ (3 :> Null) : s \in Asked(MCRanges, {1, 2})}
    \cup {[op \in 1 .. 3 |-> Simple]}

MCWindowOf == (1 :> "a") @@ (2 :> "b") @@ (3 :> "a")
=============================================================================
