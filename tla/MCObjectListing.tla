--------------------------- MODULE MCObjectListing ---------------------------
(* ObjectListing over the bytes '/', 'a' and 'b' with chunks of two bytes: *)
(* keys of one to three chunks, a key that is the branch of others, and    *)
(* prefixes that end within and after a chunk.  Two selections are of S3   *)
(* requests, with a StartAfter that hides some of the keys.                *)
EXTENDS ObjectListing

slash == 2
a == 3
b == 4

MCKeys == {<<a>>, <<a, slash>>, <<a, slash, a>>, <<a, slash, b, a, a>>, <<b>>}

MCPopulations == {MCKeys, {<<a>>, <<a, slash>>, <<a, slash, b, a, a>>}, {<<b>>}}

MCSelections == {
    [prefix |-> <<>>, grouped |-> FALSE, after |-> NULL],
    [prefix |-> <<>>, grouped |-> TRUE, after |-> NULL],
    [prefix |-> <<a, slash>>, grouped |-> TRUE, after |-> NULL],
    [prefix |-> <<a, slash, b>>, grouped |-> FALSE, after |-> NULL],
    [prefix |-> <<>>, grouped |-> FALSE, after |-> <<a, slash, b, a>>],
    [prefix |-> <<a>>, grouped |-> TRUE, after |-> <<a>>]}

=============================================================================
