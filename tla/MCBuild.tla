------------------------------- MODULE MCBuild -------------------------------
(* Small instances of the full build. *)
EXTENDS Build
Sale(m, c, b, r) == [month |-> m, customer |-> c, release |-> b, recent |-> r]
MCSales == <<Sale(1, 1, 1, FALSE), Sale(2, 1, 1, TRUE), Sale(1, 2, 2, FALSE), Sale(2, 3, 1, TRUE)>>
MCRanges == <<{1, 2}, {3}>>
MCWebTables == <<"accounts", "page_views">>
==============================================================================
