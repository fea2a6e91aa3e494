----------------------------- MODULE MCHotReload -----------------------------
(***************************************************************************)
(* Instances of HotReload for TLC.  d1 and d2 are sound components, d3     *)
(* parses but breaks the contract, d4 meets the contract but does not      *)
(* compile.                                                                *)
(***************************************************************************)
EXTENDS HotReload, TLC

CONSTANTS t1, t2, t3, d1, d2, d3, d4, p1

\* t1 follows its tag, t2 is pinned, t3 is read from a file once.
ThreeTenants == <<t3, t2, t1>>
ThreeOrders == {<<t1, t2, t3>>, <<t2, t3, t1>>}
ThreeCatalog == (t1 :> {d1, d2, d3, d4}) @@ (t2 :> {d1, d2}) @@ (t3 :> {d1})
SecondPinned == (t1 :> None) @@ (t2 :> d1) @@ (t3 :> None)

\* Both follow their tags.
TwoTenants == <<t1, t2>>
BothOrders == {<<t1, t2>>, <<t2, t1>>}
TagCatalog == (t1 :> {d1, d2}) @@ (t2 :> {d1, d3})
NoPins == (t1 :> None) @@ (t2 :> None)
=============================================================================
