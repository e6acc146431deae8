------------------------------ MODULE MCCrawlApp ------------------------------
(***************************************************************************)
(* Model checking of CrawlApp: two bars on one crawl, which the second bar *)
(* lists twice, and a bar with two deals.  The sheets of a class are       *)
(* interchangeable: no property compares two of them.                      *)
(***************************************************************************)
EXTENDS CrawlApp, TLC

CONSTANTS b1, b2, c1, d1, d2

MCcrawlIds == b1 :> <<c1>> @@ b2 :> <<c1, c1>>
MCdealIds == b1 :> <<d2, d1>> @@ b2 :> <<>>
MCdealIdsNone == b1 :> <<>> @@ b2 :> <<>>
MCbarIds == c1 :> <<b2, b1>>

Symmetry == Permutations(Small) \union Permutations(Standard)
=============================================================================
