------------------------------ MODULE MCCatalog -------------------------------
(***************************************************************************)
(* Model checking of Catalog: a bar that lists a crawl twice, references   *)
(* that may not resolve, bars and crawls that refer to nothing.            *)
(***************************************************************************)
EXTENDS Catalog, TLC

CONSTANTS b1, b2, b3, c1, c2, d1, d2

MCcrawlIds == b1 :> <<c2, c1, c2>> @@ b2 :> <<c1>> @@ b3 :> <<c2>>
MCdealIds == b1 :> <<d1, d2>> @@ b2 :> <<>> @@ b3 :> <<d2, d2>>
MCbarIds == c1 :> <<b2, b3, b1>> @@ c2 :> <<b1, b1, b2>>
=============================================================================
