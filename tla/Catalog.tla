------------------------------- MODULE Catalog --------------------------------
(***************************************************************************)
(* The data of the app: the dictionaries Bars.allBars, Crawls.allCrawls    *)
(* and Deals.allDeals, the repositories that fill them, and the lookups    *)
(* that resolve the references from one collection into another.           *)
(*                                                                         *)
(* HomeViewController asks Firestore for each collection once, when it has *)
(* appeared.  The three answers come in any order, each in one callback on *)
(* the main thread: a snapshot (from the server, or from an incomplete     *)
(* cache when the device is offline) or an error.  A document is its id;   *)
(* of its data only the references to other documents are kept, which need *)
(* not resolve.                                                            *)
(***************************************************************************)
EXTENDS Naturals, Sequences, FiniteSets

CONSTANTS
  BarId, CrawlId, DealId,  \* the ids in use in each collection
  crawlIds, dealIds,       \* BarData: the crawls and deals a bar refers to
  barIds,                  \* CrawlData: the bars a crawl visits
  Undecodable              \* documents FirestoreDecoder cannot decode

ASSUME ReferencesAreIds ==
  /\ crawlIds \in [BarId -> Seq(CrawlId)]
  /\ dealIds \in [BarId -> Seq(DealId)]
  /\ barIds \in [CrawlId -> Seq(BarId)]

VARIABLES
  allBars, allCrawls, allDeals,  \* the ids in the three dictionaries
  awaited,                       \* the collections not answered yet
  running                        \* the app has not crashed

catalogVars == <<allBars, allCrawls, allDeals, awaited, running>>

Collections == {"bars", "crawls", "deals"}

CatalogTypeOK ==
  /\ allBars \subseteq BarId
  /\ allCrawls \subseteq CrawlId
  /\ allDeals \subseteq DealId
  /\ awaited \subseteq Collections
  /\ running \in BOOLEAN
-----------------------------------------------------------------------------
\* HomeViewController.viewDidAppear has just asked for everything.
CatalogInit ==
  /\ allBars = {} /\ allCrawls = {} /\ allDeals = {}
  /\ awaited = Collections
  /\ running = TRUE

\* Slip: a snapshot listener instead of getDocuments, which goes on answering.
SlipKeepAnswering(collection) ==
  /\ running
  /\ collection \in awaited
  /\ UNCHANGED awaited

\* Firestore answers a getDocuments call once.
Answer(collection) ==
  /\ running
  /\ collection \in awaited
  /\ awaited' = awaited \ {collection}

\* try! crashes the app on the first document that does not decode.
Decode(docs) == running' = (docs \intersect Undecodable = {})

BarsArrived(docs) ==
  /\ Answer("bars")
  /\ Decode(docs)
  /\ allBars' = IF running' THEN allBars \union docs ELSE allBars
  /\ UNCHANGED <<allCrawls, allDeals>>

\* Slip: the loop over the crawls still fills the dictionary of the bars.
SlipStoreAsBars(docs) ==
  /\ Answer("crawls")
  /\ Decode(docs)
  /\ allBars' = IF running' THEN allBars \union docs ELSE allBars
  /\ UNCHANGED <<allCrawls, allDeals>>

CrawlsArrived(docs) ==
  /\ Answer("crawls")
  /\ Decode(docs)
  /\ allCrawls' = IF running' THEN allCrawls \union docs ELSE allCrawls
  /\ UNCHANGED <<allBars, allDeals>>

DealsArrived(docs) ==
  /\ Answer("deals")
  /\ Decode(docs)
  /\ allDeals' = IF running' THEN allDeals \union docs ELSE allDeals
  /\ UNCHANGED <<allBars, allCrawls>>

\* The error is printed, and nobody asks again.
QueryFailed(collection) ==
  /\ Answer(collection)
  /\ UNCHANGED <<allBars, allCrawls, allDeals, running>>

CatalogNext ==
  \/ \E docs \in SUBSET BarId : BarsArrived(docs)
  \/ \E docs \in SUBSET CrawlId : CrawlsArrived(docs)
  \/ \E docs \in SUBSET DealId : DealsArrived(docs)
  \/ \E collection \in Collections : QueryFailed(collection)

CatalogSpec == CatalogInit /\ [][CatalogNext]_catalogVars
-----------------------------------------------------------------------------
(***************************************************************************)
(* The lookups: the references of a document that resolve, in their order. *)
(***************************************************************************)

\* The loop of a lookup over refs: found[i] is the array after i rounds, and a
\* reference that is not loaded adds nothing to it.
Found(refs, loaded) ==
  LET found[i \in 0..Len(refs)] ==
        IF i = 0 THEN <<>>
        ELSE IF refs[i] \in loaded THEN Append(found[i - 1], refs[i])
        ELSE found[i - 1]
  IN  found[Len(refs)]

\* Slip: the references are used without looking them up.
SlipUnresolved(b) == IF b \in allBars THEN crawlIds[b] ELSE <<>>

getAllCrawlsForBarId(b) == IF b \in allBars THEN Found(crawlIds[b], allCrawls) ELSE <<>>
getAllDealsForBarId(b) == IF b \in allBars THEN Found(dealIds[b], allDeals) ELSE <<>>
getAllBarsForCrawlId(c) == IF c \in allCrawls THEN Found(barIds[c], allBars) ELSE <<>>
-----------------------------------------------------------------------------
(***************************************************************************)
(* Properties                                                              *)
(***************************************************************************)

\* The documents of refs that are in loaded, by position and not by filtering:
\* as many as refs has, and the ones that come k-th in both are the same.
Resolves(result, refs, loaded) ==
  LET hits == {i \in DOMAIN refs : refs[i] \in loaded}
  IN  /\ Len(result) = Cardinality(hits)
      /\ \A i \in hits : result[Cardinality({j \in hits : j \leq i})] = refs[i]

\* A lookup returns the references that resolve and no other, in the order and
\* as often as the document has them, and nothing for a missing document.
LookupsResolve ==
  /\ \A b \in BarId :
       /\ Resolves(getAllCrawlsForBarId(b), crawlIds[b],
                   IF b \in allBars THEN allCrawls ELSE {})
       /\ Resolves(getAllDealsForBarId(b), dealIds[b],
                   IF b \in allBars THEN allDeals ELSE {})
  /\ \A c \in CrawlId :
       Resolves(getAllBarsForCrawlId(c), barIds[c],
                IF c \in allCrawls THEN allBars ELSE {})

\* A lookup that has found something never gives another answer: the screens
\* keep what they looked up, so they are never a part of what there is.
LookupsSettle ==
  [][/\ \A b \in BarId :
          /\ getAllCrawlsForBarId(b) # <<>> => UNCHANGED getAllCrawlsForBarId(b)
          /\ getAllDealsForBarId(b) # <<>> => UNCHANGED getAllDealsForBarId(b)
     /\ \A c \in CrawlId :
          getAllBarsForCrawlId(c) # <<>> => UNCHANGED getAllBarsForCrawlId(c)
    ]_catalogVars
=============================================================================
