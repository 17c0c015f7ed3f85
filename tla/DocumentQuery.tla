--------------------------- MODULE DocumentQuery ---------------------------
(***************************************************************************)
(* A query of the document store that is read page by page: ListByPrefix,  *)
(* its iterator, the retries of do, and the list that the callers put      *)
(* together while other requests create and delete documents.              *)
(*                                                                         *)
(* Documents are numbers, in the order in which the store goes through     *)
(* them; a continuation is the last one it has been past, 0 stands for "". *)
(***************************************************************************)
EXTENDS Naturals, Sequences

CONSTANTS
  NDocs,       \* the documents are 1 .. NDocs...
  Others,      \* ...of which these do not have the prefix
  MaxRetries   \* c.maxRetries

VARIABLES
  stored,        \* the documents in the store
  continuation,  \* of the iterator
  iterDone,      \* i.done
  retry,         \* attempts of do that were throttled
  list,          \* the documents that the caller has collected
  listPc,        \* "idle", "next", "ended" or "failed"
  throughout,    \* history: stored all the time since the listing began...
  ever           \* ...and at any time since then

listVars == <<stored, continuation, iterDone, retry, list, listPc, throughout, ever>>

Docs == 1 .. NDocs
Matches(ds) == ds \ Others

ListInit ==
  /\ stored \in SUBSET Docs
  /\ continuation = 0 /\ iterDone = FALSE /\ retry = 0 /\ list = <<>>
  /\ listPc = "idle" /\ throughout = {} /\ ever = {}

ListByPrefix ==
  /\ listPc = "idle"
  /\ continuation' = 0 /\ iterDone' = FALSE /\ retry' = 0 /\ list' = <<>>
  /\ listPc' = "next" /\ throughout' = stored /\ ever' = stored
  /\ UNCHANGED stored

\* External: the store goes on from a continuation for as long as it likes,
\* and gives a continuation unless it has come to the end.
Page(from, to) == SelectSeq([i \in 1 .. to - from |-> from + i], LAMBDA d : d \in Matches(stored))

\* Mutant: the query starts again with every page.
NextRaw_NoContinuation ==
  /\ listPc = "next" /\ ~iterDone
  /\ \E to \in continuation + 1 .. NDocs :
       /\ list' = list \o Page(0, to)
       /\ continuation' = IF to = NDocs THEN 0 ELSE to
  /\ iterDone' = (continuation' = 0) /\ retry' = 0
  /\ UNCHANGED <<stored, listPc, throughout, ever>>

NextRaw ==
  /\ listPc = "next" /\ ~iterDone
  /\ \E to \in continuation + 1 .. NDocs :
       /\ list' = list \o Page(continuation, to)
       /\ continuation' = IF to = NDocs THEN 0 ELSE to
  /\ iterDone' = (continuation' = 0) /\ retry' = 0
  /\ UNCHANGED <<stored, listPc, throughout, ever>>

\* 429: do sleeps and asks again; the last attempt's error is returned.
do ==
  /\ listPc = "next" /\ ~iterDone
  /\ retry' = retry + 1
  /\ listPc' = IF retry + 1 = MaxRetries THEN "failed" ELSE "next"
  /\ UNCHANGED <<stored, continuation, iterDone, list, throughout, ever>>

\* Any other error, and a 429 without x-ms-retry-after-ms.
_do ==
  /\ listPc = "next" /\ ~iterDone
  /\ listPc' = "failed"
  /\ UNCHANGED <<stored, continuation, iterDone, retry, list, throughout, ever>>

\* A done iterator returns nil, and the caller has its list.
Collected ==
  /\ listPc = "next" /\ iterDone
  /\ listPc' = "ended"
  /\ UNCHANGED <<stored, continuation, iterDone, retry, list, throughout, ever>>

Again ==
  /\ listPc \in {"ended", "failed"}
  /\ listPc' = "idle" /\ list' = <<>> /\ throughout' = {} /\ ever' = {}
  /\ continuation' = 0 /\ iterDone' = FALSE /\ retry' = 0
  /\ UNCHANGED stored

StoreChanges ==
  /\ \E d \in Docs : stored' = (IF d \in stored THEN stored \ {d} ELSE stored \cup {d})
  /\ throughout' = IF listPc = "next" THEN throughout \cap stored' ELSE throughout
  /\ ever' = IF listPc = "next" THEN ever \cup stored' ELSE ever
  /\ UNCHANGED <<continuation, iterDone, retry, list, listPc>>

ListNext == ListByPrefix \/ NextRaw \/ do \/ _do \/ Collected \/ Again \/ StoreChanges

---------------------------------------------------------------------------
\* A list that ends without an error has every document of the prefix that
\* was there all the time exactly once, none twice, and only documents that
\* were there at some time; so a sweep of a subscription misses no cluster
\* (the iterator's continuation and done).
ListExact ==
  listPc = "ended" =>
    LET found == {list[i] : i \in DOMAIN list}
    IN  /\ Matches(throughout) \subseteq found /\ found \subseteq Matches(ever)
        /\ \A i, j \in DOMAIN list : list[i] = list[j] => i = j

===========================================================================
