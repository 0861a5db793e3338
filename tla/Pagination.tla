------------------------------ MODULE Pagination ------------------------------
(***************************************************************************)
(* paginate of NeutrxClient (src/src/core/NeutrxClient.ts, of which the    *)
(* browser's client has a copy): an asynchronous generator that asks for   *)
(* one page after another until the answer says that there is no more.     *)
(*                                                                         *)
(* The server is external and tells the truth about a collection of items, *)
(* which has an order and may change between two requests.  It takes a     *)
(* page number, or a cursor: the last item the client has got.  An answer  *)
(* is a value of JSON, [json, of], and the links of its header.  A URL     *)
(* with a comma cannot be told from two links by parseNextLink.            *)
(*                                                                         *)
(* NoMoreLate is a mutated form of the definition it precedes; no action   *)
(* uses it.                                                                *)
(***************************************************************************)
EXTENDS Undefined, Numbers, Integers, FiniteSets, SequencesExt

CONSTANTS
    Entries,       \* numbers, in the order of the collection
    PageSizes,     \* the values of pageSize tried
    PageLimits,    \* and of maxPages; None stands for the default, no limit
    MaxChanges     \* bound on the changes of the collection

ASSUME PageAssumption ==
    /\ Entries \subseteq Nat /\ IsFiniteSet(Entries)
    /\ PageSizes \subseteq Nat \ {0} /\ PageLimits \subseteq Nat \cup {None}
    /\ MaxChanges \in Nat
    /\ None \notin Nat /\ None \notin [by : {"link"}, at : Nat, limit : Nat]

VARIABLES
    collection,    \* the items there are now
    walk,          \* the generator: its options, whether the URLs it is given have
                   \* commas, and its local variables
    answer,        \* the last response, or None
    yielded,       \* history: the items of all pages yielded, in order
    lasting,       \* history: the items that were there all along
    changes        \* history: how often the collection changed

pageVars == <<collection, walk, answer, yielded, lasting, changes>>

PageStrategies == {"has-more", "total-count", "cursor", "link-header"}

-----------------------------------------------------------------------------
\* Answers.

Null == [json |-> "null"]
Object(members) == [json |-> "object", of |-> members]
Array(items) == [json |-> "array", of |-> items]
Boolean(b) == [json |-> "boolean", of |-> b]
Number(n) == [json |-> "number", of |-> n]

Member(v, key) == IF v.json = "object" /\ key \in DOMAIN v.of THEN v.of[key] ELSE Null
dig(value, path) ==
    LET found[n \in 0..Len(path)] == IF n = 0 THEN value ELSE Member(found[n - 1], path[n])
    IN  found[Len(path)]

\* The first link whose rel is next and whose URL comes through the split at commas.
parseNextLink(links) ==
    LET next == {n \in DOMAIN links : links[n].rel = "next" /\ ~links[n].comma}
    IN  IF next = {} THEN None ELSE links[CHOOSE n \in next : \A m \in next : n <= m].query

\* The items of a set in their order.
Arranged(S) == [n \in 1..Cardinality(S) |-> CHOOSE i \in S : Cardinality({j \in S : j <= i}) = n]

\* The page a query is about, in what it leaves of the collection, and whether that ends there.
RestOf(query) == IF query.by = "cursor" THEN {i \in collection : i > query.at} ELSE collection
SkippedBy(query) == IF query.by = "cursor" THEN 0 ELSE (query.at - 1) * query.limit
MoreAfter(query) == Cardinality(RestOf(query)) > SkippedBy(query) + query.limit
PageOf(query) ==
    SubSeq(Arranged(RestOf(query)), SkippedBy(query) + 1,
           Smaller(Cardinality(RestOf(query)), SkippedBy(query) + query.limit))
\* What the server answers: the page, and behind dotted paths what it tells of the rest.
Served(query, commas) ==
    LET more  == MoreAfter(query)
        total == Number(Cardinality(collection))
        next  == [rel |-> "next", comma |-> commas,
                  query |-> [by |-> "link", at |-> query.at + 1, limit |-> query.limit]]
    IN  [data |-> Object([result |-> Array(PageOf(query)),
                          page |-> Object(
                              IF more /\ query.by # "link"
                              THEN [hasMore |-> Boolean(more), total |-> total, next |-> Number(Last(PageOf(query)))]
                              ELSE [hasMore |-> Boolean(more), total |-> total])]),
         links |-> IF more THEN <<[next EXCEPT !.rel = "last"], next>> ELSE <<>>]

-----------------------------------------------------------------------------
\* The generator.

Walks ==
    {w \in [stage : {"looping"}, strategy : PageStrategies, size : PageSizes, limit : PageLimits,
            commas : BOOLEAN, page : {1}, cursor : {None}, link : {None}, seen : {0}] :
        w.commas => w.strategy = "link-header"}

PageInit ==
    /\ collection \in SUBSET Entries /\ walk \in Walks
    /\ answer = None
    /\ yielded = <<>> /\ lasting = collection /\ changes = 0

At(stage) == [walk EXCEPT !.stage = stage]
Within == walk.limit = None \/ walk.page <= walk.limit

\* What get() is called with.
Query ==
    IF walk.link # None THEN walk.link
    ELSE IF walk.strategy = "cursor" /\ walk.cursor # None
         THEN [by |-> "cursor", at |-> walk.cursor, limit |-> walk.size]
         ELSE [by |-> "page", at |-> walk.page, limit |-> walk.size]

\* The head of the loop, and the consumer's call of next() that got there.
AskPage ==
    /\ walk.stage = "looping"
    /\ walk' = At(IF Within THEN "asking" ELSE "spent")
    /\ UNCHANGED <<collection, answer, yielded, lasting, changes>>

\* The response arrives, and its page is yielded.
Yield ==
    /\ walk.stage = "asking"
    /\ answer' = Served(Query, walk.commas)
    /\ yielded' = yielded \o dig(answer'.data, <<"result">>).of
    /\ walk' = At("yielded")
    /\ UNCHANGED <<collection, lasting, changes>>

\* The request fails, and with it the generator; or its consumer leaves the loop.
Break ==
    /\ walk.stage \in {"asking", "yielded"}
    /\ walk' = At("left")
    /\ UNCHANGED <<collection, answer, yielded, lasting, changes>>

\* Number(null) is 0.
TotalOf(value) == IF value.json = "number" THEN value.of ELSE 0
NoMoreLate(seen, next, link) ==
    CASE walk.strategy = "has-more"    -> dig(answer.data, <<"page", "hasMore">>) \in {Null, Boolean(FALSE)}
      [] walk.strategy = "total-count" -> seen > TotalOf(dig(answer.data, <<"page", "total">>))
      [] walk.strategy = "cursor"      -> next.json # "number"
      [] walk.strategy = "link-header" -> link = None
NoMore(seen, next, link) ==
    CASE walk.strategy = "has-more"    -> dig(answer.data, <<"page", "hasMore">>) \in {Null, Boolean(FALSE)}
      [] walk.strategy = "total-count" -> seen >= TotalOf(dig(answer.data, <<"page", "total">>))
      [] walk.strategy = "cursor"      -> next.json # "number"
      [] walk.strategy = "link-header" -> link = None

\* The consumer asks for the next page, and the generator goes on behind its yield.
Resume ==
    LET seen == walk.seen + Len(dig(answer.data, <<"result">>).of)
        next == dig(answer.data, <<"page", "next">>)
        link == parseNextLink(answer.links)
    IN  /\ walk.stage = "yielded"
        /\ walk' = [walk EXCEPT
                       !.stage = IF NoMore(seen, next, link) THEN "ended" ELSE "looping",
                       !.seen = seen,
                       !.page = @ + 1,
                       !.cursor = IF walk.strategy = "cursor" /\ next # Null THEN next.of ELSE @,
                       !.link = IF walk.strategy = "link-header" THEN link ELSE @]
        /\ UNCHANGED <<collection, answer, yielded, lasting, changes>>

\* Somebody adds an item, or deletes one.
Change(i) ==
    /\ changes < MaxChanges
    /\ walk.stage \notin {"ended", "spent", "left"}
    /\ collection' = IF i \in collection THEN collection \ {i} ELSE collection \cup {i}
    /\ lasting' = lasting \ {i}
    /\ changes' = changes + 1
    /\ UNCHANGED <<walk, answer, yielded>>

PageNext == AskPage \/ Yield \/ Break \/ Resume \/ \E i \in Entries : Change(i)

PageSpec == PageInit /\ [][PageNext]_pageVars

-----------------------------------------------------------------------------
Steady == changes = 0 /\ ~walk.commas

\* While nothing changes the pages are the collection, item by item from its beginning,
\* and no page is empty but the only one of an empty collection: the generator does not
\* ask on when it has everything.
InOrder ==
    Steady => /\ IsPrefix(yielded, Arranged(collection))
              /\ walk.stage = "yielded" /\ walk.page > 1
                     => dig(answer.data, <<"result">>).of # <<>>

\* A generator that ends because the server says so has yielded everything; by cursor
\* even what was there all along while other items came and went.
Whole ==
    walk.stage = "ended" =>
        /\ Steady => ToSet(yielded) = collection
        /\ walk.strategy = "cursor" => lasting \subseteq ToSet(yielded)

\* No item is yielded twice: by cursor never, by page number not while nothing changes.
NotTwice == Steady \/ walk.strategy = "cursor" => Len(yielded) = Cardinality(ToSet(yielded))

\* paginate yields every item once, whatever tells it to go on: the number of the page,
\* the count of what it has seen, a cursor or a link.
EveryItemOnce == InOrder /\ Whole /\ NotTwice
===============================================================================
