------------------------------ MODULE HashTable ------------------------------
(* RTPHashTable (rtphashtable.h): an array of buckets whose elements are chained *)
(* twice, within their bucket and in the order they were added, and a cursor.    *)
(* The cursor is not initialised by the constructor, and Clear leaves it where   *)
(* it was: both are Wild here, and no caller follows such a cursor.              *)
EXTENDS Naturals, Sequences

CONSTANTS Keys,
          Buckets,
          Bucket,        \* GetIndex: the bucket of a key
          Null,
          Wild

ASSUME HashAssumption ==
  /\ Bucket \in [Keys -> Buckets]
  /\ Null \notin Keys /\ Wild \notin Keys /\ Null # Wild

VARIABLES head,          \* table: the first element of each bucket
          link,          \* the elements there are, each with its four pointers
          first, last,   \* firsthashelem, lasthashelem
          cur,           \* curhashelem
          answer         \* what the last call returned

hashVars == <<head, link, first, last, cur, answer>>

HashElement == [hashprev : Keys \cup {Null}, hashnext : Keys \cup {Null},
                listprev : Keys \cup {Null}, listnext : Keys \cup {Null}]

HashInit ==
  /\ head = [b \in Buckets |-> Null]
  /\ link = <<>>
  /\ first = Null /\ last = Null
  /\ cur = Wild
  /\ answer = "none"

Found(k) ==
  LET Below[e \in DOMAIN link \cup {Null}] == e # Null /\ (e = k \/ Below[link[e].hashnext])
  IN  Below[head[Bucket[k]]]

MoveTo(e, status) == cur' = e /\ answer' = status /\ UNCHANGED <<head, link, first, last>>

GotoFirstElement == MoveTo(first, "ok")
GotoLastElement == MoveTo(last, "ok")
GotoNextElement == cur # Wild /\ MoveTo(IF cur = Null THEN Null ELSE link[cur].listnext, "ok")
GotoPreviousElement == cur # Wild /\ MoveTo(IF cur = Null THEN Null ELSE link[cur].listprev, "ok")
GotoElement(k) == IF Found(k) THEN MoveTo(k, "ok") ELSE MoveTo(Null, "not found")
HasElement(k) == MoveTo(cur, IF Found(k) THEN "ok" ELSE "not found")

(* A mutant: the element behind keeps pointing back at the deleted one's place. *)
UnlinkedForwards(k) ==
  LET old == link[k]
      Into(e) ==
        [hashprev |-> IF e = old.hashnext THEN old.hashprev ELSE link[e].hashprev,
         hashnext |-> IF e = old.hashprev THEN old.hashnext ELSE link[e].hashnext,
         listprev |-> IF e = old.listnext THEN Null ELSE link[e].listprev,
         listnext |-> IF e = old.listprev THEN old.listnext ELSE link[e].listnext]
  IN  [e \in DOMAIN link \ {k} |-> Into(e)]

(* The pointers once the element k, reached by the cursor, is out of both chains. *)
Unlinked(k) ==
  LET old == link[k]
      Into(e) ==
        [hashprev |-> IF e = old.hashnext THEN old.hashprev ELSE link[e].hashprev,
         hashnext |-> IF e = old.hashprev THEN old.hashnext ELSE link[e].hashnext,
         listprev |-> IF e = old.listnext THEN old.listprev ELSE link[e].listprev,
         listnext |-> IF e = old.listprev THEN old.listnext ELSE link[e].listnext]
  IN  [e \in DOMAIN link \ {k} |-> Into(e)]

Relink(k) ==
  LET old == link[k]
  IN  /\ head' = IF old.hashprev = Null THEN [head EXCEPT ![Bucket[k]] = old.hashnext] ELSE head
      /\ first' = IF old.listprev = Null THEN old.listnext ELSE first
      /\ last' = IF old.listnext = Null THEN old.listprev ELSE last
      /\ link' = Unlinked(k)
      /\ cur' = old.listnext
      /\ answer' = "ok"

DeleteCurrentElement ==
  /\ cur # Wild
  /\ IF cur = Null THEN MoveTo(Null, "no current") ELSE Relink(cur)

DeleteElement(k) == IF Found(k) THEN Relink(k) ELSE MoveTo(Null, "not found")

(* The pointers once k is in: at the head of its bucket, at the end of the list. *)
Linked(k) ==
  LET next == head[Bucket[k]]
      Old(e) == [link[e] EXCEPT !.hashprev = IF e = next THEN k ELSE @,
                                !.listnext = IF e = last THEN k ELSE @]
      new == [hashprev |-> Null, hashnext |-> next, listprev |-> last, listnext |-> Null]
  IN  [e \in DOMAIN link \cup {k} |-> IF e = k THEN new ELSE Old(e)]

AddElement(k) ==
  IF Found(k) THEN MoveTo(cur, "exists")
  ELSE /\ link' = Linked(k)
       /\ head' = [head EXCEPT ![Bucket[k]] = k]
       /\ first' = IF first = Null THEN k ELSE first
       /\ last' = k
       /\ answer' = "ok"
       /\ UNCHANGED cur

ClearElements ==
  /\ head' = [b \in Buckets |-> Null]
  /\ link' = <<>>
  /\ first' = Null /\ last' = Null
  /\ cur' = IF cur = Null THEN Null ELSE Wild
  /\ answer' = "ok"

HashNext ==
  \/ GotoFirstElement \/ GotoLastElement \/ GotoNextElement \/ GotoPreviousElement
  \/ DeleteCurrentElement \/ ClearElements
  \/ \E k \in Keys : GotoElement(k) \/ HasElement(k) \/ AddElement(k) \/ DeleteElement(k)
-----------------------------------------------------------------------------
HashTypeOK ==
  /\ head \in [Buckets -> Keys \cup {Null}]
  /\ DOMAIN link \subseteq Keys
  /\ \A e \in DOMAIN link : link[e] \in HashElement
  /\ {first, last} \subseteq Keys \cup {Null}
  /\ cur \in Keys \cup {Null, Wild}

(* The elements from e on, in list order: what an iteration visits. *)
ListFrom[e \in DOMAIN link \cup {Null}] ==
  IF e = Null THEN <<>> ELSE <<e>> \o ListFrom[link[e].listnext]

Ordered == INSTANCE OrderedTable WITH items <- ListFrom[first], at <- cur, told <- answer

(* Every sequence of calls of the hash table is one of a table that keeps the    *)
(* keys in order of arrival: nothing is lost or found twice, an iteration that   *)
(* deletes goes on with the element after the deleted one, in both directions.   *)
TableSpec == Ordered!AbstractSpec
=============================================================================
