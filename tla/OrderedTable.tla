---------------------------- MODULE OrderedTable ----------------------------
(* What RTPHashTable and RTPKeyHashTable promise to RTPSources, to the          *)
(* destinations and to the ignore lists: the keys in the order they were added, *)
(* no key twice, and one cursor that iterates over them and survives deletion.  *)
EXTENDS SequencesExt

CONSTANTS Keys,
          Null,          \* the cursor is past the end, or a search failed
          Wild           \* the cursor points nowhere: never set, or into freed memory

VARIABLES items,         \* the keys, in order of arrival
          at,            \* the cursor
          told           \* what the last call answered

tableVars == <<items, at, told>>

Listed(k) == \E i \in DOMAIN items : items[i] = k
Place(k) == CHOOSE i \in DOMAIN items : items[i] = k
At(i) == IF i \in DOMAIN items THEN items[i] ELSE Null

AbstractInit == items = <<>> /\ at = Wild /\ told = "none"

Goto(k, answer) == at' = k /\ told' = answer /\ UNCHANGED items

GotoFirst == Goto(At(1), "ok")
GotoLast == Goto(At(Len(items)), "ok")
GotoNext == at # Wild /\ Goto(IF at = Null THEN Null ELSE At(Place(at) + 1), "ok")
GotoPrevious == at # Wild /\ Goto(IF at = Null THEN Null ELSE At(Place(at) - 1), "ok")
Seek(k) == IF Listed(k) THEN Goto(k, "ok") ELSE Goto(Null, "not found")
Has(k) == Goto(at, IF Listed(k) THEN "ok" ELSE "not found")

Put(k) ==
  IF Listed(k) THEN Goto(at, "exists")
  ELSE items' = Append(items, k) /\ told' = "ok" /\ UNCHANGED at

Take(k) ==
  /\ items' = RemoveAt(items, Place(k))
  /\ at' = At(Place(k) + 1)
  /\ told' = "ok"

TakeCurrent ==
  /\ at # Wild
  /\ IF at = Null THEN Goto(Null, "no current") ELSE Take(at)

Delete(k) == IF Listed(k) THEN Take(k) ELSE Goto(Null, "not found")

Clear == items' = <<>> /\ told' = "ok" /\ at' = (IF at = Null THEN Null ELSE Wild)

AbstractNext ==
  \/ GotoFirst \/ GotoLast \/ GotoNext \/ GotoPrevious \/ TakeCurrent \/ Clear
  \/ \E k \in Keys : Seek(k) \/ Has(k) \/ Put(k) \/ Delete(k)

AbstractSpec == AbstractInit /\ [][AbstractNext]_tableVars
=============================================================================
