----------------------------- MODULE KeyHashTable -----------------------------
(* RTPKeyHashTable (rtpkeyhashtable.h), the table of RTPSources: the chains and   *)
(* the cursor of RTPHashTable, with an element stored beside each key.            *)
EXTENDS HashTable

CONSTANT Values

VARIABLE element         \* the element stored with each key

keyVars == <<hashVars, element>>

KeyHashInit == HashInit /\ element = <<>>

GetCurrentKey == cur
GetCurrentElement == element[cur]

AddKeyElement(k, v) ==
  /\ AddElement(k)
  /\ element' = [e \in DOMAIN link' |-> IF e \in DOMAIN element THEN element[e] ELSE v]

Kept == element' = [e \in DOMAIN link' |-> element[e]]

GotoFirstKey == GotoFirstElement /\ Kept
GotoLastKey == GotoLastElement /\ Kept
GotoNextKey == GotoNextElement /\ Kept
GotoPreviousKey == GotoPreviousElement /\ Kept
GotoKey(k) == GotoElement(k) /\ Kept
HasKey(k) == HasElement(k) /\ Kept
DeleteCurrentKey == DeleteCurrentElement /\ Kept
DeleteKey(k) == DeleteElement(k) /\ Kept
ClearKeys == ClearElements /\ Kept

KeyHashNext ==
  \/ GotoFirstKey \/ GotoLastKey \/ GotoNextKey \/ GotoPreviousKey
  \/ DeleteCurrentKey \/ ClearKeys
  \/ \E k \in Keys : GotoKey(k) \/ HasKey(k) \/ DeleteKey(k)
  \/ \E k \in Keys, v \in Values : AddKeyElement(k, v)
=============================================================================
