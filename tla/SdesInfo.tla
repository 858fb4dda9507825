------------------------------ MODULE SdesInfo ------------------------------
(***************************************************************************)
(* RTCPSDESInfo: the description of one participant.  An item is known by   *)
(* its content; the private items are a list, found by prefix, with one     *)
(* iterator that stays where it is while items are added and deleted.       *)
(* PrivNames and values are no longer than an SDES item can be.              *)
(***************************************************************************)
EXTENDS Integers, SequencesExt

CONSTANTS
    Fields,             \* CNAME, name, e-mail and so on
    PrivNames,          \* the prefixes
    Contents,
    TooLong,            \* the contents of more than RTCP_SDES_MAXITEMLENGTH bytes
    MaxPrivItems,       \* RTP_MAXPRIVITEMS, 256
    Blank,              \* an item that is not set
    Bottom,             \* privitems.end()
    Lost                \* an iterator that was never set, or whose item was deleted

ASSUME SdesAssumption ==
    /\ TooLong \subseteq Contents /\ MaxPrivItems \in Nat
    /\ Blank \notin Contents
    /\ Bottom \notin PrivNames /\ Lost \notin PrivNames /\ Bottom # Lost

VARIABLES
    fields,             \* nonprivateitems
    privitems,          \* [prefix, value] in list order
    curitem,            \* the prefix of the item the iterator is at
    visit               \* history: [given, owed] of the iteration under way

sdesVars == <<fields, privitems, curitem, visit>>

NoVisit == [given |-> <<>>, owed |-> {}]

SdesInit ==
    /\ fields = [f \in Fields |-> Blank]
    /\ privitems = <<>>
    /\ curitem = Lost
    /\ visit = NoVisit

PrefixAt(i) == IF i \in DOMAIN privitems THEN privitems[i].prefix ELSE Bottom
PlacesOf(p) == {i \in DOMAIN privitems : privitems[i].prefix = p}

SetNonPrivateItem(f, c) ==
    /\ fields' = IF c \in TooLong THEN fields ELSE [fields EXCEPT ![f] = c]
    /\ UNCHANGED <<privitems, curitem, visit>>

\* A mutant: the prefix is not looked for first.
SetPrivateValueAnew(p, c) ==
    /\ privitems' = IF Len(privitems) >= MaxPrivItems THEN privitems
                    ELSE <<[prefix |-> p, value |-> c]>> \o privitems
    /\ UNCHANGED <<fields, curitem, visit>>

\* An item with the prefix gets the value, or a new one goes to the front.
SetPrivateValue(p, c) ==
    /\ privitems' =
         IF PlacesOf(p) # {} THEN [i \in DOMAIN privitems |->
                                   IF i \in PlacesOf(p) THEN [prefix |-> p, value |-> c] ELSE privitems[i]]
         ELSE IF Len(privitems) >= MaxPrivItems THEN privitems
         ELSE <<[prefix |-> p, value |-> c]>> \o privitems
    /\ UNCHANGED <<fields, curitem, visit>>

\* The first item with the prefix goes.
FirstOf(p) == CHOOSE i \in PlacesOf(p) : \A j \in PlacesOf(p) : i <= j
DeletePrivatePrefix(p) ==
    /\ privitems' = IF PlacesOf(p) = {} THEN privitems ELSE RemoveAt(privitems, FirstOf(p))
    /\ curitem' = IF p = curitem /\ PlacesOf(p) # {} THEN Lost ELSE curitem
    /\ visit' = [visit EXCEPT !.owed = @ \ {p}]
    /\ UNCHANGED fields

GotoFirstPrivateValue ==
    /\ curitem' = PrefixAt(1)
    /\ visit' = [given |-> <<>>, owed |-> {privitems[i].prefix : i \in DOMAIN privitems}]
    /\ UNCHANGED <<fields, privitems>>

\* No caller goes on with an iterator that is lost.
GetNextPrivateValue ==
    /\ curitem \in PrivNames
    /\ \E i \in PlacesOf(curitem) :
         /\ curitem' = PrefixAt(i + 1)
         /\ visit' = [visit EXCEPT !.given = Append(@, privitems[i])]
    /\ UNCHANGED <<fields, privitems>>

GetPrivateValue(p) == {privitems[i].value : i \in PlacesOf(p)}

\* Clear leaves the items that are not private, and the iterator.
ClearSdes ==
    /\ privitems' = <<>>
    /\ curitem' = IF curitem = Bottom THEN Bottom ELSE Lost
    /\ visit' = NoVisit
    /\ UNCHANGED fields

SdesNext ==
    \/ \E f \in Fields, c \in Contents : SetNonPrivateItem(f, c)
    \/ \E p \in PrivNames, c \in Contents \ TooLong : SetPrivateValue(p, c)
    \/ \E p \in PrivNames : DeletePrivatePrefix(p)
    \/ GotoFirstPrivateValue \/ GetNextPrivateValue \/ ClearSdes

SdesSpec == SdesInit /\ [][SdesNext]_sdesVars
-----------------------------------------------------------------------------
SdesTypeOK ==
    /\ fields \in [Fields -> Contents \cup {Blank}]
    /\ \A i \in DOMAIN privitems : privitems[i] \in [prefix : PrivNames, value : Contents]
    /\ curitem \in PrivNames \cup {Bottom, Lost}

(* No prefix is stored twice, there are never more than the limit, and an      *)
(* iteration gives each item that was there when it began, and was not deleted *)
(* since, exactly once, however many are added on the way.                      *)
EachPrefixOnce ==
    /\ \A p \in PrivNames : \A i, j \in PlacesOf(p) : i = j
    /\ Len(privitems) <= MaxPrivItems
    /\ \A i, j \in DOMAIN visit.given : visit.given[i].prefix = visit.given[j].prefix => i = j
    /\ curitem = Bottom => visit.owed \subseteq {visit.given[i].prefix : i \in DOMAIN visit.given}
=============================================================================
