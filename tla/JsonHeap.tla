-------------------------------- MODULE JsonHeap --------------------------------
(***************************************************************************)
(* What the parser and the printer of utils/cJSON.c share: the links of    *)
(* the items, and what deleting one of them reaches.                       *)
(***************************************************************************)

Null == 0

\* What cJSON_Delete(c) visits: c, its children, and what follows c in its list.
Below(items, c) ==
    LET closed(S) == \A n \in S : {items[n].next, items[n].child} \subseteq S \cup {Null}
    IN  {n \in DOMAIN items :
            \A S \in SUBSET DOMAIN items : c \in S /\ closed(S) => n \in S}
===============================================================================
