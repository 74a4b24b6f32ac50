------------------------------ MODULE ParserProofs ------------------------------
(***************************************************************************)
(* Proofs about the parser, for every text, every limit of depth and       *)
(* whichever allocation fails.                                             *)
(*                                                                         *)
(* Memory: it neither loses nor frees a block twice.  Who owns what is a   *)
(* function from the places that hold a pointer to block numbers (Owned),  *)
(* and a step moves it in one of three ways: a new block gets its one      *)
(* owner, a pointer moves to another place, or what lies below a pointer   *)
(* is deleted.  That a deletion takes along exactly what only the deleted  *)
(* items own is shown from Below alone.  A list is appended to and a       *)
(* container closed where nothing hung before (Shape), so that no pointer  *)
(* is overwritten; and a link leads to a block that was allocated later    *)
(* (Kinds), so that no ring of items keeps itself alive.                   *)
(*                                                                         *)
(* Text: it takes the texts that start with a value and no others.  For    *)
(* each activation it is known where its container starts in the text and  *)
(* where the rest of its list starts; by the grammar the container then    *)
(* ends where that rest is closed, and nowhere if it is not (Level).       *)
(*                                                                         *)
(* Tree: printed, it is the text.  Each item has a place in the text       *)
(* (Span), and those of linked items adjoin (Placed); what is printed of   *)
(* an item then is what stands there, which follows from the items that    *)
(* were allocated last to the root.                                        *)
(***************************************************************************)
EXTENDS JsonParser, SequenceTheorems, WellFoundedInduction, TLAPS

(***************************************************************************)
(* Owners.                                                                 *)
(***************************************************************************)
\* The non-null values of `owner`, a function, are `live`, each taken once.
Owned(owner, live) ==
    /\ \A p \in DOMAIN owner : owner[p] # Null => owner[p] \in live
    /\ \A b \in live : \E p \in DOMAIN owner : owner[p] = b
    /\ \A p, q \in DOMAIN owner : owner[p] # Null /\ owner[p] = owner[q] => p = q

LEMMA OwnerGained ==
    ASSUME NEW before, NEW after, NEW live, Owned(before, live), Null \notin live,
           NEW b, b \notin live, b # Null,
           NEW place \in DOMAIN after, after[place] = b,
           \A p \in DOMAIN before : before[p] # Null =>
                p \in DOMAIN after /\ p # place /\ after[p] = before[p],
           \A p \in DOMAIN after : p # place /\ after[p] # Null =>
                p \in DOMAIN before /\ after[p] = before[p]
    PROVE  Owned(after, live \cup {b})
  BY DEF Owned

LEMMA OwnerMoved ==
    ASSUME NEW before, NEW after, NEW live, Owned(before, live), Null \notin live,
           NEW old \in DOMAIN before, NEW new \in DOMAIN after,
           after[new] = before[old],
           \A p \in DOMAIN before : before[p] # Null /\ p # old =>
                p \in DOMAIN after /\ p # new /\ after[p] = before[p],
           \A p \in DOMAIN after : after[p] # Null /\ p # new =>
                p \in DOMAIN before /\ p # old /\ after[p] = before[p]
    PROVE  Owned(after, live)
  BY DEF Owned

LEMMA OwnersSame ==
    ASSUME NEW before, NEW after, NEW live, Owned(before, live), Null \notin live,
           \A p \in DOMAIN before : before[p] # Null =>
                p \in DOMAIN after /\ after[p] = before[p],
           \A p \in DOMAIN after : after[p] # Null =>
                p \in DOMAIN before /\ after[p] = before[p]
    PROVE  Owned(after, live)
  BY DEF Owned

LEMMA OwnersLost ==
    ASSUME NEW before, NEW after, NEW live, Owned(before, live), Null \notin live,
           NEW gone,
           \A p \in DOMAIN before : before[p] # Null /\ before[p] \notin gone =>
                p \in DOMAIN after /\ after[p] = before[p],
           \A p \in DOMAIN after : after[p] # Null =>
                /\ p \in DOMAIN before /\ after[p] = before[p]
                /\ before[p] \notin gone
    PROVE  Owned(after, live \ gone)
  BY DEF Owned

(***************************************************************************)
(* What a deletion reaches.                                                *)
(***************************************************************************)
Linked(items) ==
    \A n \in DOMAIN items :
        /\ items[n].next  \in DOMAIN items \cup {Null}
        /\ items[n].child \in DOMAIN items \cup {Null}

LEMMA BelowIsClosed ==
    ASSUME NEW items, Linked(items), Null \notin DOMAIN items, NEW c \in DOMAIN items
    PROVE  /\ Below(items, c) \subseteq DOMAIN items /\ c \in Below(items, c)
           /\ \A n \in Below(items, c) :
                 {items[n].next, items[n].child} \subseteq Below(items, c) \cup {Null}
  <1>1. Below(items, c) \subseteq DOMAIN items /\ c \in Below(items, c)
    BY DEF Below
  <1>2. ASSUME NEW n \in Below(items, c), NEW m \in {items[n].next, items[n].child},
               m # Null
        PROVE  m \in Below(items, c)
    <2>1. n \in DOMAIN items /\ m \in DOMAIN items
      BY <1>1, <1>2 DEF Linked
    <2>2. ASSUME NEW S \in SUBSET DOMAIN items, c \in S,
                 \A k \in S : {items[k].next, items[k].child} \subseteq S \cup {Null}
          PROVE  m \in S
      <3>1. n \in S
        BY <2>2 DEF Below
      <3> QED BY <1>2, <2>2, <3>1
    <2> QED BY <2>1, <2>2 DEF Below
  <1> QED BY <1>1, <1>2

LEMMA BelowIsLeast ==
    ASSUME NEW items, NEW c, NEW S \in SUBSET DOMAIN items, c \in S,
           \A n \in S : {items[n].next, items[n].child} \subseteq S \cup {Null}
    PROVE  Below(items, c) \subseteq S
  BY DEF Below

\* Whatever is deleted besides c hangs on something that is deleted.
LEMMA BelowHangsTogether ==
    ASSUME NEW items, Linked(items), Null \notin DOMAIN items, NEW c \in DOMAIN items,
           NEW n \in Below(items, c), n # c
    PROVE  \E m \in Below(items, c) : n \in {items[m].next, items[m].child}
  <1> SUFFICES ASSUME \A m \in Below(items, c) : n \notin {items[m].next, items[m].child}
               PROVE  FALSE
    OBVIOUS
  <1> DEFINE S == Below(items, c) \ {n}
  <1>1. /\ Below(items, c) \subseteq DOMAIN items /\ c \in Below(items, c)
        /\ \A m \in Below(items, c) :
              {items[m].next, items[m].child} \subseteq Below(items, c) \cup {Null}
    BY BelowIsClosed
  <1>2. S \in SUBSET DOMAIN items /\ c \in S
    BY <1>1
  <1>3. \A m \in S : {items[m].next, items[m].child} \subseteq S \cup {Null}
    BY <1>1
  <1>4. Below(items, c) \subseteq S
    BY <1>2, <1>3, BelowIsLeast
  <1> QED BY <1>4

(***************************************************************************)
(* The places of the parser that own a block.                              *)
(***************************************************************************)
Fields == {"next", "child", "string", "valuestring"}

PlacesOf(h, s) ==
    (Fields \X DOMAIN h) \cup ({"head"} \X DOMAIN s) \cup {<<"root", Null>>}

TargetOf(h, s, r, place) ==
    CASE place[1] = "root"        -> r
      [] place[1] = "head"        -> s[place[2]].head
      [] place[1] = "next"        -> h[place[2]].next
      [] place[1] = "child"       -> h[place[2]].child
      [] place[1] = "string"      -> h[place[2]].string
      [] place[1] = "valuestring" -> h[place[2]].valuestring

Pointer(h, s, r) == [p \in PlacesOf(h, s) |-> TargetOf(h, s, r, p)]

\* Links lead to items allocated later, keys and values to texts.
Kinds(h, s, r, t) ==
    /\ \A n \in DOMAIN h :
          /\ h[n].next  \in {m \in DOMAIN h : n < m} \cup {Null}
          /\ h[n].child \in {m \in DOMAIN h : n < m} \cup {Null}
          /\ h[n].string \in t \cup {Null}
          /\ h[n].valuestring \in t \cup {Null}
    /\ \A k \in DOMAIN s : s[k].head \in DOMAIN h \cup {Null}
    /\ r \in DOMAIN h \cup {Null}
    /\ DOMAIN h \subseteq Nat \ {Null} /\ t \subseteq Nat \ {Null}
    /\ DOMAIN h \cap t = {}

LEMMA PointerDomain ==
    ASSUME NEW h, NEW s, NEW r
    PROVE  /\ DOMAIN Pointer(h, s, r) = PlacesOf(h, s)
           /\ \A p \in PlacesOf(h, s) : Pointer(h, s, r)[p] = TargetOf(h, s, r, p)
  BY DEF Pointer

LEMMA PlaceCases ==
    ASSUME NEW h, NEW s, NEW p \in PlacesOf(h, s)
    PROVE  \/ \E f \in Fields, n \in DOMAIN h : p = <<f, n>>
           \/ \E k \in DOMAIN s : p = <<"head", k>>
           \/ p = <<"root", Null>>
  BY DEF PlacesOf

LEMMA AreParserPlaces ==
    ASSUME NEW h, NEW s
    PROVE  /\ \A n \in DOMAIN h : \A f \in Fields : <<f, n>> \in PlacesOf(h, s)
           /\ \A k \in DOMAIN s : <<"head", k>> \in PlacesOf(h, s)
           /\ <<"root", Null>> \in PlacesOf(h, s)
  BY DEF PlacesOf

LEMMA Targets ==
    ASSUME NEW h, NEW s, NEW r
    PROVE  /\ \A n : /\ TargetOf(h, s, r, <<"next", n>>) = h[n].next
                     /\ TargetOf(h, s, r, <<"child", n>>) = h[n].child
                     /\ TargetOf(h, s, r, <<"string", n>>) = h[n].string
                     /\ TargetOf(h, s, r, <<"valuestring", n>>) = h[n].valuestring
           /\ \A k : TargetOf(h, s, r, <<"head", k>>) = s[k].head
           /\ TargetOf(h, s, r, <<"root", Null>>) = r
  BY DEF TargetOf

(***************************************************************************)
(* Deleting what a list of an activation, or the root, leads to.           *)
(***************************************************************************)
Roots(s) == ({"head"} \X DOMAIN s) \cup {<<"root", Null>>}

Texts(h, S) == UNION {{h[n].string, h[n].valuestring} : n \in S}

LEMMA Deleted ==
    ASSUME Kinds(heap, stack, root, texts),
           Owned(Pointer(heap, stack, root), DOMAIN heap \cup texts),
           NEW place \in Roots(stack), NEW c \in DOMAIN heap, TargetOf(heap, stack, root, place) = c,
           \A p \in Roots(stack) : p # place =>
                p \in Roots(stack') /\ TargetOf(heap, stack', root', p) = TargetOf(heap, stack, root, p),
           \A p \in Roots(stack') : TargetOf(heap, stack', root', p) # Null =>
                /\ p \in Roots(stack) /\ p # place
                /\ TargetOf(heap, stack', root', p) = TargetOf(heap, stack, root, p),
           heap' = [n \in DOMAIN heap \ Below(heap, c) |-> heap[n]],
           texts' = texts \ Texts(heap, Below(heap, c))
    PROVE  Owned(Pointer(heap', stack', root'), DOMAIN heap' \cup texts')
         /\ Kinds(heap', stack', root', texts')
  <1> DEFINE B == Below(heap, c)
             T(p) == TargetOf(heap, stack, root, p)
             U(p) == TargetOf(heap', stack', root', p)
             gone == B \cup Texts(heap, B)
  <1>a. /\ \A n : /\ T(<<"next", n>>) = heap[n].next /\ T(<<"child", n>>) = heap[n].child
                 /\ T(<<"string", n>>) = heap[n].string
                 /\ T(<<"valuestring", n>>) = heap[n].valuestring
        /\ \A k : T(<<"head", k>>) = stack[k].head
        /\ T(<<"root", Null>>) = root
    BY ONLY Targets
  <1>b. /\ \A n : /\ U(<<"next", n>>) = heap'[n].next /\ U(<<"child", n>>) = heap'[n].child
                 /\ U(<<"string", n>>) = heap'[n].string
                 /\ U(<<"valuestring", n>>) = heap'[n].valuestring
        /\ \A k : U(<<"head", k>>) = stack'[k].head
        /\ U(<<"root", Null>>) = root'
    BY ONLY Targets
  <1>c. /\ \A n \in DOMAIN heap : \A f \in Fields : <<f, n>> \in PlacesOf(heap, stack)
        /\ \A n \in DOMAIN heap' : \A f \in Fields : <<f, n>> \in PlacesOf(heap', stack')
    BY AreParserPlaces
  <1>1. Linked(heap) /\ Null \notin DOMAIN heap
    BY DEF Kinds, Linked
  <1>2. /\ B \subseteq DOMAIN heap /\ c \in B
        /\ \A n \in B : {heap[n].next, heap[n].child} \subseteq B \cup {Null}
    BY <1>1, BelowIsClosed
  <1>3. \A n \in B : n # c => \E m \in B : n \in {heap[m].next, heap[m].child}
    BY <1>1, BelowHangsTogether
  <1>4. /\ DOMAIN Pointer(heap, stack, root) = PlacesOf(heap, stack)
        /\ DOMAIN Pointer(heap', stack', root') = PlacesOf(heap', stack')
        /\ \A p \in PlacesOf(heap, stack) : Pointer(heap, stack, root)[p] = T(p)
        /\ \A p \in PlacesOf(heap', stack') : Pointer(heap', stack', root')[p] = U(p)
    BY PointerDomain
  <1>5. \A p, q \in PlacesOf(heap, stack) : T(p) # Null /\ T(p) = T(q) => p = q
    BY <1>4 DEF Owned
  <1>6. place \in PlacesOf(heap, stack)
    BY DEF PlacesOf, Roots
  <1>7. DOMAIN heap' = DOMAIN heap \ B /\ \A n \in DOMAIN heap' : heap'[n] = heap[n]
    OBVIOUS
  <1> HIDE DEF B
  \* An owner of something that is deleted is deleted, or is the place itself.
  <1>8. ASSUME NEW p \in PlacesOf(heap, stack), T(p) \in B
        PROVE  p = place \/ \E f \in Fields, m \in B : p = <<f, m>>
    <2>1. CASE T(p) = c
      BY <1>1, <1>5, <1>6, <2>1
    <2>2. CASE T(p) # c
      <3>1. PICK m \in B : T(p) \in {heap[m].next, heap[m].child}
        BY <1>3, <1>8, <2>2
      <3>2. /\ <<"next", m>> \in PlacesOf(heap, stack) /\ <<"child", m>> \in PlacesOf(heap, stack)
            /\ T(<<"next", m>>) = heap[m].next /\ T(<<"child", m>>) = heap[m].child
        BY <1>a, <1>c, <1>2 DEF Fields
      <3>3. T(p) # Null
        BY <1>1, <1>2, <1>8
      <3>4. p = <<"next", m>> \/ p = <<"child", m>>
        BY <1>5, <3>1, <3>2, <3>3
      <3> QED BY <3>4 DEF Fields
    <2> QED BY <2>1, <2>2
  <1>9. ASSUME NEW p \in PlacesOf(heap, stack), T(p) \in Texts(heap, B), T(p) # Null
        PROVE  \E f \in Fields, m \in B : p = <<f, m>>
    <2>1. PICK m \in B : T(p) \in {heap[m].string, heap[m].valuestring}
      BY <1>9 DEF Texts
    <2>2. /\ <<"string", m>> \in PlacesOf(heap, stack)
          /\ <<"valuestring", m>> \in PlacesOf(heap, stack)
          /\ T(<<"string", m>>) = heap[m].string
          /\ T(<<"valuestring", m>>) = heap[m].valuestring
      BY <1>a, <1>c, <1>2 DEF Fields
    <2>3. p = <<"string", m>> \/ p = <<"valuestring", m>>
      BY <1>5, <1>9, <2>1, <2>2
    <2> QED BY <2>3 DEF Fields
  <1>10. ASSUME NEW f \in Fields, NEW m \in B
         PROVE  T(<<f, m>>) \in gone \cup {Null}
    <2>1. /\ T(<<"next", m>>) = heap[m].next /\ T(<<"child", m>>) = heap[m].child
          /\ T(<<"string", m>>) = heap[m].string
          /\ T(<<"valuestring", m>>) = heap[m].valuestring
      BY <1>a
    <2>2. {heap[m].string, heap[m].valuestring} \subseteq Texts(heap, B)
      BY DEF Texts
    <2> QED BY <1>2, <2>1, <2>2 DEF Fields
  \* What stays is what was, at the places that stay.
  <1>11. ASSUME NEW n \in DOMAIN heap \ B, NEW f \in Fields
         PROVE  /\ <<f, n>> \in PlacesOf(heap, stack) /\ <<f, n>> \in PlacesOf(heap', stack')
                /\ U(<<f, n>>) = T(<<f, n>>)
    <2>1. <<f, n>> \in PlacesOf(heap, stack) /\ <<f, n>> \in PlacesOf(heap', stack')
      BY <1>7, <1>c
    <2>2. heap'[n] = heap[n]
      BY <1>7
    <2>3. /\ U(<<"next", n>>) = T(<<"next", n>>)
          /\ U(<<"child", n>>) = T(<<"child", n>>)
      <3>1. /\ U(<<"next", n>>) = heap'[n].next /\ U(<<"child", n>>) = heap'[n].child
        BY <1>b
      <3>2. /\ T(<<"next", n>>) = heap[n].next /\ T(<<"child", n>>) = heap[n].child
        BY <1>a
      <3> QED BY <2>2, <3>1, <3>2
    <2>4. /\ U(<<"string", n>>) = T(<<"string", n>>)
          /\ U(<<"valuestring", n>>) = T(<<"valuestring", n>>)
      <3>1. /\ U(<<"string", n>>) = heap'[n].string
            /\ U(<<"valuestring", n>>) = heap'[n].valuestring
        BY <1>b
      <3>2. /\ T(<<"string", n>>) = heap[n].string
            /\ T(<<"valuestring", n>>) = heap[n].valuestring
        BY <1>a
      <3> QED BY <2>2, <3>1, <3>2
    <2> QED BY <2>1, <2>3, <2>4 DEF Fields
  <1>12. ASSUME NEW p \in Roots(stack) \cup Roots(stack')
         PROVE  TargetOf(heap', stack', root', p) = TargetOf(heap, stack', root', p)
    BY DEF Roots, TargetOf
  <1>13. \A p \in PlacesOf(heap, stack) : T(p) # Null /\ T(p) \notin gone =>
            p \in PlacesOf(heap', stack') /\ U(p) = T(p)
    <2> SUFFICES ASSUME NEW p \in PlacesOf(heap, stack), T(p) # Null, T(p) \notin gone
                 PROVE  p \in PlacesOf(heap', stack') /\ U(p) = T(p)
      OBVIOUS
    <2>1. CASE p \in Roots(stack)
      <3>1. p # place
        BY <1>2
      <3> QED BY <1>12, <2>1, <3>1 DEF Roots, PlacesOf
    <2>2. ASSUME NEW f \in Fields, NEW n \in DOMAIN heap, p = <<f, n>>
          PROVE  p \in PlacesOf(heap', stack') /\ U(p) = T(p)
      BY <1>10, <1>11, <2>2
    <2>3. \/ \E f \in Fields, n \in DOMAIN heap : p = <<f, n>>
          \/ \E k \in DOMAIN stack : p = <<"head", k>>
          \/ p = <<"root", Null>>
      BY PlaceCases
    <2> QED BY <2>1, <2>2, <2>3 DEF Roots
  <1>14. \A p \in PlacesOf(heap', stack') : U(p) # Null =>
            p \in PlacesOf(heap, stack) /\ U(p) = T(p) /\ T(p) \notin gone
    <2> SUFFICES ASSUME NEW p \in PlacesOf(heap', stack'), U(p) # Null
                 PROVE  p \in PlacesOf(heap, stack) /\ U(p) = T(p) /\ T(p) \notin gone
      OBVIOUS
    <2>1. /\ p \in PlacesOf(heap, stack) /\ U(p) = T(p) /\ p # place
          /\ ~ \E f \in Fields, m \in B : p = <<f, m>>
      <3>1. CASE p \in Roots(stack')
        <4>1. p \in Roots(stack) /\ p # place /\ U(p) = T(p)
          BY <1>12, <3>1
        <4> QED BY <4>1 DEF Roots, PlacesOf, Fields
      <3>2. ASSUME NEW f \in Fields, NEW n \in DOMAIN heap', p = <<f, n>>
            PROVE  /\ p \in PlacesOf(heap, stack) /\ U(p) = T(p) /\ p # place
                   /\ ~ \E g \in Fields, m \in B : p = <<g, m>>
        <4>1. n \in DOMAIN heap \ B
          BY <1>7
        <4>2. p # place
          BY <3>2 DEF Roots, Fields
        <4> QED BY <1>11, <3>2, <4>1, <4>2
      <3>3. \/ \E f \in Fields, n \in DOMAIN heap' : p = <<f, n>>
            \/ \E k \in DOMAIN stack' : p = <<"head", k>>
            \/ p = <<"root", Null>>
        BY PlaceCases
      <3> QED BY <3>1, <3>2, <3>3 DEF Roots
    <2> QED BY <1>8, <1>9, <2>1
  <1>15. DOMAIN heap' \cup texts' = (DOMAIN heap \cup texts) \ gone
    <2>1. Texts(heap, B) \subseteq texts \cup {Null}
      BY <1>2 DEF Texts, Kinds
    <2> QED BY <1>1, <1>2, <1>7, <2>1 DEF Kinds, B
  <1>16. Owned(Pointer(heap', stack', root'), DOMAIN heap' \cup texts')
    <2>1. Null \notin DOMAIN heap \cup texts
      BY DEF Kinds
    <2>2. /\ \A p \in DOMAIN Pointer(heap, stack, root) :
                Pointer(heap, stack, root)[p] # Null /\ Pointer(heap, stack, root)[p] \notin gone =>
                   /\ p \in DOMAIN Pointer(heap', stack', root')
                   /\ Pointer(heap', stack', root')[p] = Pointer(heap, stack, root)[p]
          /\ \A p \in DOMAIN Pointer(heap', stack', root') : Pointer(heap', stack', root')[p] # Null =>
                   /\ p \in DOMAIN Pointer(heap, stack, root)
                   /\ Pointer(heap', stack', root')[p] = Pointer(heap, stack, root)[p]
                   /\ Pointer(heap, stack, root)[p] \notin gone
      BY <1>4, <1>13, <1>14
    <2>3. Owned(Pointer(heap', stack', root'), (DOMAIN heap \cup texts) \ gone)
      BY <2>1, <2>2, OwnersLost
    <2> QED BY <1>15, <2>3
  <1>17. \A p \in PlacesOf(heap', stack') : U(p) # Null => U(p) \in DOMAIN heap' \cup texts'
    BY <1>4, <1>16 DEF Owned
  <1>18. Kinds(heap', stack', root', texts')
    <2>1. DOMAIN heap' \subseteq DOMAIN heap /\ texts' \subseteq texts
      BY <1>7
    <2>2. ASSUME NEW n \in DOMAIN heap'
          PROVE  /\ heap'[n].next  \in {m \in DOMAIN heap' : n < m} \cup {Null}
                 /\ heap'[n].child \in {m \in DOMAIN heap' : n < m} \cup {Null}
                 /\ heap'[n].string \in texts' \cup {Null}
                 /\ heap'[n].valuestring \in texts' \cup {Null}
      <3>1. /\ heap'[n].next \in DOMAIN heap' \cup texts' \cup {Null}
            /\ heap'[n].child \in DOMAIN heap' \cup texts' \cup {Null}
            /\ heap'[n].string \in DOMAIN heap' \cup texts' \cup {Null}
            /\ heap'[n].valuestring \in DOMAIN heap' \cup texts' \cup {Null}
        <4>1. \A f \in Fields : U(<<f, n>>) \in DOMAIN heap' \cup texts' \cup {Null}
          BY <1>c, <1>17
        <4> QED BY <1>b, <4>1 DEF Fields
      <3>2. heap'[n] = heap[n] /\ n \in DOMAIN heap
        BY <1>7
      <3> QED BY <2>1, <3>1, <3>2 DEF Kinds
    <2>3. ASSUME NEW p \in Roots(stack')
          PROVE  U(p) \in DOMAIN heap' \cup {Null}
      <3>1. p \in PlacesOf(heap', stack')
        BY DEF Roots, PlacesOf
      <3>2. U(p) # Null => U(p) \in DOMAIN heap' \cup texts' /\ U(p) = T(p) /\ p \in Roots(stack)
        BY <1>12, <1>17, <3>1
      <3>3. p \in Roots(stack) => T(p) \in DOMAIN heap \cup {Null}
        BY DEF Roots, TargetOf, Kinds
      <3> QED BY <2>1, <3>2, <3>3 DEF Kinds
    <2>4. ASSUME NEW k \in DOMAIN stack' PROVE stack'[k].head \in DOMAIN heap' \cup {Null}
      <3>1. <<"head", k>> \in Roots(stack')
        BY DEF Roots
      <3>2. U(<<"head", k>>) = stack'[k].head
        BY <1>b
      <3> QED BY <2>3, <3>1, <3>2
    <2>5. root' \in DOMAIN heap' \cup {Null}
      BY <1>b, <2>3 DEF Roots
    <2>6. /\ DOMAIN heap' \subseteq Nat \ {Null} /\ texts' \subseteq Nat \ {Null}
          /\ DOMAIN heap' \cap texts' = {}
      BY <2>1 DEF Kinds
    <2> QED BY <2>2, <2>4, <2>5, <2>6 DEF Kinds
  <1> QED BY <1>16, <1>18

(***************************************************************************)
(* The other changes: a new item, a new text, a closed container, and      *)
(* steps that leave all pointers alone.                                    *)
(***************************************************************************)
SameFields(a, b) ==
    /\ a.next = b.next /\ a.child = b.child
    /\ a.string = b.string /\ a.valuestring = b.valuestring

LEMMA PointersStay ==
    ASSUME NEW h, NEW s, NEW r, NEW t, Kinds(h, s, r, t),
           Owned(Pointer(h, s, r), DOMAIN h \cup t),
           NEW h2, DOMAIN h2 = DOMAIN h, \A n \in DOMAIN h : SameFields(h2[n], h[n]),
           NEW s2, \A k \in DOMAIN s : k \in DOMAIN s2 /\ s2[k].head = s[k].head,
           \A k \in DOMAIN s2 \ DOMAIN s : s2[k].head = Null
    PROVE  Owned(Pointer(h2, s2, r), DOMAIN h2 \cup t) /\ Kinds(h2, s2, r, t)
  <1>1. Kinds(h2, s2, r, t)
    BY DEF Kinds, SameFields
  <1>2. Null \notin DOMAIN h \cup t
    BY DEF Kinds
  <1>3. ASSUME NEW p \in PlacesOf(h, s)
        PROVE  p \in PlacesOf(h2, s2) /\ TargetOf(h2, s2, r, p) = TargetOf(h, s, r, p)
    BY DEF PlacesOf, TargetOf, SameFields, Fields
  <1>4. ASSUME NEW p \in PlacesOf(h2, s2), p \notin PlacesOf(h, s)
        PROVE  TargetOf(h2, s2, r, p) = Null
    BY <1>4 DEF PlacesOf, TargetOf, Fields
  <1> QED BY <1>1, <1>2, <1>3, <1>4, OwnersSame, PointerDomain

\* A pointer that was not there, or was null, leads to the new block b; all
\* others are as they were, and those of a new item are null.
LEMMA PointerAdded ==
    ASSUME NEW h, NEW s, NEW r, NEW t,
           Owned(Pointer(h, s, r), DOMAIN h \cup t), Null \notin DOMAIN h \cup t,
           NEW h2, NEW s2, NEW r2, NEW b, b \notin DOMAIN h \cup t, b # Null,
           NEW place \in PlacesOf(h2, s2), TargetOf(h2, s2, r2, place) = b,
           place \in PlacesOf(h, s) => TargetOf(h, s, r, place) = Null,
           \A p \in PlacesOf(h, s) : p # place =>
                p \in PlacesOf(h2, s2) /\ TargetOf(h2, s2, r2, p) = TargetOf(h, s, r, p),
           \A p \in PlacesOf(h2, s2) \ PlacesOf(h, s) : p # place =>
                TargetOf(h2, s2, r2, p) = Null
    PROVE  Owned(Pointer(h2, s2, r2), (DOMAIN h \cup t) \cup {b})
  <1> DEFINE before == Pointer(h, s, r)
             after  == Pointer(h2, s2, r2)
  <1>1. /\ DOMAIN before = PlacesOf(h, s) /\ DOMAIN after = PlacesOf(h2, s2)
        /\ \A p \in PlacesOf(h, s) : before[p] = TargetOf(h, s, r, p)
        /\ \A p \in PlacesOf(h2, s2) : after[p] = TargetOf(h2, s2, r2, p)
    BY PointerDomain
  <1>2. \A p \in DOMAIN before : before[p] # Null =>
            p \in DOMAIN after /\ p # place /\ after[p] = before[p]
    BY <1>1
  <1>3. \A p \in DOMAIN after : p # place /\ after[p] # Null =>
            p \in DOMAIN before /\ after[p] = before[p]
    BY <1>1
  <1>4. place \in DOMAIN after /\ after[place] = b
    BY <1>1
  <1> HIDE DEF before, after
  <1> QED BY <1>2, <1>3, <1>4, OwnerGained DEF before, after

\* parse_string: the item i gets a text.
LEMMA TextAdded ==
    ASSUME NEW h, NEW s, NEW r, NEW t, Kinds(h, s, r, t),
           Owned(Pointer(h, s, r), DOMAIN h \cup t),
           NEW b \in Nat \ {Null}, b \notin DOMAIN h \cup t,
           NEW i \in DOMAIN h, NEW h2, DOMAIN h2 = DOMAIN h,
           \A n \in DOMAIN h : n # i => h2[n] = h[n],
           h2[i].next = h[i].next, h2[i].child = h[i].child,
           \/ /\ h[i].string = Null /\ h2[i].string = b
              /\ h2[i].valuestring = h[i].valuestring
           \/ /\ h[i].valuestring = Null /\ h2[i].valuestring = b
              /\ h2[i].string = h[i].string
    PROVE  Owned(Pointer(h2, s, r), DOMAIN h2 \cup (t \cup {b})) /\ Kinds(h2, s, r, t \cup {b})
  <1>1. Kinds(h2, s, r, t \cup {b})
    BY DEF Kinds
  <1>2. Null \notin DOMAIN h \cup t /\ PlacesOf(h2, s) = PlacesOf(h, s)
    BY DEF Kinds, PlacesOf
  <1>3. ASSUME NEW f \in {"string", "valuestring"}, NEW g \in {"string", "valuestring"},
               f # g, TargetOf(h, s, r, <<f, i>>) = Null,
               TargetOf(h2, s, r, <<f, i>>) = b,
               TargetOf(h2, s, r, <<g, i>>) = TargetOf(h, s, r, <<g, i>>)
        PROVE  Owned(Pointer(h2, s, r), DOMAIN h2 \cup (t \cup {b}))
    <2>1. <<f, i>> \in PlacesOf(h2, s)
      BY <1>2, AreParserPlaces DEF Fields
    <2>2. ASSUME NEW p \in PlacesOf(h, s), p # <<f, i>>
          PROVE  TargetOf(h2, s, r, p) = TargetOf(h, s, r, p)
      <3>1. \/ \E e \in Fields, n \in DOMAIN h : p = <<e, n>>
            \/ \E k \in DOMAIN s : p = <<"head", k>>
            \/ p = <<"root", Null>>
        BY PlaceCases
      <3>2. CASE \E e \in Fields, n \in DOMAIN h \ {i} : p = <<e, n>>
        BY <3>2 DEF TargetOf, Fields
      <3>3. CASE p = <<g, i>>
        BY <1>3, <3>3
      <3>4. CASE p = <<"next", i>> \/ p = <<"child", i>>
        BY <3>4 DEF TargetOf
      <3>5. CASE p = <<"root", Null>> \/ \E k \in DOMAIN s : p = <<"head", k>>
        BY <3>5 DEF TargetOf
      <3> QED BY <1>3, <2>2, <3>1, <3>2, <3>3, <3>4, <3>5 DEF Fields
    <2>3. Owned(Pointer(h2, s, r), (DOMAIN h \cup t) \cup {b})
      BY <1>2, <1>3, <2>1, <2>2, PointerAdded
    <2>4. DOMAIN h2 \cup (t \cup {b}) = (DOMAIN h \cup t) \cup {b}
      OBVIOUS
    <2> QED BY <2>3, <2>4
  <1>4. /\ TargetOf(h, s, r, <<"string", i>>) = h[i].string
        /\ TargetOf(h2, s, r, <<"string", i>>) = h2[i].string
        /\ TargetOf(h, s, r, <<"valuestring", i>>) = h[i].valuestring
        /\ TargetOf(h2, s, r, <<"valuestring", i>>) = h2[i].valuestring
    BY DEF TargetOf
  <1>5. Owned(Pointer(h2, s, r), DOMAIN h2 \cup (t \cup {b}))
    BY <1>3, <1>4
  <1> QED BY <1>1, <1>5

\* The list of the innermost activation becomes the children of its item.
LEMMA ContainerClosed ==
    ASSUME Kinds(heap, stack, root, texts),
           Owned(Pointer(heap, stack, root), DOMAIN heap \cup texts),
           NEW top \in DOMAIN stack, NEW i \in DOMAIN heap, heap[i].child = Null,
           stack[top].head # Null => i < stack[top].head,
           DOMAIN heap' = DOMAIN heap,
           \A n \in DOMAIN heap : n # i => heap'[n] = heap[n],
           heap'[i].child = stack[top].head, heap'[i].next = heap[i].next,
           heap'[i].string = heap[i].string, heap'[i].valuestring = heap[i].valuestring,
           DOMAIN stack' = DOMAIN stack \ {top},
           \A k \in DOMAIN stack' : stack'[k].head = stack[k].head
    PROVE  Owned(Pointer(heap', stack', root), DOMAIN heap' \cup texts)
         /\ Kinds(heap', stack', root, texts)
  <1> DEFINE old == <<"head", top>>
             new == <<"child", i>>
             T(p) == TargetOf(heap, stack, root, p)
             U(p) == TargetOf(heap', stack', root, p)
             before == Pointer(heap, stack, root)
             after == Pointer(heap', stack', root)
  <1>1. Kinds(heap', stack', root, texts)
    BY DEF Kinds
  <1>2. Null \notin DOMAIN heap \cup texts
    BY DEF Kinds
  <1>3. /\ old \in PlacesOf(heap, stack) /\ old \notin PlacesOf(heap', stack')
        /\ new \in PlacesOf(heap, stack) /\ new \in PlacesOf(heap', stack')
    BY DEF PlacesOf, Fields
  <1>4. T(new) = Null /\ U(new) = T(old)
    BY DEF TargetOf
  <1>5. ASSUME NEW p, p # old, p # new
        PROVE  /\ p \in PlacesOf(heap, stack) <=> p \in PlacesOf(heap', stack')
               /\ p \in PlacesOf(heap, stack) => U(p) = T(p)
    <2>1. p \in PlacesOf(heap, stack) <=> p \in PlacesOf(heap', stack')
      BY <1>5 DEF PlacesOf
    <2>2. ASSUME NEW f \in Fields, NEW n \in DOMAIN heap, p = <<f, n>>
          PROVE  U(p) = T(p)
      <3>1. CASE n # i
        BY <2>2, <3>1 DEF TargetOf, Fields
      <3>2. CASE n = i
        BY <1>5, <2>2, <3>2 DEF TargetOf, Fields
      <3> QED BY <3>1, <3>2
    <2>3. ASSUME p = <<"root", Null>> \/ \E k \in DOMAIN stack : p = <<"head", k>>
          PROVE  U(p) = T(p)
      BY <1>5, <2>3 DEF TargetOf
    <2> QED BY <2>1, <2>2, <2>3, PlaceCases
  <1>6. /\ DOMAIN before = PlacesOf(heap, stack) /\ DOMAIN after = PlacesOf(heap', stack')
        /\ \A p \in PlacesOf(heap, stack) : before[p] = T(p)
        /\ \A p \in PlacesOf(heap', stack') : after[p] = U(p)
    BY PointerDomain
  <1>7. old \in DOMAIN before /\ new \in DOMAIN after /\ after[new] = before[old]
    BY <1>3, <1>4, <1>6
  <1>8. \A p \in DOMAIN before : before[p] # Null /\ p # old =>
            p \in DOMAIN after /\ p # new /\ after[p] = before[p]
    BY <1>4, <1>5, <1>6
  <1>9. \A p \in DOMAIN after : after[p] # Null /\ p # new =>
            p \in DOMAIN before /\ p # old /\ after[p] = before[p]
    BY <1>3, <1>5, <1>6
  <1> HIDE DEF before, after, old, new
  <1>10. Owned(after, DOMAIN heap' \cup texts)
    BY <1>2, <1>7, <1>8, <1>9, OwnerMoved DEF before
  <1> QED BY <1>1, <1>10 DEF after

\* cJSON_New_Item: b is linked behind `last`, or begins the list of the
\* innermost activation, or is the root.
LEMMA ItemAdded ==
    ASSUME Kinds(heap, stack, root, texts),
           Owned(Pointer(heap, stack, root), DOMAIN heap \cup texts),
           Fresh \in Nat \ {Null}, Fresh \notin texts, \A n \in DOMAIN heap : n < Fresh,
           DOMAIN heap' = DOMAIN heap \cup {Fresh}, heap'[Fresh] = NewItem,
           NEW last, \A n \in DOMAIN heap : n # last => heap'[n] = heap[n],
           DOMAIN stack' = DOMAIN stack,
           \/ /\ last \in DOMAIN heap /\ heap[last].next = Null
              /\ heap'[last] = [heap[last] EXCEPT !.next = Fresh] /\ heap[last] \in Item
              /\ \A k \in DOMAIN stack : stack'[k].head = stack[k].head
              /\ root' = root
           \/ /\ last \notin DOMAIN heap
              /\ \E top \in DOMAIN stack :
                    /\ stack[top].head = Null /\ stack'[top].head = Fresh
                    /\ \A k \in DOMAIN stack : k # top => stack'[k].head = stack[k].head
              /\ root' = root
           \/ /\ last \notin DOMAIN heap
              /\ \A k \in DOMAIN stack : stack'[k].head = stack[k].head
              /\ root = Null /\ root' = Fresh
    PROVE  Owned(Pointer(heap', stack', root'), DOMAIN heap' \cup texts)
         /\ Kinds(heap', stack', root', texts)
  <1> DEFINE T(p) == TargetOf(heap, stack, root, p)
             U(p) == TargetOf(heap', stack', root', p)
  <1>1. Null \notin DOMAIN heap \cup texts /\ Fresh \notin DOMAIN heap \cup texts
    BY DEF Kinds
  <1>2. /\ heap'[Fresh].next = Null /\ heap'[Fresh].child = Null
        /\ heap'[Fresh].string = Null /\ heap'[Fresh].valuestring = Null
    BY DEF NewItem
  <1>3. last \in DOMAIN heap => /\ heap'[last].next = Fresh /\ heap'[last].child = heap[last].child
                             /\ heap'[last].string = heap[last].string
                             /\ heap'[last].valuestring = heap[last].valuestring
    BY DEF Item
  <1>4. Kinds(heap', stack', root', texts)
    <2>1. ASSUME NEW n \in DOMAIN heap'
          PROVE  /\ heap'[n].next  \in {m \in DOMAIN heap' : n < m} \cup {Null}
                 /\ heap'[n].child \in {m \in DOMAIN heap' : n < m} \cup {Null}
                 /\ heap'[n].string \in texts \cup {Null}
                 /\ heap'[n].valuestring \in texts \cup {Null}
      <3>1. CASE n = Fresh
        BY <1>2, <3>1
      <3>2. CASE n = last /\ n # Fresh
        BY <1>3, <3>2 DEF Kinds
      <3>3. CASE n # last /\ n # Fresh
        BY <3>3 DEF Kinds
      <3> QED BY <3>1, <3>2, <3>3
    <2>2. \A k \in DOMAIN stack' : stack'[k].head \in DOMAIN heap' \cup {Null}
      BY DEF Kinds
    <2>3. root' \in DOMAIN heap' \cup {Null}
      BY DEF Kinds
    <2>4. DOMAIN heap' \subseteq Nat \ {Null} /\ texts \subseteq Nat \ {Null}
          /\ DOMAIN heap' \cap texts = {}
      BY <1>1 DEF Kinds
    <2> QED BY <2>1, <2>2, <2>3, <2>4 DEF Kinds
  <1>5. ASSUME NEW place \in PlacesOf(heap, stack), T(place) = Null, U(place) = Fresh,
               place \in PlacesOf(heap', stack'),
               \A p \in PlacesOf(heap, stack) : p # place => U(p) = T(p)
        PROVE  Owned(Pointer(heap', stack', root'), DOMAIN heap' \cup texts)
    <2>1. PlacesOf(heap, stack) \subseteq PlacesOf(heap', stack')
      BY DEF PlacesOf
    <2>2. ASSUME NEW p \in PlacesOf(heap', stack') \ PlacesOf(heap, stack) PROVE U(p) = Null
      <3>1. \E f \in Fields : p = <<f, Fresh>>
        BY DEF PlacesOf
      <3> QED BY <1>2, <3>1 DEF TargetOf, Fields
    <2>3. Owned(Pointer(heap', stack', root'), (DOMAIN heap \cup texts) \cup {Fresh})
      BY <1>1, <1>5, <2>1, <2>2, PointerAdded
    <2>4. (DOMAIN heap \cup texts) \cup {Fresh} = DOMAIN heap' \cup texts
      OBVIOUS
    <2> QED BY <2>3, <2>4
  <1>6. ASSUME NEW f \in Fields, NEW n \in DOMAIN heap, f # "next" \/ n # last
        PROVE  U(<<f, n>>) = T(<<f, n>>)
    <2>1. CASE n = last
      BY <1>3, <1>6, <2>1 DEF TargetOf, Fields
    <2>2. CASE n # last
      BY <2>2 DEF TargetOf, Fields
    <2> QED BY <2>1, <2>2
  <1>7. \A k : U(<<"head", k>>) = stack'[k].head /\ T(<<"head", k>>) = stack[k].head
    BY DEF TargetOf
  <1>8. U(<<"root", Null>>) = root' /\ T(<<"root", Null>>) = root
    BY DEF TargetOf
  <1>9. ASSUME NEW p \in PlacesOf(heap, stack)
        PROVE  \/ \E f \in Fields, n \in DOMAIN heap : p = <<f, n>>
               \/ \E k \in DOMAIN stack : p = <<"head", k>>
               \/ p = <<"root", Null>>
    BY PlaceCases
  <1>10. CASE /\ last \in DOMAIN heap /\ heap[last].next = Null
              /\ \A k \in DOMAIN stack : stack'[k].head = stack[k].head
              /\ root' = root
    <2> DEFINE place == <<"next", last>>
    <2>1. place \in PlacesOf(heap, stack) /\ place \in PlacesOf(heap', stack')
      BY <1>10 DEF PlacesOf, Fields
    <2>2. T(place) = Null /\ U(place) = Fresh
      BY <1>3, <1>10 DEF TargetOf
    <2>3. ASSUME NEW p \in PlacesOf(heap, stack), p # place PROVE U(p) = T(p)
      <3>1. CASE \E f \in Fields, n \in DOMAIN heap : p = <<f, n>>
        BY <1>6, <2>3, <3>1
      <3>2. CASE ~ \E f \in Fields, n \in DOMAIN heap : p = <<f, n>>
        BY <1>7, <1>8, <1>9, <1>10, <3>2
      <3> QED BY <3>1, <3>2
    <2> HIDE DEF place
    <2> QED BY <1>4, <1>5, <2>1, <2>2, <2>3
  <1>11. CASE /\ last \notin DOMAIN heap /\ root' = root
              /\ \E top \in DOMAIN stack :
                    /\ stack[top].head = Null /\ stack'[top].head = Fresh
                    /\ \A k \in DOMAIN stack : k # top => stack'[k].head = stack[k].head
    <2>1. PICK top \in DOMAIN stack :
                    /\ stack[top].head = Null /\ stack'[top].head = Fresh
                    /\ \A k \in DOMAIN stack : k # top => stack'[k].head = stack[k].head
      BY <1>11
    <2> DEFINE place == <<"head", top>>
    <2>2. place \in PlacesOf(heap, stack) /\ place \in PlacesOf(heap', stack')
      BY DEF PlacesOf
    <2>3. T(place) = Null /\ U(place) = Fresh
      BY <1>7, <2>1
    <2>4. ASSUME NEW p \in PlacesOf(heap, stack), p # place PROVE U(p) = T(p)
      <3>1. CASE \E f \in Fields, n \in DOMAIN heap : p = <<f, n>>
        BY <1>6, <1>11, <3>1
      <3>2. CASE ~ \E f \in Fields, n \in DOMAIN heap : p = <<f, n>>
        BY <1>7, <1>8, <1>9, <1>11, <2>1, <2>4, <3>2
      <3> QED BY <3>1, <3>2
    <2> HIDE DEF place
    <2> QED BY <1>4, <1>5, <2>2, <2>3, <2>4
  <1>12. CASE /\ last \notin DOMAIN heap /\ root = Null /\ root' = Fresh
              /\ \A k \in DOMAIN stack : stack'[k].head = stack[k].head
    <2> DEFINE place == <<"root", Null>>
    <2>1. place \in PlacesOf(heap, stack) /\ place \in PlacesOf(heap', stack')
      BY DEF PlacesOf
    <2>2. T(place) = Null /\ U(place) = Fresh
      BY <1>8, <1>12
    <2>3. ASSUME NEW p \in PlacesOf(heap, stack), p # place PROVE U(p) = T(p)
      <3>1. CASE \E f \in Fields, n \in DOMAIN heap : p = <<f, n>>
        BY <1>6, <1>12, <3>1
      <3>2. CASE ~ \E f \in Fields, n \in DOMAIN heap : p = <<f, n>>
        BY <1>7, <1>9, <1>12, <2>3, <3>2
      <3> QED BY <3>1, <3>2
    <2> HIDE DEF place
    <2> QED BY <1>4, <1>5, <2>1, <2>2, <2>3
  <1> QED BY <1>4, <1>10, <1>11, <1>12

LEMMA LeastNumber ==
    ASSUME NEW S, S \subseteq Nat, S # {}
    PROVE  \E n \in S : \A m \in S : ~ (m < n)
  <1> DEFINE R == OpToRel(<, Nat)
  <1>1. \A m, n \in Nat : m < n => <<m, n>> \in R
    BY DEF OpToRel
  <1>2. IsWellFoundedOn(R, Nat)
    BY Zenon, NatLessThanWellFounded
  <1> HIDE DEF R
  <1>3. PICK n \in S : \A m \in S : ~ (<<m, n>> \in R)
    BY <1>2, WFMin
  <1>4. \A m \in S : ~ (m < n)
    BY <1>1, <1>3
  <1> QED BY <1>3, <1>4

\* Without an activation and without a root nothing is allocated: the item
\* with the least number could only hang on one with a smaller number.
LEMMA NobodyOwns ==
    ASSUME NEW h, NEW s, NEW r, NEW t, Kinds(h, s, r, t),
           Owned(Pointer(h, s, r), DOMAIN h \cup t), DOMAIN s = {}, r = Null
    PROVE  DOMAIN h = {} /\ t = {}
  <1>1. ASSUME NEW b \in DOMAIN h \cup t
        PROVE  \E n \in DOMAIN h :
                  b \in {h[n].next, h[n].child, h[n].string, h[n].valuestring}
    <2>1. PICK p \in PlacesOf(h, s) : TargetOf(h, s, r, p) = b
      BY PointerDomain DEF Owned
    <2>2. b # Null
      BY DEF Kinds
    <2>3. TargetOf(h, s, r, <<"root", Null>>) = Null
      BY DEF TargetOf
    <2>4. \E f \in Fields, n \in DOMAIN h : p = <<f, n>>
      <3>1. \/ \E f \in Fields, n \in DOMAIN h : p = <<f, n>>
            \/ \E k \in DOMAIN s : p = <<"head", k>>
            \/ p = <<"root", Null>>
        BY PlaceCases
      <3> QED BY <2>1, <2>2, <2>3, <3>1
    <2> QED BY <2>1, <2>4 DEF TargetOf, Fields
  <1>2. DOMAIN h = {}
    <2> SUFFICES ASSUME DOMAIN h # {} PROVE FALSE
      OBVIOUS
    <2>1. DOMAIN h \subseteq Nat
      BY DEF Kinds
    <2>2. PICK b \in DOMAIN h : \A n \in DOMAIN h : ~ (n < b)
      BY <2>1, LeastNumber
    <2>3. PICK n \in DOMAIN h :
             b \in {h[n].next, h[n].child, h[n].string, h[n].valuestring}
      BY <1>1
    <2>4. n < b
      BY <2>3 DEF Kinds
    <2> QED BY <2>2, <2>4
  <1> QED BY <1>1, <1>2

(***************************************************************************)
(* The inductive invariant.                                                *)
(***************************************************************************)
\* While the parser works nothing hangs yet on the items it is about to link
\* from: the containers that are open, the last elements of their lists, the
\* item being parsed.
Working == at \in {"value", "element", "key", "after"}

OpenContainer(h, a) ==
    /\ a.item \in DOMAIN h /\ h[a.item].child = Null
    /\ a.head = Null => a.current = Null
    /\ a.head # Null => /\ a.current \in DOMAIN h
                        /\ h[a.current].next = Null
                        /\ a.item < a.head /\ a.head <= a.current

Unparsed ==
    /\ item \in DOMAIN heap
    /\ heap[item].child = Null /\ heap[item].valuestring = Null
    /\ at = "key" => heap[item].string = Null
    /\ stack # << >> => Top.head # Null /\ item = Top.current

Shape ==
    /\ Working =>
          /\ depth = Len(stack)
          /\ \A k \in DOMAIN stack : OpenContainer(heap, stack[k])
          /\ \A k, l \in DOMAIN stack :
                k < l => stack[k].head # Null /\ stack[k].current <= stack[l].item
    /\ at \in {"value", "key"} => Unparsed
    /\ at \in {"element", "key"} => stack # << >>
    /\ at = "start" => heap = << >> /\ texts = {} /\ names = 0 /\ depth = 0
    /\ at \in {"start", "parsed", "refused", "released"} => stack = << >>
    /\ at \in {"start", "refused", "released"} => root = Null

Ownership ==
    /\ Kinds(heap, stack, root, texts)
    /\ Owned(Pointer(heap, stack, root), DOMAIN heap \cup texts)

MemoryInv == TypeOK /\ Ownership /\ Shape

(***************************************************************************)
(* The steps.                                                              *)
(***************************************************************************)
LEMMA ItemFacts ==
    /\ NewItem \in Item
    /\ NewItem.next = Null /\ NewItem.child = Null
    /\ NewItem.string = Null /\ NewItem.valuestring = Null
  BY DEF NewItem, Item, Types, Null

LEMMA StackFacts ==
    ASSUME TypeOK, stack # << >>
    PROVE  /\ Len(stack) \in Nat \ {0} /\ DOMAIN stack = 1 .. Len(stack)
           /\ Len(stack) \in DOMAIN stack
           /\ Top = stack[Len(stack)] /\ Top \in Activation
           /\ Pop \in Seq(Activation) /\ Len(Pop) = Len(stack) - 1
           /\ DOMAIN Pop = DOMAIN stack \ {Len(stack)}
           /\ \A k \in DOMAIN Pop : Pop[k] = stack[k]
  <1>1. stack \in Seq(Activation) /\ Len(stack) \in Nat \ {0}
        /\ DOMAIN stack = 1 .. Len(stack)
    BY DEF TypeOK
  <1>2. /\ Pop \in Seq(Activation) /\ Len(Pop) = Len(stack) - 1
        /\ \A k \in 1 .. Len(stack) - 1 : Pop[k] = stack[k]
    BY <1>1 DEF Pop
  <1>3. DOMAIN Pop = 1 .. Len(stack) - 1
    BY <1>1, <1>2
  <1>4. Top = stack[Len(stack)] /\ Top \in Activation
    BY <1>1 DEF Top
  <1> QED BY <1>1, <1>2, <1>3, <1>4

LEMMA ParserInit == Init => MemoryInv
  <1> SUFFICES ASSUME Init PROVE MemoryInv
    OBVIOUS
  <1>e. << >> \in [DOMAIN << >> -> Item] /\ DOMAIN << >> = {} /\ << >> \in Seq(Activation)
    OBVIOUS
  <1>1. TypeOK
    <2>1. DOMAIN heap \subseteq 1 .. names /\ heap \in [DOMAIN heap -> Item]
      BY <1>e DEF Init
    <2>2. input \in Seq(Tokens) /\ offset \in 0 .. Len(input) /\ depth \in 0 .. DepthLimit
      BY ParserAssumption DEF Init
    <2> QED BY <1>e, <2>1, <2>2 DEF Init, TypeOK, Stations, Null
  <1>2. DOMAIN heap = {} /\ DOMAIN stack = {} /\ texts = {} /\ root = Null
    BY DEF Init
  <1>3. Kinds(heap, stack, root, texts)
    BY <1>2 DEF Kinds
  <1>4. \A p \in PlacesOf(heap, stack) : TargetOf(heap, stack, root, p) = Null
    BY <1>2 DEF PlacesOf, TargetOf
  <1>5. Owned(Pointer(heap, stack, root), DOMAIN heap \cup texts)
    BY <1>2, <1>4, PointerDomain DEF Owned
  <1>6. Shape
    BY DEF Init, Shape, Working
  <1> QED BY <1>1, <1>3, <1>5, <1>6 DEF MemoryInv, Ownership

LEMMA BeginKeeps == ASSUME MemoryInv, Begin PROVE MemoryInv'
  <1>1. /\ at = "start" /\ stack = << >> /\ root = Null /\ heap = << >> /\ texts = {}
        /\ names = 0 /\ TypeOK
        /\ UNCHANGED <<input, offset, depth, stack>>
    BY DEF Begin, MemoryInv, Shape
  <1>2. CASE AllocateItem(Null) /\ item' = Fresh /\ root' = Fresh /\ at' = "value"
    <2>1. /\ DOMAIN heap = {} /\ DOMAIN stack = {} /\ Fresh = 1
          /\ Kinds(heap, stack, root, texts)
          /\ Owned(Pointer(heap, stack, root), DOMAIN heap \cup texts)
      BY <1>1 DEF Fresh, MemoryInv, Ownership
    <2>2. heap' = [n \in {1} |-> NewItem] /\ texts' = texts /\ names' = 1
      BY <1>1, <1>2, <2>1 DEF AllocateItem
    <2>3. DOMAIN heap' = DOMAIN heap \cup {Fresh} /\ heap'[Fresh] = NewItem
      BY <2>1, <2>2
    <2>4. Ownership'
      <3>1. Fresh \in Nat \ {Null} /\ Fresh \notin texts /\ Null \notin DOMAIN heap
        BY <1>1, <2>1 DEF Null
      <3> QED BY <1>1, <1>2, <2>1, <2>2, <2>3, <3>1, ItemAdded DEF Ownership
    <2>5. TypeOK'
      <3>1. DOMAIN heap' \subseteq 1 .. names' /\ heap' \in [DOMAIN heap' -> Item]
        BY <2>2, ItemFacts
      <3>2. item' \in Nat /\ root' \in Nat /\ texts' \subseteq 1 .. names' /\ names' \in Nat
            /\ exhausted' \in BOOLEAN
        BY <1>1, <1>2, <2>1, <2>2 DEF AllocateItem, TypeOK
      <3> QED BY <1>1, <1>2, <3>1, <3>2 DEF TypeOK, Stations
    <2>6. Shape'
      <3>1. depth = 0
        BY <1>1 DEF MemoryInv, Shape
      <3> QED BY <1>1, <1>2, <2>1, <2>2, <2>3, <3>1, ItemFacts DEF Shape, Working, Unparsed
    <2> QED BY <2>4, <2>5, <2>6 DEF MemoryInv
  <1>3. CASE /\ at' \in {"fail", "refused"}
             /\ UNCHANGED <<heap, texts, names, item, root>> /\ exhausted' \in BOOLEAN
    BY <1>1, <1>3 DEF MemoryInv, TypeOK, Ownership, Shape, Working, Stations
  <1>4. OutOfMemory => /\ at' = "fail" /\ exhausted' = TRUE
                       /\ UNCHANGED <<heap, texts, names>>
    BY DEF OutOfMemory
  <1>5. UNCHANGED memory => UNCHANGED <<heap, texts, names, exhausted>>
    BY DEF memory
  <1> QED BY <1>1, <1>2, <1>3, <1>4, <1>5 DEF Begin, TypeOK

\* The activations of a parser at work, as Shape has them.
Activations ==
    /\ depth = Len(stack)
    /\ \A k \in DOMAIN stack : OpenContainer(heap, stack[k])
    /\ \A k, l \in DOMAIN stack :
          k < l => stack[k].head # Null /\ stack[k].current <= stack[l].item

LEMMA AtWork ==
    ASSUME MemoryInv, Working
    PROVE  /\ TypeOK /\ Ownership /\ Activations
           /\ at \in {"value", "key"} => Unparsed
           /\ at \in {"element", "key"} => stack # << >>
  BY DEF MemoryInv, Shape, Activations

LEMMA ActivationsStay ==
    ASSUME Activations, DOMAIN heap' = DOMAIN heap,
           \A n \in DOMAIN heap : /\ heap'[n].next = heap[n].next
                                  /\ heap'[n].child = heap[n].child,
           stack' = stack, depth' = depth
    PROVE  Activations'
  <1>1. \A k \in DOMAIN stack : OpenContainer(heap', stack[k])
    BY DEF Activations, OpenContainer
  <1> QED BY <1>1 DEF Activations

\* A step that leaves the parser at work.
LEMMA StillWorking ==
    ASSUME MemoryInv, TypeOK', Ownership', Activations',
           at' \in {"value", "element", "key", "after"},
           at' \in {"value", "key"} => Unparsed',
           at' \in {"element", "key"} => stack' # << >>
    PROVE  MemoryInv'
  BY DEF MemoryInv, Shape, Activations, Working

LEMMA FailKeeps ==
    ASSUME MemoryInv, at' = "fail", at # "start",
           UNCHANGED <<input, offset, depth, stack, item, root, heap, texts, names>>,
           exhausted' \in BOOLEAN
    PROVE  MemoryInv'
  BY DEF MemoryInv, TypeOK, Ownership, Shape, Working, Stations

LEMMA FailCases ==
    /\ OutOfMemory => /\ at' = "fail" /\ exhausted' \in BOOLEAN
                      /\ UNCHANGED <<heap, texts, names>>
    /\ UNCHANGED memory => UNCHANGED <<heap, texts, names, exhausted>>
  BY DEF OutOfMemory, memory

LEMMA Tokenwise ==
    ASSUME TypeOK
    PROVE  /\ offset \in Nat /\ Len(input) \in Nat /\ offset <= Len(input)
           /\ Peek # "end" => offset + 1 \in 0 .. Len(input)
           /\ Second # "end" => offset + 2 \in 0 .. Len(input)
  BY DEF TypeOK, Peek, Second, Token

LEMMA ScalarKeeps == ASSUME MemoryInv, Scalar PROVE MemoryInv'
  <1>1. /\ at = "value" /\ at' = "after" /\ Peek = "scalar" /\ offset' = offset + 1
        /\ heap' = [heap EXCEPT ![item].type = "scalar"]
        /\ UNCHANGED <<input, depth, stack, item, root, texts, names, exhausted>>
    BY DEF Scalar
  <1>2. TypeOK /\ Ownership /\ Activations /\ Unparsed
    BY <1>1, AtWork DEF Working
  <1>3. item \in DOMAIN heap /\ heap[item] \in Item
    BY <1>2 DEF Unparsed, TypeOK
  <1>4. [heap[item] EXCEPT !.type = "scalar"] \in Item
    BY <1>3 DEF Item, Types
  <1>5. /\ DOMAIN heap' = DOMAIN heap /\ heap' \in [DOMAIN heap' -> Item]
        /\ \A n \in DOMAIN heap : SameFields(heap'[n], heap[n])
    BY <1>1, <1>2, <1>3, <1>4 DEF SameFields, Item, TypeOK
  <1>6. Ownership'
    BY <1>1, <1>2, <1>5, PointersStay DEF Ownership
  <1>7. Activations'
    BY <1>1, <1>2, <1>5, ActivationsStay DEF SameFields
  <1>8. TypeOK'
    <2>1. offset' \in 0 .. Len(input')
      BY <1>1, <1>2, Tokenwise
    <2> QED BY <1>1, <1>2, <1>5, <2>1 DEF TypeOK, Stations
  <1> QED BY <1>1, <1>6, <1>7, <1>8, StillWorking

\* parse_string, for a value or for a key.
LEMMA TextAllocated ==
    ASSUME TypeOK, Ownership, item \in DOMAIN heap,
           NEW parsed, AllocateText(parsed), parsed \in Item, UNCHANGED <<stack, root>>,
           parsed.next = heap[item].next, parsed.child = heap[item].child,
           \/ /\ heap[item].string = Null /\ parsed.string = Fresh
              /\ parsed.valuestring = heap[item].valuestring
           \/ /\ heap[item].valuestring = Null /\ parsed.valuestring = Fresh
              /\ parsed.string = heap[item].string
    PROVE  /\ Ownership'
           /\ DOMAIN heap' = DOMAIN heap /\ heap' \in [DOMAIN heap' -> Item]
           /\ DOMAIN heap' \subseteq 1 .. names' /\ texts' \subseteq 1 .. names'
           /\ names' \in Nat /\ exhausted' = exhausted
           /\ heap'[item] = parsed
           /\ \A n \in DOMAIN heap : /\ heap'[n].next = heap[n].next
                                     /\ heap'[n].child = heap[n].child
  <1>1. /\ names' = names + 1 /\ texts' = texts \cup {Fresh} /\ Fresh = names + 1
        /\ heap' = [heap EXCEPT ![item] = parsed] /\ exhausted' = exhausted
    BY DEF AllocateText, Fresh
  <1>2. /\ names \in Nat /\ DOMAIN heap \subseteq 1 .. names /\ texts \subseteq 1 .. names
        /\ heap \in [DOMAIN heap -> Item]
    BY DEF TypeOK
  <1>3. /\ DOMAIN heap' = DOMAIN heap /\ heap' \in [DOMAIN heap' -> Item]
        /\ heap'[item] = parsed /\ \A n \in DOMAIN heap : n # item => heap'[n] = heap[n]
    BY <1>1, <1>2
  <1>4. Fresh \in Nat \ {Null} /\ Fresh \notin DOMAIN heap \cup texts
    BY <1>1, <1>2 DEF Null
  <1>5. Ownership'
    BY <1>1, <1>3, <1>4, TextAdded DEF Ownership
  <1>6. /\ DOMAIN heap' \subseteq 1 .. names' /\ texts' \subseteq 1 .. names'
        /\ names' \in Nat
    BY <1>1, <1>2, <1>3
  <1> QED BY <1>1, <1>3, <1>5, <1>6

LEMMA TextKeeps == ASSUME MemoryInv, Text PROVE MemoryInv'
  <1> DEFINE parsed == [heap[item] EXCEPT !.type = "text", !.valuestring = Fresh]
  <1>1. /\ at = "value" /\ Peek = "text" /\ UNCHANGED <<input, depth, stack, item, root>>
        /\ \/ AllocateText(parsed) /\ offset' = offset + 1 /\ at' = "after"
           \/ OutOfMemory /\ offset' = offset
    BY DEF Text
  <1>2. TypeOK /\ Ownership /\ Activations /\ Unparsed
    BY <1>1, AtWork DEF Working
  <1>3. item \in DOMAIN heap /\ heap[item] \in Item /\ heap[item].valuestring = Null
    BY <1>2 DEF Unparsed, TypeOK
  <1>4. Fresh \in Nat
    BY <1>2 DEF TypeOK, Fresh
  <1>5. /\ parsed \in Item /\ parsed.valuestring = Fresh
        /\ parsed.next = heap[item].next /\ parsed.child = heap[item].child
        /\ parsed.string = heap[item].string
    BY <1>3, <1>4 DEF Item, Types
  <1> HIDE DEF parsed
  <1>6. CASE AllocateText(parsed) /\ offset' = offset + 1 /\ at' = "after"
    <2>1. /\ Ownership'
          /\ DOMAIN heap' = DOMAIN heap /\ heap' \in [DOMAIN heap' -> Item]
          /\ DOMAIN heap' \subseteq 1 .. names' /\ texts' \subseteq 1 .. names'
          /\ names' \in Nat /\ exhausted' = exhausted
          /\ \A n \in DOMAIN heap : /\ heap'[n].next = heap[n].next
                                    /\ heap'[n].child = heap[n].child
      BY <1>1, <1>2, <1>3, <1>5, <1>6, TextAllocated
    <2>2. Activations'
      BY <1>1, <1>2, <2>1, ActivationsStay
    <2>3. offset' \in 0 .. Len(input')
      BY <1>1, <1>2, <1>6, Tokenwise
    <2>4. TypeOK'
      BY <1>1, <1>2, <1>6, <2>1, <2>3 DEF TypeOK, Stations
    <2> QED BY <1>6, <2>1, <2>2, <2>4, StillWorking
  <1>7. CASE OutOfMemory /\ offset' = offset
    BY <1>1, <1>7, FailCases, FailKeeps
  <1> QED BY <1>1, <1>6, <1>7

LEMMA NoValueKeeps == ASSUME MemoryInv, NoValue PROVE MemoryInv'
  <1>1. UNCHANGED <<heap, texts, names, exhausted>>
    BY FailCases DEF NoValue
  <1> QED BY <1>1, FailKeeps DEF NoValue, MemoryInv, TypeOK

LEMMA KeyKeeps == ASSUME MemoryInv, Key PROVE MemoryInv'
  <1> DEFINE keyed == Keyed(heap[item])
  <1>1. /\ at = "key" /\ UNCHANGED <<input, depth, stack, item, root>>
        /\ \/ /\ Peek = "text" /\ AllocateText(keyed)
              /\ IF Second = ":" THEN offset' = offset + 2 /\ at' = "value"
                                 ELSE offset' = offset + 1 /\ at' = "fail"
           \/ Peek = "text" /\ OutOfMemory /\ offset' = offset
           \/ at' = "fail" /\ UNCHANGED <<memory, offset>>
    BY DEF Key
  <1>2. TypeOK /\ Ownership /\ Activations /\ Unparsed /\ stack # << >>
    BY <1>1, AtWork DEF Working
  <1>3. /\ item \in DOMAIN heap /\ heap[item] \in Item /\ heap[item].valuestring = Null
        /\ heap[item].string = Null /\ heap[item].child = Null
    BY <1>1, <1>2 DEF Unparsed, TypeOK
  <1>4. Fresh \in Nat
    BY <1>2 DEF TypeOK, Fresh
  <1>5. /\ keyed \in Item /\ keyed.valuestring = Null /\ keyed.string = Fresh
        /\ keyed.next = heap[item].next /\ keyed.child = heap[item].child
    BY <1>3, <1>4 DEF Keyed, Item, Types, Null
  <1> HIDE DEF keyed
  <1>6. CASE /\ Peek = "text" /\ AllocateText(keyed)
             /\ IF Second = ":" THEN offset' = offset + 2 /\ at' = "value"
                                ELSE offset' = offset + 1 /\ at' = "fail"
    <2>1. /\ Ownership'
          /\ DOMAIN heap' = DOMAIN heap /\ heap' \in [DOMAIN heap' -> Item]
          /\ DOMAIN heap' \subseteq 1 .. names' /\ texts' \subseteq 1 .. names'
          /\ names' \in Nat /\ exhausted' = exhausted /\ heap'[item] = keyed
          /\ \A n \in DOMAIN heap : /\ heap'[n].next = heap[n].next
                                    /\ heap'[n].child = heap[n].child
      BY <1>1, <1>2, <1>3, <1>5, <1>6, TextAllocated
    <2>2. Activations'
      BY <1>1, <1>2, <2>1, ActivationsStay
    <2>3. offset' \in 0 .. Len(input') /\ at' \in {"value", "fail"}
      BY <1>1, <1>2, <1>6, Tokenwise
    <2>4. TypeOK'
      BY <1>1, <1>2, <2>1, <2>3 DEF TypeOK, Stations
    <2>5. CASE at' = "value"
      <3>1. Unparsed'
        BY <1>1, <1>2, <1>3, <1>5, <2>1, <2>5 DEF Unparsed, Top
      <3> QED BY <2>1, <2>2, <2>4, <2>5, <3>1, StillWorking
    <2>6. CASE at' = "fail"
      BY <2>1, <2>4, <2>6 DEF MemoryInv, Shape, Working
    <2> QED BY <2>3, <2>5, <2>6
  <1>7. CASE OutOfMemory /\ offset' = offset
    BY <1>1, <1>7, FailCases, FailKeeps
  <1>8. CASE at' = "fail" /\ UNCHANGED <<memory, offset>>
    BY <1>1, <1>2, <1>8, FailCases, FailKeeps DEF TypeOK
  <1> QED BY <1>1, <1>6, <1>7, <1>8

LEMMA OpenKeeps == ASSUME MemoryInv, NEW kind \in {"array", "object"}, Open(kind) PROVE MemoryInv'
  <1> DEFINE activation == [kind |-> kind, item |-> item, head |-> Null, current |-> Null]
  <1>1. at = "value" /\ UNCHANGED <<input, item, root, texts, names, exhausted>>
    BY DEF Open
  <1>2. TypeOK /\ Ownership /\ Activations /\ Unparsed
    BY <1>1, AtWork DEF Working
  <1>3. item \in DOMAIN heap /\ heap[item] \in Item /\ heap[item].child = Null
    BY <1>2 DEF Unparsed, TypeOK
  <1>4. CASE at' = "fail" /\ UNCHANGED <<offset, depth, stack, heap>>
    BY <1>1, <1>2, <1>4, FailKeeps DEF TypeOK
  <1>5. CASE /\ Second = Closer(kind) /\ heap' = [heap EXCEPT ![item].type = kind]
             /\ offset' = offset + 2 /\ at' = "after" /\ UNCHANGED <<depth, stack>>
    <2>1. [heap[item] EXCEPT !.type = kind] \in Item
      BY <1>3 DEF Item, Types
    <2>2. /\ DOMAIN heap' = DOMAIN heap /\ heap' \in [DOMAIN heap' -> Item]
          /\ \A n \in DOMAIN heap : SameFields(heap'[n], heap[n])
      BY <1>2, <1>3, <1>5, <2>1 DEF SameFields, Item, TypeOK
    <2>3. Ownership'
      BY <1>1, <1>2, <1>5, <2>2, PointersStay DEF Ownership
    <2>4. Activations'
      BY <1>2, <1>5, <2>2, ActivationsStay DEF SameFields
    <2>5. offset' \in 0 .. Len(input')
      BY <1>1, <1>2, <1>5, Tokenwise DEF Closer
    <2>6. TypeOK'
      BY <1>1, <1>2, <1>5, <2>2, <2>5 DEF TypeOK, Stations
    <2> QED BY <1>5, <2>3, <2>4, <2>6, StillWorking
  <1>6. CASE /\ ~TooDeep /\ stack' = Append(stack, activation)
             /\ depth' = depth + 1 /\ offset' = offset + 1 /\ at' = "element"
             /\ Peek # "end" /\ UNCHANGED heap
    <2>1. stack \in Seq(Activation) /\ activation \in Activation /\ Len(stack) \in Nat
      BY <1>2 DEF TypeOK, Activation, Null
    <2>2. /\ activation.item = item /\ activation.head = Null /\ activation.current = Null
      OBVIOUS
    <2> HIDE DEF activation
    <2>3. /\ stack' \in Seq(Activation) /\ Len(stack') = Len(stack) + 1 /\ stack' # << >>
          /\ DOMAIN stack = 1 .. Len(stack) /\ DOMAIN stack' = 1 .. Len(stack) + 1
          /\ \A k \in DOMAIN stack : stack'[k] = stack[k]
          /\ stack'[Len(stack) + 1] = activation
      BY <1>6, <2>1
    <2>4. \A n \in DOMAIN heap : SameFields(heap[n], heap[n])
      BY DEF SameFields
    <2>5. Ownership'
      <3>1. \A k \in DOMAIN stack : k \in DOMAIN stack' /\ stack'[k].head = stack[k].head
        BY <2>3
      <3>2. \A k \in DOMAIN stack' \ DOMAIN stack : stack'[k].head = Null
        BY <2>1, <2>2, <2>3
      <3> QED BY <1>1, <1>2, <1>6, <2>4, <3>1, <3>2, PointersStay DEF Ownership
    <2>6. Activations'
      <3>1. \A k \in DOMAIN stack : OpenContainer(heap', stack'[k])
        BY <1>2, <1>6, <2>3 DEF Activations, OpenContainer
      <3>2. OpenContainer(heap', stack'[Len(stack) + 1])
        BY <1>3, <1>6, <2>2, <2>3 DEF OpenContainer
      <3>3. ASSUME NEW k \in DOMAIN stack', NEW l \in DOMAIN stack', k < l
            PROVE  stack'[k].head # Null /\ stack'[k].current <= stack'[l].item
        <4>1. k \in DOMAIN stack /\ stack'[k] = stack[k]
          BY <2>1, <2>3, <3>3
        <4>2. CASE l \in DOMAIN stack
          BY <1>2, <2>3, <3>3, <4>1, <4>2 DEF Activations
        <4>3. CASE l = Len(stack) + 1
          <5>0. stack # << >>
            BY <4>1
          <5>1. /\ Top = stack[Len(stack)] /\ Top.head # Null /\ item = Top.current
                /\ Len(stack) \in DOMAIN stack /\ Top \in Activation
            BY <1>2, <5>0, StackFacts DEF Unparsed
          <5>2. CASE k = Len(stack)
            BY <1>2, <2>2, <2>3, <4>1, <4>3, <5>1, <5>2 DEF TypeOK
          <5>3. CASE k < Len(stack)
            <6>1. stack[k].head # Null /\ stack[k].current <= stack[Len(stack)].item
              BY <1>2, <4>1, <5>1, <5>3 DEF Activations
            <6>2. OpenContainer(heap, Top) /\ OpenContainer(heap, stack[k])
              BY <1>2, <4>1, <5>1 DEF Activations
            <6>3. stack[Len(stack)].item <= item
              BY <5>1, <6>2 DEF OpenContainer, Activation
            <6>4. stack[k].current \in Nat /\ stack[Len(stack)].item \in Nat /\ item \in Nat
              <7>1. stack[k] \in Activation
                BY <2>1, <4>1
              <7> QED BY <5>1, <7>1 DEF Activation
            <6> QED BY <2>2, <2>3, <4>1, <4>3, <6>1, <6>3, <6>4
          <5> QED BY <2>1, <2>3, <4>1, <5>2, <5>3
        <4> QED BY <2>1, <2>3, <4>2, <4>3
      <3>4. depth' = Len(stack')
        BY <1>2, <1>6, <2>3 DEF Activations
      <3>5. \A k \in DOMAIN stack' : OpenContainer(heap', stack'[k])
        BY <2>1, <2>3, <3>1, <3>2 DEF OpenContainer
      <3> QED BY <3>3, <3>4, <3>5 DEF Activations
    <2>7. TypeOK'
      <3>1. offset' \in 0 .. Len(input')
        BY <1>1, <1>2, <1>6, Tokenwise
      <3>2. depth' \in 0 .. DepthLimit
        BY <1>2, <1>6, ParserAssumption DEF TypeOK, TooDeep
      <3> QED BY <1>1, <1>2, <1>6, <2>3, <3>1, <3>2 DEF TypeOK, Stations
    <2> QED BY <1>6, <2>3, <2>5, <2>6, <2>7, StillWorking
  <1>7. Peek # "end"
    BY DEF Open, Opener
  <1> QED BY <1>4, <1>5, <1>6, <1>7 DEF Open

LEMMA ElementKeeps == ASSUME MemoryInv, Element PROVE MemoryInv'
  <1>1. at = "element" /\ UNCHANGED <<input, offset, depth, root>>
    BY DEF Element
  <1>2. TypeOK /\ Ownership /\ Activations /\ stack # << >>
    BY <1>1, AtWork DEF Working
  <1> DEFINE last == Top.current
             top  == Len(stack)
  <1>3. /\ Len(stack) \in Nat \ {0} /\ DOMAIN stack = 1 .. Len(stack) /\ top \in DOMAIN stack
        /\ Top = stack[top] /\ Top \in Activation
        /\ Pop \in Seq(Activation) /\ Len(Pop) = Len(stack) - 1
        /\ DOMAIN Pop = DOMAIN stack \ {top}
        /\ \A k \in DOMAIN Pop : Pop[k] = stack[k]
    BY <1>2, StackFacts
  <1>4. /\ names \in Nat /\ DOMAIN heap \subseteq 1 .. names /\ texts \subseteq 1 .. names
        /\ heap \in [DOMAIN heap -> Item] /\ Fresh = names + 1
        /\ Fresh \in Nat \ {Null} /\ Fresh \notin texts /\ Fresh \notin DOMAIN heap
        /\ \A n \in DOMAIN heap : n < Fresh
        /\ Null \notin DOMAIN heap
    BY <1>2 DEF TypeOK, Fresh, Null
  <1>5. CASE /\ AllocateItem(last) /\ stack' = Append(Pop, Enlist(Top)) /\ item' = Fresh
             /\ at' = IF Top.kind = "array" THEN "value" ELSE "key"
    <2>1. /\ names' = Fresh /\ UNCHANGED <<texts, exhausted>>
          /\ heap' = [n \in DOMAIN heap \cup {Fresh} |->
                         IF n = Fresh THEN NewItem
                         ELSE IF n = last THEN [heap[n] EXCEPT !.next = Fresh]
                         ELSE heap[n]]
      BY <1>5 DEF AllocateItem
    <2>2. /\ DOMAIN heap' = DOMAIN heap \cup {Fresh} /\ heap'[Fresh] = NewItem
          /\ \A n \in DOMAIN heap : n # last => heap'[n] = heap[n]
          /\ last \in DOMAIN heap => heap'[last] = [heap[last] EXCEPT !.next = Fresh]
      BY <1>4, <2>1
    <2>3. \A n \in DOMAIN heap : heap'[n] \in Item /\ heap'[n].child = heap[n].child
      <3>1. \A n \in DOMAIN heap : heap[n] \in Item
        BY <1>4
      <3> QED BY <1>4, <2>2, <3>1 DEF Item
    <2>4. /\ Enlist(Top) \in Activation /\ Enlist(Top).current = Fresh
          /\ Enlist(Top).head = (IF Top.head = Null THEN Fresh ELSE Top.head)
          /\ Enlist(Top).item = Top.item
      BY <1>3, <1>4 DEF Enlist, Activation
    <2>5. /\ stack' \in Seq(Activation) /\ Len(stack') = Len(stack)
          /\ DOMAIN stack' = DOMAIN stack /\ stack'[top] = Enlist(Top)
          /\ \A k \in DOMAIN Pop : stack'[k] = stack[k]
      <3>1. /\ stack' \in Seq(Activation) /\ Len(stack') = Len(Pop) + 1
            /\ stack'[Len(Pop) + 1] = Enlist(Top)
            /\ \A k \in DOMAIN Pop : stack'[k] = Pop[k]
        <4>1. stack' = Append(Pop, Enlist(Top))
          BY <1>5
        <4>2. \A s \in Seq(Activation), e \in Activation :
                 /\ Append(s, e) \in Seq(Activation) /\ Len(Append(s, e)) = Len(s) + 1
                 /\ Append(s, e)[Len(s) + 1] = e
                 /\ \A k \in DOMAIN s : Append(s, e)[k] = s[k]
          OBVIOUS
        <4> QED BY ONLY <1>3, <2>4, <4>1, <4>2
      <3>2. Len(Pop) + 1 = top /\ DOMAIN stack' = 1 .. Len(stack')
        BY <1>3, <3>1
      <3> QED BY <1>3, <3>1, <3>2
    <2>6. stack' # << >> /\ Top' = Enlist(Top)
      BY <1>3, <2>5 DEF Top
    <2>7. OpenContainer(heap, Top)
      BY <1>2, <1>3 DEF Activations
    <2>8. Ownership'
      <3> DEFINE Linking ==
            \/ /\ last \in DOMAIN heap /\ heap[last].next = Null
               /\ heap'[last] = [heap[last] EXCEPT !.next = Fresh] /\ heap[last] \in Item
               /\ \A k \in DOMAIN stack : stack'[k].head = stack[k].head
               /\ root' = root
            \/ /\ last \notin DOMAIN heap
               /\ \E k \in DOMAIN stack :
                     /\ stack[k].head = Null /\ stack'[k].head = Fresh
                     /\ \A l \in DOMAIN stack : l # k => stack'[l].head = stack[l].head
               /\ root' = root
      <3>1. ASSUME Top.head = Null PROVE Linking
        <4>1. last \notin DOMAIN heap
          BY <1>4, <2>7, <3>1 DEF OpenContainer
        <4>2. /\ stack[top].head = Null /\ stack'[top].head = Fresh
              /\ \A k \in DOMAIN stack : k # top => stack'[k].head = stack[k].head
          BY <1>3, <2>4, <2>5, <3>1
        <4> QED BY <1>1, <1>3, <4>1, <4>2
      <3>2. ASSUME Top.head # Null PROVE Linking
        <4>1. last \in DOMAIN heap /\ heap[last].next = Null /\ heap[last] \in Item
          BY <1>4, <2>7, <3>2 DEF OpenContainer
        <4>2. \A k \in DOMAIN stack : stack'[k].head = stack[k].head
          BY <1>3, <2>4, <2>5, <3>2
        <4>3. heap'[last] = [heap[last] EXCEPT !.next = Fresh]
          BY <2>2, <4>1
        <4> QED BY <1>1, <4>1, <4>2, <4>3
      <3>3. Linking
        BY <3>1, <3>2
      <3>4. Kinds(heap, stack, root, texts)
            /\ Owned(Pointer(heap, stack, root), DOMAIN heap \cup texts)
        BY <1>2 DEF Ownership
      <3>5. texts' = texts
        BY <2>1
      <3> HIDE DEF last
      <3>6. /\ Owned(Pointer(heap', stack', root'), DOMAIN heap' \cup texts)
            /\ Kinds(heap', stack', root', texts)
        <4>1. \/ /\ last \in DOMAIN heap /\ heap[last].next = Null
                 /\ heap'[last] = [heap[last] EXCEPT !.next = Fresh] /\ heap[last] \in Item
                 /\ \A k \in DOMAIN stack : stack'[k].head = stack[k].head
                 /\ root' = root
              \/ /\ last \notin DOMAIN heap
                 /\ \E k \in DOMAIN stack :
                       /\ stack[k].head = Null /\ stack'[k].head = Fresh
                       /\ \A l \in DOMAIN stack : l # k => stack'[l].head = stack[l].head
                 /\ root' = root
              \/ /\ last \notin DOMAIN heap
                 /\ \A k \in DOMAIN stack : stack'[k].head = stack[k].head
                 /\ root = Null /\ root' = Fresh
          BY <3>3
        <4>2. DOMAIN stack' = DOMAIN stack
          BY <2>5
        <4> QED BY ONLY <1>4, <2>2, <3>4, <4>1, <4>2, ItemAdded
      <3> QED BY <3>5, <3>6 DEF Ownership
    <2>9. Activations'
      <3>1. ASSUME NEW k \in DOMAIN Pop PROVE OpenContainer(heap', stack'[k])
        <4>1. k \in DOMAIN stack /\ k < top /\ stack'[k] = stack[k] /\ stack[k] \in Activation
          BY <1>3, <2>5, <1>2 DEF TypeOK
        <4>2. OpenContainer(heap, stack[k])
          BY <1>2, <4>1 DEF Activations
        <4>3. stack[k].head # Null /\ stack[k].current <= Top.item
          BY <1>2, <1>3, <4>1 DEF Activations
        <4>4. stack[k].current # last \/ last \notin DOMAIN heap
          BY <1>3, <1>4, <2>7, <4>1, <4>3 DEF OpenContainer, Activation
        <4> QED BY <2>2, <2>3, <4>1, <4>2, <4>4 DEF OpenContainer
      <3>2. OpenContainer(heap', stack'[top])
        <4>1. /\ Top.item \in DOMAIN heap' /\ heap'[Top.item].child = Null
              /\ Top.item < Fresh
          BY <1>4, <2>2, <2>3, <2>7 DEF OpenContainer
        <4>2. Fresh \in DOMAIN heap' /\ heap'[Fresh].next = Null /\ Fresh # Null
          BY <1>4, <2>2, ItemFacts
        <4>3. Top.head # Null => Top.item < Top.head /\ Top.head <= Fresh
          BY <1>3, <1>4, <2>7 DEF OpenContainer, Activation
        <4> QED BY <1>4, <2>4, <2>5, <4>1, <4>2, <4>3 DEF OpenContainer
      <3>3. ASSUME NEW k \in DOMAIN stack', NEW l \in DOMAIN stack', k < l
            PROVE  stack'[k].head # Null /\ stack'[k].current <= stack'[l].item
        <4>1. k \in DOMAIN Pop /\ stack'[k] = stack[k]
          BY <1>3, <2>5, <3>3
        <4>2. stack'[l].item = stack[l].item
          BY <1>3, <2>4, <2>5
        <4> QED BY <1>2, <2>5, <3>3, <4>1, <4>2 DEF Activations
      <3>4. depth' = Len(stack')
        BY <1>1, <1>2, <2>5 DEF Activations
      <3>5. \A k \in DOMAIN stack' : OpenContainer(heap', stack'[k])
        BY <1>3, <2>5, <3>1, <3>2
      <3> QED BY <3>3, <3>4, <3>5 DEF Activations
    <2>10. Unparsed'
      <3>1. Top'.head # Null /\ Top'.current = Fresh
        BY <1>4, <2>4, <2>6
      <3> QED BY <1>5, <2>2, <3>1, ItemFacts DEF Unparsed
    <2>11. TypeOK'
      <3>1. heap' \in [DOMAIN heap' -> Item]
        <4>1. \A n \in DOMAIN heap' : heap'[n] \in Item
          BY <2>2, <2>3, ItemFacts
        <4>2. heap' = [n \in DOMAIN heap' |-> heap'[n]]
          BY <2>1
        <4> QED BY <4>1, <4>2
      <3>2. /\ DOMAIN heap' \subseteq 1 .. names' /\ texts' \subseteq 1 .. names'
            /\ names' \in Nat /\ item' \in Nat
        BY <1>4, <1>5, <2>1, <2>2
      <3> QED BY <1>1, <1>2, <1>5, <2>1, <2>5, <3>1, <3>2 DEF TypeOK, Stations
    <2> QED BY <1>5, <2>6, <2>8, <2>9, <2>10, <2>11, StillWorking
  <1>6. CASE OutOfMemory /\ UNCHANGED <<stack, item>>
    BY <1>1, <1>6, FailCases, FailKeeps
  <1>7. CASE at' = "fail" /\ UNCHANGED <<memory, stack, item>>
    BY <1>1, <1>2, <1>7, FailCases, FailKeeps DEF TypeOK
  <1> QED BY <1>5, <1>6, <1>7 DEF Element

LEMMA AfterKeeps == ASSUME MemoryInv, After PROVE MemoryInv'
  <1>1. /\ at = "after" /\ stack # << >>
        /\ UNCHANGED <<input, item, root, texts, names, exhausted>>
    BY DEF After
  <1>2. TypeOK /\ Ownership /\ Activations
    BY <1>1, AtWork DEF Working
  <1> DEFINE top == Len(stack)
             i   == Top.item
  <1>3. /\ Len(stack) \in Nat \ {0} /\ DOMAIN stack = 1 .. Len(stack) /\ top \in DOMAIN stack
        /\ Top = stack[top] /\ Top \in Activation
        /\ Pop \in Seq(Activation) /\ Len(Pop) = Len(stack) - 1
        /\ DOMAIN Pop = DOMAIN stack \ {top}
        /\ \A k \in DOMAIN Pop : Pop[k] = stack[k]
    BY <1>1, <1>2, StackFacts
  <1>4. CASE /\ Peek = "," /\ offset' = offset + 1 /\ at' = "element"
             /\ UNCHANGED <<depth, stack, heap>>
    <2>1. Activations'
      BY <1>2, <1>4, ActivationsStay
    <2>2. Ownership'
      BY <1>1, <1>2, <1>4 DEF Ownership
    <2>3. offset' \in 0 .. Len(input')
      BY <1>1, <1>2, <1>4, Tokenwise
    <2>4. TypeOK'
      BY <1>1, <1>2, <1>4, <2>3 DEF TypeOK, Stations
    <2> QED BY <1>1, <1>4, <2>1, <2>2, <2>4, StillWorking
  <1>5. CASE /\ Peek = Closer(Top.kind) /\ Leave
             /\ heap' = [heap EXCEPT ![i] = [@ EXCEPT !.type = Top.kind, !.child = Top.head]]
             /\ offset' = offset + 1 /\ at' = "after"
    <2>1. stack' = Pop /\ depth' = depth - 1
      BY <1>5 DEF Leave
    <2>2. OpenContainer(heap, Top)
      BY <1>2, <1>3 DEF Activations
    <2>3. i \in DOMAIN heap /\ heap[i].child = Null /\ heap[i] \in Item
      BY <1>2, <2>2 DEF OpenContainer, TypeOK
    <2>4. /\ DOMAIN heap' = DOMAIN heap /\ \A n \in DOMAIN heap : n # i => heap'[n] = heap[n]
          /\ heap'[i] = [heap[i] EXCEPT !.type = Top.kind, !.child = Top.head]
      BY <1>2, <1>5, <2>3 DEF TypeOK
    <2>5. /\ heap'[i] \in Item /\ heap'[i].child = Top.head
          /\ heap'[i].next = heap[i].next /\ heap'[i].string = heap[i].string
          /\ heap'[i].valuestring = heap[i].valuestring
      BY <1>3, <2>3, <2>4 DEF Item, Activation, Types
    <2>6. Ownership'
      <3>1. Top.head # Null => i < Top.head
        BY <2>2 DEF OpenContainer
      <3>2. DOMAIN stack' = DOMAIN stack \ {top}
            /\ \A k \in DOMAIN stack' : stack'[k].head = stack[k].head
        BY <1>3, <2>1
      <3>3. /\ Owned(Pointer(heap', stack', root), DOMAIN heap' \cup texts)
            /\ Kinds(heap', stack', root, texts)
        BY <1>2, <1>3, <2>3, <2>4, <2>5, <3>1, <3>2, ContainerClosed DEF Ownership
      <3> QED BY <1>1, <3>3 DEF Ownership
    <2>7. Activations'
      <3>1. ASSUME NEW k \in DOMAIN stack' PROVE OpenContainer(heap', stack'[k])
        <4>1. k \in DOMAIN stack /\ k < top /\ stack'[k] = stack[k] /\ stack[k] \in Activation
          BY <1>2, <1>3, <2>1 DEF TypeOK
        <4>2. OpenContainer(heap, stack[k])
          BY <1>2, <4>1 DEF Activations
        <4>3. stack[k].head # Null /\ stack[k].current <= i
          BY <1>2, <1>3, <4>1 DEF Activations
        <4>4. stack[k].item # i
          BY <1>3, <4>1, <4>2, <4>3 DEF OpenContainer, Activation
        <4>5. \A n \in DOMAIN heap : heap'[n].next = heap[n].next
          BY <2>4, <2>5
        <4>6. heap'[stack[k].item] = heap[stack[k].item]
          BY <2>4, <4>2, <4>4 DEF OpenContainer
        <4> QED BY <2>4, <4>1, <4>2, <4>5, <4>6 DEF OpenContainer
      <3>2. depth' = Len(stack')
        BY <1>2, <1>3, <2>1 DEF Activations
      <3>3. ASSUME NEW k \in DOMAIN stack', NEW l \in DOMAIN stack', k < l
            PROVE  stack'[k].head # Null /\ stack'[k].current <= stack'[l].item
        BY <1>2, <1>3, <2>1, <3>3 DEF Activations
      <3> QED BY <3>1, <3>2, <3>3 DEF Activations
    <2>8. TypeOK'
      <3>1. offset' \in 0 .. Len(input')
        <4>1. Peek # "end"
          BY <1>5 DEF Closer
        <4> QED BY <1>1, <1>2, <1>5, <4>1, Tokenwise
      <3>2. depth' \in 0 .. DepthLimit
        BY <1>2, <1>3, <2>1, ParserAssumption DEF TypeOK, Activations
      <3>3. heap' \in [DOMAIN heap' -> Item]
        <4>1. \A n \in DOMAIN heap' : heap'[n] \in Item
          BY <1>2, <2>4, <2>5 DEF TypeOK
        <4>2. heap' = [n \in DOMAIN heap' |-> heap'[n]]
          BY <1>2, <1>5 DEF TypeOK
        <4> QED BY <4>1, <4>2
      <3> QED BY <1>1, <1>2, <1>3, <1>5, <2>1, <2>4, <3>1, <3>2, <3>3 DEF TypeOK, Stations
    <2> QED BY <1>1, <1>5, <2>6, <2>7, <2>8, StillWorking
  <1>6. CASE at' = "fail" /\ UNCHANGED <<offset, depth, stack, heap>>
    BY <1>1, <1>2, <1>6, FailKeeps DEF TypeOK
  <1> QED BY <1>4, <1>5, <1>6 DEF After

LEMMA FinishKeeps == ASSUME MemoryInv, Finish PROVE MemoryInv'
  <1>1. UNCHANGED <<heap, texts, names, exhausted>>
    BY FailCases DEF Finish
  <1> QED BY <1>1 DEF Finish, MemoryInv, TypeOK, Ownership, Shape, Working, Stations

\* cJSON_Delete of what a root or the list of an activation leads to.
LEMMA DeletionKeeps ==
    ASSUME TypeOK, Ownership, NEW place \in Roots(stack),
           NEW c, c = TargetOf(heap, stack, root, place), Delete(c),
           \A p \in Roots(stack) : p # place =>
                p \in Roots(stack') /\ TargetOf(heap, stack', root', p) = TargetOf(heap, stack, root, p),
           \A p \in Roots(stack') : TargetOf(heap, stack', root', p) # Null =>
                /\ p \in Roots(stack) /\ p # place
                /\ TargetOf(heap, stack', root', p) = TargetOf(heap, stack, root, p)
    PROVE  /\ Ownership'
           /\ DOMAIN heap' \subseteq 1 .. names' /\ heap' \in [DOMAIN heap' -> Item]
           /\ texts' \subseteq 1 .. names' /\ names' \in Nat /\ exhausted' \in BOOLEAN
  <1> DEFINE freed == IF c = Null THEN {} ELSE Below(heap, c)
  <1>1. /\ heap' = [n \in DOMAIN heap \ freed |-> heap[n]]
        /\ texts' = texts \ Texts(heap, freed)
        /\ names' = names /\ exhausted' = exhausted
    BY DEF Delete, Texts
  <1>2. /\ DOMAIN heap' \subseteq 1 .. names' /\ heap' \in [DOMAIN heap' -> Item]
        /\ texts' \subseteq 1 .. names' /\ names' \in Nat /\ exhausted' \in BOOLEAN
    BY <1>1 DEF TypeOK
  <1>3. CASE c = Null
    <2>1. heap' = heap /\ texts' = texts
      BY <1>1, <1>3 DEF Texts, TypeOK
    <2>2. ASSUME NEW p \in PlacesOf(heap, stack), TargetOf(heap, stack, root, p) # Null
          PROVE  /\ p \in PlacesOf(heap, stack')
                 /\ TargetOf(heap, stack', root', p) = TargetOf(heap, stack, root, p)
      <3>1. CASE p \in Roots(stack)
        BY <1>3, <2>2, <3>1 DEF Roots, PlacesOf
      <3>2. CASE p \notin Roots(stack)
        BY <3>2 DEF Roots, PlacesOf, TargetOf, Fields
      <3> QED BY <3>1, <3>2
    <2>3. ASSUME NEW p \in PlacesOf(heap, stack'), TargetOf(heap, stack', root', p) # Null
          PROVE  /\ p \in PlacesOf(heap, stack)
                 /\ TargetOf(heap, stack', root', p) = TargetOf(heap, stack, root, p)
      <3>1. CASE p \in Roots(stack')
        BY <2>3, <3>1 DEF Roots, PlacesOf
      <3>2. CASE p \notin Roots(stack')
        BY <3>2 DEF Roots, PlacesOf, TargetOf, Fields
      <3> QED BY <3>1, <3>2
    <2>4. Null \notin DOMAIN heap \cup texts
      BY DEF Ownership, Kinds
    <2>5. Owned(Pointer(heap, stack', root'), DOMAIN heap \cup texts)
      BY <2>2, <2>3, <2>4, OwnersSame, PointerDomain DEF Ownership
    <2>6. ASSUME NEW p \in Roots(stack')
          PROVE  TargetOf(heap, stack', root', p) \in DOMAIN heap \cup {Null}
      <3>1. ASSUME NEW q \in Roots(stack)
            PROVE  TargetOf(heap, stack, root, q) \in DOMAIN heap \cup {Null}
        BY DEF Roots, TargetOf, Ownership, Kinds
      <3> QED BY <3>1
    <2>7. Kinds(heap, stack', root', texts)
      <3>1. ASSUME NEW k \in DOMAIN stack' PROVE stack'[k].head \in DOMAIN heap \cup {Null}
        <4>1. <<"head", k>> \in Roots(stack')
              /\ TargetOf(heap, stack', root', <<"head", k>>) = stack'[k].head
          BY DEF Roots, TargetOf
        <4> QED BY <2>6, <4>1
      <3>2. root' \in DOMAIN heap \cup {Null}
        <4>1. <<"root", Null>> \in Roots(stack')
              /\ TargetOf(heap, stack', root', <<"root", Null>>) = root'
          BY DEF Roots, TargetOf
        <4> QED BY <2>6, <4>1
      <3> QED BY <3>1, <3>2 DEF Ownership, Kinds
    <2> QED BY <1>2, <2>1, <2>5, <2>7 DEF Ownership
  <1>4. CASE c # Null
    <2>1. c \in DOMAIN heap
      BY <1>4 DEF Roots, TargetOf, Ownership, Kinds
    <2>2. /\ heap' = [n \in DOMAIN heap \ Below(heap, c) |-> heap[n]]
          /\ texts' = texts \ Texts(heap, Below(heap, c))
      BY <1>1, <1>4
    <2>3. /\ Owned(Pointer(heap', stack', root'), DOMAIN heap' \cup texts')
          /\ Kinds(heap', stack', root', texts')
      BY <2>1, <2>2, Deleted DEF Ownership
    <2> QED BY <1>2, <2>3 DEF Ownership
  <1> QED BY <1>3, <1>4

LEMMA UnwindKeeps == ASSUME MemoryInv, Unwind PROVE MemoryInv'
  <1>1. /\ at = "fail" /\ stack # << >> /\ Delete(Top.head) /\ stack' = Pop
        /\ UNCHANGED <<input, offset, depth, item, root, at>>
        /\ TypeOK /\ Ownership
    BY DEF Unwind, MemoryInv
  <1> DEFINE top   == Len(stack)
             place == <<"head", top>>
  <1>2. /\ DOMAIN Pop = DOMAIN stack \ {top} /\ top \in DOMAIN stack
        /\ \A k \in DOMAIN Pop : Pop[k] = stack[k]
        /\ Pop \in Seq(Activation) /\ Top = stack[top]
    BY <1>1, StackFacts
  <1>3. place \in Roots(stack) /\ Top.head = TargetOf(heap, stack, root, place)
    BY <1>2 DEF Roots, TargetOf
  <1>4. Roots(stack') = Roots(stack) \ {place}
    BY <1>1, <1>2 DEF Roots
  <1>5. ASSUME NEW p \in Roots(stack')
        PROVE  TargetOf(heap, stack', root', p) = TargetOf(heap, stack, root, p)
    BY <1>1, <1>2 DEF Roots, TargetOf
  <1> HIDE DEF place
  <1>6. /\ Ownership'
        /\ DOMAIN heap' \subseteq 1 .. names' /\ heap' \in [DOMAIN heap' -> Item]
        /\ texts' \subseteq 1 .. names' /\ names' \in Nat /\ exhausted' \in BOOLEAN
    BY <1>1, <1>3, <1>4, <1>5, DeletionKeeps
  <1>7. TypeOK'
    BY <1>1, <1>2, <1>6 DEF TypeOK
  <1> QED BY <1>1, <1>6, <1>7 DEF MemoryInv, Shape, Working

\* Deleting the tree when nothing else is open.
LEMMA RootDeleted ==
    ASSUME TypeOK, Ownership, stack = << >>, Delete(root), root' = Null,
           at' \in {"refused", "released"},
           UNCHANGED <<input, offset, depth, stack, item>>
    PROVE  MemoryInv'
  <1> DEFINE place == <<"root", Null>>
  <1>1. Roots(stack) = {place} /\ Roots(stack') = {place}
    BY DEF Roots
  <1>2. /\ TargetOf(heap, stack, root, place) = root
        /\ TargetOf(heap, stack', root', place) = Null
    BY DEF TargetOf
  <1> HIDE DEF place
  <1>3. /\ Ownership'
        /\ DOMAIN heap' \subseteq 1 .. names' /\ heap' \in [DOMAIN heap' -> Item]
        /\ texts' \subseteq 1 .. names' /\ names' \in Nat /\ exhausted' \in BOOLEAN
    BY <1>1, <1>2, DeletionKeeps
  <1>4. TypeOK'
    BY <1>3 DEF TypeOK, Stations, Null
  <1> QED BY <1>3, <1>4 DEF MemoryInv, Shape, Working

LEMMA RefuseKeeps == ASSUME MemoryInv, Refuse PROVE MemoryInv'
  BY RootDeleted DEF MemoryInv, Refuse

LEMMA ReleaseKeeps == ASSUME MemoryInv, Release PROVE MemoryInv'
  <1>1. stack = << >>
    BY DEF MemoryInv, Shape, Release
  <1> QED BY <1>1, RootDeleted DEF MemoryInv, Release

LEMMA ParserStutters == ASSUME MemoryInv, UNCHANGED vars PROVE MemoryInv'
  <1>1. UNCHANGED <<input, offset, depth, stack, item, root, heap, texts, names, exhausted, at>>
    BY DEF vars, memory
  <1> QED BY <1>1
       DEF MemoryInv, TypeOK, Ownership, Shape, Working, Unparsed, Top

\* The parser keeps its memory in order: the types, the owners, and the shape
\* of what it has built so far, at every step, whatever the text and whichever
\* allocation fails.
THEOREM ParserMemory == Spec => []MemoryInv
  <1>1. ASSUME MemoryInv, [Next]_vars PROVE MemoryInv'
    <2>1. CASE Next
      BY <1>1, <2>1, BeginKeeps, ScalarKeeps, TextKeeps, NoValueKeeps, OpenKeeps,
         ElementKeeps, KeyKeeps, AfterKeeps, FinishKeeps, UnwindKeeps, RefuseKeeps,
         ReleaseKeeps DEF Next
    <2>2. CASE UNCHANGED vars
      BY <1>1, <2>2, ParserStutters
    <2> QED BY <1>1, <2>1, <2>2
  <1> QED BY <1>1, ParserInit, PTL DEF Spec

\* At every moment each block that is allocated has exactly one owner, and no
\* pointer leads to one that was freed: cJSON_Delete frees nothing twice, and
\* nothing is lost on the way out of a failure.
THEOREM ParserOneOwner == Spec => []OneOwner
  <1>1. ASSUME MemoryInv PROVE OneOwner
    <2>1. TypeOK /\ Ownership
      BY <1>1 DEF MemoryInv
    <2>2. /\ Places = PlacesOf(heap, stack)
          /\ \A p : Target(p) = TargetOf(heap, stack, root, p)
      BY DEF Places, PlacesOf, Target, TargetOf, Fields
    <2>3. /\ \A p \in Places : Target(p) # Null => Target(p) \in DOMAIN heap \cup texts
          /\ \A b \in DOMAIN heap \cup texts : \E p \in Places : Target(p) = b
          /\ \A p, q \in Places : Target(p) # Null /\ Target(p) = Target(q) => p = q
      BY <2>1, <2>2, PointerDomain DEF Ownership, Owned
    <2>4. Null \notin DOMAIN heap \cup texts
      BY <2>1 DEF Ownership, Kinds
    <2> QED BY <2>1, <2>3, <2>4 DEF OneOwner
  <1> QED BY <1>1, ParserMemory, PTL

\* Once the parser has refused, or the handler has deleted the tree, nothing
\* is left allocated.
THEOREM ParserNothingLeft == Spec => []NothingLeft
  <1>1. ASSUME MemoryInv PROVE NothingLeft
    <2> SUFFICES ASSUME at \in {"refused", "released"} PROVE heap = << >> /\ texts = {}
      BY DEF NothingLeft
    <2>1. stack = << >> /\ root = Null /\ TypeOK /\ Ownership
      BY <1>1 DEF MemoryInv, Shape
    <2>2. DOMAIN heap = {} /\ texts = {}
      BY <2>1, NobodyOwns DEF Ownership
    <2>3. heap = [n \in DOMAIN heap |-> heap[n]]
      BY <2>1 DEF TypeOK
    <2> QED BY <2>2, <2>3
  <1> QED BY <1>1, ParserMemory, PTL

(***************************************************************************)
(* What the text means.                                                    *)
(***************************************************************************)
Containers == {"array", "object"}

Beyond == Len(input) + 1

\* The function of Ends, place by place.
Grammar(f) ==
    \A i \in 1 .. Beyond, kind \in Containers, d \in 0 .. DepthLimit :
        f[i][kind][d] = ElementEnds(f, kind, d, i)

\* The places of S where a container of this kind is closed, and one more.
Closing(kind, S) == {j + 1 : j \in {k \in S : Token(k) = Closer(kind)}}

LEMMA TokenPlaces ==
    ASSUME input \in Seq(Tokens), NEW i \in Nat \ {0}
    PROVE  /\ Len(input) \in Nat /\ Beyond \in Nat /\ Beyond = Len(input) + 1
           /\ Token(i) # "end" => i \in 1 .. Len(input) /\ i + 1 \in 1 .. Beyond
           /\ i \in 1 .. Len(input) => Token(i) = input[i]
  <1>1. PICK l \in Nat : l = Len(input)
    OBVIOUS
  <1> QED BY <1>1 DEF Token, Beyond

LEMMA SameGrammar ==
    ASSUME UNCHANGED input, NEW f
    PROVE  /\ Beyond' = Beyond /\ Len(input') = Len(input)
           /\ \A i : Token(i)' = Token(i)
           /\ Grammar(f)' => Grammar(f)
           /\ \A d, i : ValueEnds(f, d, i)' = ValueEnds(f, d, i)
           /\ \A kind, S : Closing(kind, S)' = Closing(kind, S)
  <1>1. Beyond' = Beyond /\ \A i : Token(i)' = Token(i)
    BY DEF Beyond, Token
  <1>2. \A kind, d, i : ContainerEnds(f, kind, d, i)' = ContainerEnds(f, kind, d, i)
    BY <1>1 DEF ContainerEnds
  <1>3. \A d, i : ValueEnds(f, d, i)' = ValueEnds(f, d, i)
    BY <1>1, <1>2 DEF ValueEnds
  <1>4. \A kind, d, i : FirstEnds(f, kind, d, i)' = FirstEnds(f, kind, d, i)
    BY <1>1, <1>3 DEF FirstEnds
  <1>5. \A kind, d, i : ElementEnds(f, kind, d, i)' = ElementEnds(f, kind, d, i)
    BY ZenonT(40), <1>1, <1>4 DEF ElementEnds
  <1>6. Grammar(f)' => Grammar(f)
    BY <1>1, <1>5 DEF Grammar
  <1>7. \A kind, S : Closing(kind, S)' = Closing(kind, S)
    BY <1>1 DEF Closing
  <1> QED BY <1>1, <1>3, <1>6, <1>7

(***************************************************************************)
(* What the grammar says of each token.                                    *)
(***************************************************************************)
LEMMA NoContainer ==
    ASSUME NEW f, NEW kind \in Containers, NEW d, NEW i, Token(i) # Opener(kind)
    PROVE  ContainerEnds(f, kind, d, i) = {}
  BY DEF ContainerEnds

LEMMA Brackets ==
    /\ Opener("array") = "[" /\ Opener("object") = "{"
    /\ Closer("array") = "]" /\ Closer("object") = "}"
  BY DEF Opener, Closer

LEMMA ScalarEnds ==
    ASSUME NEW f, NEW d, NEW i, Token(i) \in {"scalar", "text"}
    PROVE  ValueEnds(f, d, i) = {i + 1}
  BY Brackets, NoContainer DEF ValueEnds, Containers

LEMMA NoEnds ==
    ASSUME NEW f, NEW d, NEW i, Token(i) \notin {"scalar", "text", "[", "{"}
    PROVE  ValueEnds(f, d, i) = {}
  BY Brackets, NoContainer DEF ValueEnds, Containers

LEMMA OpenedEnds ==
    ASSUME NEW f, NEW kind \in Containers, NEW d, NEW i, Token(i) = Opener(kind)
    PROVE  ValueEnds(f, d, i) = ContainerEnds(f, kind, d, i)
  <1>1. Token(i) \notin {"scalar", "text"}
    BY Brackets DEF Containers
  <1>2. CASE kind = "array"
    BY <1>1, <1>2, Brackets, NoContainer DEF ValueEnds, Containers
  <1>3. CASE kind = "object"
    BY <1>1, <1>3, Brackets, NoContainer DEF ValueEnds, Containers
  <1> QED BY <1>2, <1>3 DEF Containers

LEMMA TooDeepEnds ==
    ASSUME NEW f, NEW kind \in Containers, NEW i, Token(i) = Opener(kind)
    PROVE  ValueEnds(f, 0, i) = {}
  BY OpenedEnds DEF ContainerEnds

\* Nothing starts with a closing bracket.
LEMMA NoElement ==
    ASSUME NEW f, NEW kind \in Containers, NEW d, NEW i, FirstEnds(f, kind, d, i) = {}
    PROVE  ElementEnds(f, kind, d, i) = {}
  BY DEF ElementEnds

LEMMA ClosedAtOnce ==
    ASSUME NEW f, NEW kind \in Containers, NEW d, NEW i, Token(i) = Closer(kind)
    PROVE  ElementEnds(f, kind, d, i) = {}
  <1>1. Token(i) \notin {"scalar", "text", "[", "{"}
    BY Brackets DEF Containers
  <1>2. FirstEnds(f, kind, d, i) = {}
    BY <1>1, NoEnds DEF FirstEnds
  <1> QED BY <1>2, NoElement

LEMMA EmptyEnds ==
    ASSUME NEW f, Grammar(f), NEW kind \in Containers, NEW d \in 1 .. DepthLimit,
           NEW i \in Nat, i + 1 \in 1 .. Beyond,
           Token(i) = Opener(kind), Token(i + 1) = Closer(kind)
    PROVE  ValueEnds(f, d, i) = {i + 2}
  <1>1. f[i + 1][kind][d - 1] = {}
    <2>1. d - 1 \in 0 .. DepthLimit
      BY ParserAssumption
    <2> QED BY <2>1, ClosedAtOnce DEF Grammar
  <1>2. d # 0 /\ (i + 1) + 1 = i + 2
    OBVIOUS
  <1> QED BY <1>1, <1>2, OpenedEnds DEF ContainerEnds

LEMMA OpenEnds ==
    ASSUME NEW f, NEW kind \in Containers, NEW d \in 1 .. DepthLimit,
           NEW i, Token(i) = Opener(kind), Token(i + 1) # Closer(kind)
    PROVE  ValueEnds(f, d, i) = Closing(kind, f[i + 1][kind][d - 1])
  <1> DEFINE S == f[i + 1][kind][d - 1]
  <1>1. d # 0
    OBVIOUS
  <1>2. {k \in {i + 1} \cup S : Token(k) = Closer(kind)} = {k \in S : Token(k) = Closer(kind)}
    OBVIOUS
  <1>3. ValueEnds(f, d, i)
        = {j + 1 : j \in {k \in {i + 1} \cup S : Token(k) = Closer(kind)}}
    BY ZenonT(40), <1>1, OpenedEnds DEF ContainerEnds
  <1> HIDE DEF S
  <1>4. ValueEnds(f, d, i) = Closing(kind, S)
    BY <1>2, <1>3 DEF Closing
  <1> QED BY <1>4 DEF S

\* The list goes on, is closed, or breaks off behind its first element.
LEMMA OneElement ==
    ASSUME NEW f, Grammar(f), NEW kind \in Containers, NEW d \in 0 .. DepthLimit,
           NEW i \in 1 .. Beyond, NEW j, FirstEnds(f, kind, d, i) = {j}
    PROVE  /\ Token(j) = "," =>
                 Closing(kind, f[i][kind][d]) = Closing(kind, f[j + 1][kind][d])
           /\ Token(j) = Closer(kind) => Closing(kind, f[i][kind][d]) = {j + 1}
           /\ Token(j) \notin {",", Closer(kind)} => Closing(kind, f[i][kind][d]) = {}
  <1>1. f[i][kind][d] = {j} \cup (IF Token(j) = "," THEN f[j + 1][kind][d] ELSE {})
    <2> DEFINE more(k) == IF Token(k) = "," THEN f[k + 1][kind][d] ELSE {}
    <2>1. f[i][kind][d] = ElementEnds(f, kind, d, i)
      BY DEF Grammar
    <2>2. ElementEnds(f, kind, d, i) = {j} \cup UNION {more(k) : k \in {j}}
      BY DEF ElementEnds
    <2> HIDE DEF more
    <2>3. UNION {more(k) : k \in {j}} = more(j)
      OBVIOUS
    <2>4. f[i][kind][d] = {j} \cup more(j)
      BY <2>1, <2>2, <2>3
    <2> QED BY <2>4 DEF more
  <1>2. Closer(kind) # ","
    BY Brackets DEF Containers
  <1> QED BY <1>1, <1>2 DEF Closing

(***************************************************************************)
(* There is such a function: what it says of a place depends on later      *)
(* places only.                                                            *)
(***************************************************************************)
\* f knows the places behind i, and leads forward.
Ahead(f, i) ==
    \A m \in i + 1 .. Beyond, kind \in Containers, d \in 0 .. DepthLimit :
        f[m][kind][d] \subseteq m + 1 .. Beyond

LEMMA BeyondIsPositive == ASSUME input \in Seq(Tokens) PROVE Beyond \in Nat \ {0}
  <1>1. PICK l \in Nat : l = Len(input)
    OBVIOUS
  <1> QED BY <1>1 DEF Beyond

LEMMA ContainersForward ==
    ASSUME input \in Seq(Tokens), NEW f, NEW i \in 1 .. Beyond, Ahead(f, i),
           NEW kind \in Containers, NEW d \in 0 .. DepthLimit
    PROVE  ContainerEnds(f, kind, d, i) \subseteq i + 1 .. Beyond
  <1> SUFFICES ASSUME d # 0, Token(i) = Opener(kind)
               PROVE  ContainerEnds(f, kind, d, i) \subseteq i + 1 .. Beyond
    BY DEF ContainerEnds
  <1>1. Beyond \in Nat \ {0} /\ i \in Nat \ {0}
    BY BeyondIsPositive
  <1>2. Token(i) # "end"
    BY Brackets DEF Containers
  <1>3. i + 1 \in 1 .. Beyond
    BY <1>1, <1>2, TokenPlaces
  <1>4. d - 1 \in 0 .. DepthLimit
    BY ParserAssumption
  <1>5. f[i + 1][kind][d - 1] \subseteq i + 2 .. Beyond
    BY <1>1, <1>3, <1>4 DEF Ahead
  <1>6. ASSUME NEW k \in {i + 1} \cup f[i + 1][kind][d - 1], Token(k) = Closer(kind)
        PROVE  k + 1 \in i + 1 .. Beyond
    <2>1. k \in i + 1 .. Beyond
      BY <1>1, <1>3, <1>5
    <2>2. Token(k) # "end"
      BY <1>6, Brackets DEF Containers
    <2>3. k + 1 \in 1 .. Beyond
      BY <1>1, <2>1, <2>2, TokenPlaces
    <2> QED BY <1>1, <2>1, <2>3
  <1> QED BY <1>6 DEF ContainerEnds

LEMMA ValuesForward ==
    ASSUME input \in Seq(Tokens), NEW f, NEW i \in 1 .. Beyond, Ahead(f, i),
           NEW d \in 0 .. DepthLimit
    PROVE  ValueEnds(f, d, i) \subseteq i + 1 .. Beyond
  <1>1. i \in Nat \ {0}
    BY BeyondIsPositive
  <1>2. Token(i) \in {"scalar", "text"} => i + 1 \in i + 1 .. Beyond
    <2>1. Token(i) # "end" => i + 1 \in 1 .. Beyond
      BY <1>1, TokenPlaces
    <2> QED BY <1>1, <2>1
  <1>3. /\ ContainerEnds(f, "array", d, i) \subseteq i + 1 .. Beyond
        /\ ContainerEnds(f, "object", d, i) \subseteq i + 1 .. Beyond
    BY ContainersForward DEF Containers
  <1> QED BY <1>2, <1>3 DEF ValueEnds

\* Where the value of a member starts.
LEMMA MemberStarts ==
    ASSUME input \in Seq(Tokens), NEW i \in Nat \ {0},
           Token(i) = "text", Token(i + 1) = ":"
    PROVE  i + 2 \in 1 .. Beyond
  <1>1. i + 1 \in Nat \ {0} /\ (i + 1) + 1 = i + 2
    OBVIOUS
  <1>2. Token(i + 1) # "end"
    OBVIOUS
  <1> QED BY <1>1, <1>2, TokenPlaces

LEMMA FirstForward ==
    ASSUME input \in Seq(Tokens), NEW f, NEW i \in 1 .. Beyond, Ahead(f, i),
           NEW kind \in Containers, NEW d \in 0 .. DepthLimit
    PROVE  FirstEnds(f, kind, d, i) \subseteq i + 1 .. Beyond
  <1>1. Beyond \in Nat \ {0} /\ i \in Nat \ {0}
    BY BeyondIsPositive
  <1>2. CASE kind = "array"
    BY <1>2, ValuesForward DEF FirstEnds
  <1>3. CASE kind # "array" /\ Token(i) = "text" /\ Token(i + 1) = ":"
    <2>1. i + 2 \in 1 .. Beyond
      BY <1>1, <1>3, MemberStarts
    <2>2. Ahead(f, i + 2)
      BY <1>1 DEF Ahead
    <2>3. ValueEnds(f, d, i + 2) \subseteq (i + 2) + 1 .. Beyond
      BY <2>1, <2>2, ValuesForward
    <2>4. (i + 2) + 1 .. Beyond \subseteq i + 1 .. Beyond
      BY <1>1
    <2> QED BY <1>3, <2>3, <2>4 DEF FirstEnds
  <1> QED BY <1>2, <1>3 DEF FirstEnds

LEMMA ElementsForward ==
    ASSUME input \in Seq(Tokens), NEW f, NEW i \in 1 .. Beyond, Ahead(f, i),
           NEW kind \in Containers, NEW d \in 0 .. DepthLimit
    PROVE  ElementEnds(f, kind, d, i) \subseteq i + 1 .. Beyond
  <1>1. Beyond \in Nat \ {0} /\ i \in Nat \ {0}
    BY BeyondIsPositive
  <1>2. FirstEnds(f, kind, d, i) \subseteq i + 1 .. Beyond
    BY FirstForward
  <1>3. ASSUME NEW j \in FirstEnds(f, kind, d, i), Token(j) = ","
        PROVE  f[j + 1][kind][d] \subseteq i + 1 .. Beyond
    <2>1. j \in Nat \ {0} /\ j >= i + 1
      BY <1>1, <1>2
    <2>2. j + 1 \in 1 .. Beyond
      BY <1>3, <2>1, TokenPlaces
    <2>3. f[j + 1][kind][d] \subseteq (j + 1) + 1 .. Beyond
      BY <1>1, <2>1, <2>2 DEF Ahead
    <2> QED BY <1>1, <2>1, <2>3
  <1> QED BY <1>2, <1>3 DEF ElementEnds

\* Two functions that know the same about the places behind i.
Alike(f, g, i) == \A m \in i + 1 .. Beyond : f[m] = g[m]

LEMMA ValuesAlike ==
    ASSUME input \in Seq(Tokens), NEW f, NEW g, NEW i \in 1 .. Beyond, Alike(f, g, i),
           NEW d \in 0 .. DepthLimit
    PROVE  ValueEnds(f, d, i) = ValueEnds(g, d, i)
  <1>1. ASSUME NEW kind \in Containers
        PROVE  ContainerEnds(f, kind, d, i) = ContainerEnds(g, kind, d, i)
    <2>1. CASE Token(i) # Opener(kind)
      BY <2>1, NoContainer
    <2>2. CASE Token(i) = Opener(kind)
      <3>1. Token(i) # "end"
        BY <2>2, Brackets DEF Containers
      <3>2. i + 1 \in 1 .. Beyond /\ i \in Nat
        BY <3>1, BeyondIsPositive, TokenPlaces
      <3>3. f[i + 1] = g[i + 1]
        BY <3>2 DEF Alike
      <3> QED BY <3>3 DEF ContainerEnds
    <2> QED BY <2>1, <2>2
  <1>2. /\ ContainerEnds(f, "array", d, i) = ContainerEnds(g, "array", d, i)
        /\ ContainerEnds(f, "object", d, i) = ContainerEnds(g, "object", d, i)
    BY <1>1 DEF Containers
  <1> QED BY <1>2 DEF ValueEnds

LEMMA ElementsAlike ==
    ASSUME input \in Seq(Tokens), NEW f, NEW g, NEW i \in 1 .. Beyond, Alike(f, g, i),
           Ahead(f, i), NEW kind \in Containers, NEW d \in 0 .. DepthLimit
    PROVE  ElementEnds(f, kind, d, i) = ElementEnds(g, kind, d, i)
  <1>1. Beyond \in Nat \ {0} /\ i \in Nat \ {0}
    BY BeyondIsPositive
  <1>2. FirstEnds(f, kind, d, i) = FirstEnds(g, kind, d, i)
    <2>1. kind = "array" => ValueEnds(f, d, i) = ValueEnds(g, d, i)
      BY ValuesAlike
    <2>2. Token(i) = "text" /\ Token(i + 1) = ":"
          => ValueEnds(f, d, i + 2) = ValueEnds(g, d, i + 2)
      <3> SUFFICES ASSUME Token(i) = "text", Token(i + 1) = ":"
                   PROVE  ValueEnds(f, d, i + 2) = ValueEnds(g, d, i + 2)
        OBVIOUS
      <3>1. i + 2 \in 1 .. Beyond
        BY <1>1, MemberStarts
      <3>2. Alike(f, g, i + 2)
        BY <1>1 DEF Alike
      <3> QED BY <3>1, <3>2, ValuesAlike
    <2> QED BY <2>1, <2>2 DEF FirstEnds
  <1>3. FirstEnds(f, kind, d, i) \subseteq i + 1 .. Beyond
    BY FirstForward
  <1>4. ASSUME NEW j \in FirstEnds(f, kind, d, i), Token(j) = ","
        PROVE  f[j + 1] = g[j + 1]
    <2>1. j \in Nat \ {0} /\ j >= i + 1
      BY <1>1, <1>3
    <2>2. j + 1 \in 1 .. Beyond
      BY <1>4, <2>1, TokenPlaces
    <2> QED BY <1>1, <2>1, <2>2 DEF Alike
  <1> QED BY <1>2, <1>4 DEF ElementEnds

Entry(f, i) ==
    [kind \in Containers |-> [d \in 0 .. DepthLimit |-> ElementEnds(f, kind, d, i)]]

LEMMA EntryAt ==
    ASSUME NEW f, NEW i, NEW kind \in Containers, NEW d \in 0 .. DepthLimit
    PROVE  Entry(f, i)[kind][d] = ElementEnds(f, kind, d, i)
  <1>1. Entry(f, i)[kind] = [e \in 0 .. DepthLimit |-> ElementEnds(f, kind, e, i)]
    BY DEF Entry
  <1> QED BY <1>1

\* The function of Ends from place b on.
From(f, b) == f = [i \in b .. Beyond |-> Entry(f, i)] /\ Ahead(f, b - 1)

LEMMA OnePlaceMore ==
    ASSUME input \in Seq(Tokens), NEW b \in 1 .. Beyond, NEW f, From(f, b + 1)
    PROVE  \E g : From(g, b)
  <1> DEFINE g == [i \in b .. Beyond |-> IF i = b THEN Entry(f, b) ELSE f[i]]
  <1>1. Beyond \in Nat \ {0} /\ b \in Nat \ {0}
    BY BeyondIsPositive
  <1>2. /\ \A i \in b + 1 .. Beyond : f[i] = Entry(f, i)
        /\ (b + 1) - 1 = b /\ (b - 1) + 1 = b
    <2>1. f = [i \in b + 1 .. Beyond |-> Entry(f, i)]
      BY DEF From
    <2>2. \A i \in b + 1 .. Beyond : f[i] = Entry(f, i)
      BY <2>1
    <2> QED BY <1>1, <2>2
  <1>3. Ahead(f, b)
    BY <1>2 DEF From
  <1>4. \A i \in b .. Beyond : Ahead(f, i) /\ Alike(f, g, i)
    <2>1. ASSUME NEW i \in b .. Beyond, NEW m \in i + 1 .. Beyond
          PROVE  m \in b + 1 .. Beyond /\ g[m] = f[m]
      BY <1>1
    <2> HIDE DEF g
    <2> QED BY <1>3, <2>1 DEF Ahead, Alike
  <1>5. /\ g[b] = Entry(f, b) /\ DOMAIN g = b .. Beyond
        /\ \A i \in b + 1 .. Beyond : g[i] = f[i]
        /\ g = [i \in b .. Beyond |-> g[i]]
    BY <1>1
  <1> HIDE DEF g
  <1>6. ASSUME NEW i \in b .. Beyond PROVE g[i] = Entry(f, i)
    <2>1. CASE i = b
      BY <1>5, <2>1
    <2>2. CASE i # b
      <3>1. i \in b + 1 .. Beyond
        BY <1>1, <2>2
      <3> QED BY <1>2, <1>5, <3>1
    <2> QED BY <2>1, <2>2
  <1>7. ASSUME NEW i \in b .. Beyond PROVE Entry(f, i) = Entry(g, i)
    <2>1. i \in 1 .. Beyond
      BY <1>1
    <2>2. \A kind \in Containers, d \in 0 .. DepthLimit :
             ElementEnds(f, kind, d, i) = ElementEnds(g, kind, d, i)
      BY <1>4, <2>1, ElementsAlike
    <2> QED BY <2>2 DEF Entry
  <1>8. g = [i \in b .. Beyond |-> Entry(g, i)]
    BY <1>5, <1>6, <1>7
  <1>9. Ahead(g, b - 1)
    <2> SUFFICES ASSUME NEW m \in b .. Beyond, NEW kind \in Containers,
                        NEW d \in 0 .. DepthLimit
                 PROVE  g[m][kind][d] \subseteq m + 1 .. Beyond
      BY <1>2 DEF Ahead
    <2>1. g[m][kind][d] = ElementEnds(f, kind, d, m)
      BY <1>6, EntryAt
    <2>2. m \in 1 .. Beyond
      BY <1>1
    <2> QED BY <1>4, <2>1, <2>2, ElementsForward
  <1> QED BY <1>8, <1>9 DEF From

LEMMA GrammarExists == ASSUME input \in Seq(Tokens) PROVE \E f : From(f, 1)
  <1> DEFINE missing == {k \in 0 .. Beyond : ~ \E f : From(f, Beyond + 1 - k)}
  <1>1. Beyond \in Nat \ {0}
    BY BeyondIsPositive
  <1>2. ASSUME missing # {} PROVE FALSE
    <2>1. missing \subseteq Nat
      BY <1>1
    <2>2. PICK k \in missing : \A l \in missing : ~ (l < k)
      BY <1>2, <2>1, LeastNumber
    <2>3. CASE k = 0
      <3>1. Beyond + 1 - k = Beyond + 1 /\ (Beyond + 1) - 1 = Beyond
            /\ Beyond + 1 .. Beyond = {}
        BY <1>1, <2>3
      <3>2. << >> = [i \in Beyond + 1 .. Beyond |-> Entry(<< >>, i)]
        BY <3>1
      <3>3. Ahead(<< >>, Beyond)
        BY <3>1 DEF Ahead
      <3>4. From(<< >>, Beyond + 1 - k)
        BY <3>1, <3>2, <3>3 DEF From
      <3> QED BY <2>2, <3>4
    <2>4. CASE k # 0
      <3>1. k - 1 \in 0 .. Beyond /\ k - 1 < k /\ Beyond + 1 - k \in 1 .. Beyond
            /\ Beyond + 1 - (k - 1) = (Beyond + 1 - k) + 1
        BY <1>1, <2>2, <2>4
      <3>2. PICK f : From(f, (Beyond + 1 - k) + 1)
        BY <2>2, <3>1
      <3>3. \E g : From(g, Beyond + 1 - k)
        BY <3>1, <3>2, OnePlaceMore
      <3> QED BY <2>2, <3>3
    <2> QED BY <2>3, <2>4
  <1>3. Beyond \in 0 .. Beyond /\ Beyond + 1 - Beyond = 1
    BY <1>1
  <1> QED BY <1>2, <1>3

LEMMA EndsOfGrammar ==
    ASSUME input \in Seq(Tokens)
    PROVE  \E f : Grammar(f) /\ Ends = ValueEnds(f, DepthLimit, 1)
  <1> DEFINE Step(f) == [i \in 1 .. Len(input) + 1 |->
                           [kind \in {"array", "object"} |->
                              [d \in 0 .. DepthLimit |-> ElementEnds(f, kind, d, i)]]]
             inside == CHOOSE f : f = Step(f)
  <1>1. Ends = ValueEnds(inside, DepthLimit, 1)
    BY DEF Ends
  <1>2. \A f : Step(f) = [i \in 1 .. Beyond |-> Entry(f, i)]
    BY DEF Beyond, Entry, Containers
  <1> HIDE DEF Step
  <1>3. inside = Step(inside)
    <2>1. PICK f : From(f, 1)
      BY GrammarExists
    <2>2. f = Step(f)
      BY <1>2, <2>1 DEF From
    <2> QED BY <2>2
  <1> HIDE DEF inside
  <1>4. inside = [i \in 1 .. Beyond |-> Entry(inside, i)]
    BY <1>2, <1>3
  <1>5. Grammar(inside)
    <2>1. \A i \in 1 .. Beyond : inside[i] = Entry(inside, i)
      BY <1>4
    <2> QED BY <2>1, EntryAt DEF Grammar
  <1> QED BY <1>1, <1>5

(***************************************************************************)
(* What the parser knows of the text.                                      *)
(***************************************************************************)
\* A value of an element that starts at place c starts at place v.
ValueAt(kind, c, v) ==
    IF kind = "array" THEN v = c
    ELSE Token(c) = "text" /\ Token(c + 1) = ":" /\ v = c + 2

\* The container of level k starts at s[k], and ends where a list that starts
\* at e[k] is closed; if that is nowhere, the text is malformed.
Level(f, s, e, k) ==
    /\ s[k] \in 1 .. Beyond /\ e[k] \in 1 .. Beyond
    /\ ValueEnds(f, DepthLimit - k + 1, s[k])
       = Closing(stack[k].kind, f[e[k]][stack[k].kind][DepthLimit - k])
    /\ ValueEnds(f, DepthLimit - k + 1, s[k]) = {} => ValueEnds(f, DepthLimit, 1) = {}

Levels(f, s, e) == \A k \in DOMAIN stack : Level(f, s, e, k)

Inner == Len(stack)

\* The value that is parsed, or was parsed last, starts at place v.
Started(e, v) ==
    /\ v \in 1 .. Beyond
    /\ IF stack = << >> THEN v = 1 ELSE ValueAt(stack[Inner].kind, e[Inner], v)

\* The levels are numbered, and below each the value of the next one started.
Nested(s, e) ==
    \A k \in DOMAIN stack :
        k # 1 => ValueAt(stack[k - 1].kind, e[k - 1], s[k])

Understood(f, s, e) ==
    /\ Levels(f, s, e) /\ Nested(s, e)
    /\ stack # << >> => s[1] = 1
    /\ at = "value" => Started(e, offset + 1)
    /\ at \in {"element", "key"} => e[Inner] = offset + 1
    /\ at = "key" => stack[Inner].kind = "object"
    /\ at = "after" => \E v : /\ Started(e, v)
                              /\ ValueEnds(f, DepthLimit - Inner, v) = {offset + 1}

Malformed(f) == ValueEnds(f, DepthLimit, 1) = {}

Reads(f) ==
    /\ Working => \E s \in [Nat -> Nat], e \in [Nat -> Nat] : Understood(f, s, e)
    /\ at = "parsed" => ValueEnds(f, DepthLimit, 1) = {offset + 1}
    /\ at \in {"fail", "refused"} => exhausted \/ Malformed(f)

TextInv ==
    /\ at = "start" => offset = 0
    /\ exhausted => at \in {"fail", "refused"}
    /\ \A f : Grammar(f) => Reads(f)

LEMMA InnerFacts ==
    ASSUME MemoryInv, Working
    PROVE  /\ Inner \in Nat /\ Inner = depth /\ Inner <= DepthLimit /\ DepthLimit \in Nat
           /\ DOMAIN stack = 1 .. Inner /\ (stack = << >> <=> Inner = 0)
           /\ \A k \in DOMAIN stack : stack[k].kind \in Containers
           /\ DepthLimit - Inner \in 0 .. DepthLimit
           /\ input \in Seq(Tokens) /\ offset \in Nat
           /\ stack # << >> => Inner \in DOMAIN stack /\ Top = stack[Inner]
  <1>1. TypeOK /\ depth = Len(stack)
    BY DEF MemoryInv, Shape
  <1>2. stack \in Seq(Activation) /\ depth \in 0 .. DepthLimit /\ DepthLimit \in Nat
    BY <1>1, ParserAssumption DEF TypeOK
  <1>3. Inner = depth /\ DOMAIN stack = 1 .. Inner /\ Inner \in Nat /\ Inner <= DepthLimit
    BY <1>1, <1>2 DEF Inner
  <1>4. stack = << >> <=> Inner = 0
    BY <1>2 DEF Inner
  <1>5. \A k \in DOMAIN stack : stack[k].kind \in Containers
    <2>1. \A k \in DOMAIN stack : stack[k] \in Activation
      BY <1>2
    <2> QED BY <2>1 DEF Activation, Containers
  <1>6. input \in Seq(Tokens) /\ offset \in Nat
    BY <1>1, Tokenwise DEF TypeOK
  <1> QED BY <1>2, <1>3, <1>4, <1>5, <1>6 DEF Top, Inner

\* The first element of the list behind e[Inner] is the value at v.
LEMMA FirstIsValue ==
    ASSUME MemoryInv, Working, stack # << >>, NEW f, NEW e, NEW v, Started(e, v), NEW d
    PROVE  FirstEnds(f, stack[Inner].kind, d, e[Inner]) = ValueEnds(f, d, v)
  <1>1. stack[Inner].kind \in Containers /\ ValueAt(stack[Inner].kind, e[Inner], v)
    BY InnerFacts DEF Started
  <1> QED BY <1>1 DEF FirstEnds, ValueAt, Containers

\* Without a first element, or without a value, the text is malformed.
LEMMA NoFirst ==
    ASSUME MemoryInv, Working, stack # << >>,
           NEW f, Grammar(f), NEW s, NEW e, Understood(f, s, e),
           FirstEnds(f, stack[Inner].kind, DepthLimit - Inner, e[Inner]) = {}
    PROVE  Malformed(f)
  <1>1. /\ Inner \in DOMAIN stack /\ stack[Inner].kind \in Containers
        /\ DepthLimit - Inner \in 0 .. DepthLimit
    BY InnerFacts
  <1>2. Level(f, s, e, Inner)
    BY <1>1 DEF Understood, Levels
  <1>3. f[e[Inner]][stack[Inner].kind][DepthLimit - Inner] = {}
    BY <1>1, <1>2, NoElement DEF Level, Grammar
  <1>4. Closing(stack[Inner].kind, {}) = {}
    BY DEF Closing
  <1> QED BY <1>2, <1>3, <1>4 DEF Level, Malformed

LEMMA NoValueThere ==
    ASSUME MemoryInv, Working, NEW f, Grammar(f), NEW s, NEW e, Understood(f, s, e),
           NEW v, Started(e, v), ValueEnds(f, DepthLimit - Inner, v) = {}
    PROVE  Malformed(f)
  <1>1. CASE stack = << >>
    <2>1. v = 1 /\ DepthLimit - Inner = DepthLimit
      BY <1>1, InnerFacts DEF Started
    <2> QED BY <2>1 DEF Malformed
  <1>2. CASE stack # << >>
    BY <1>2, FirstIsValue, NoFirst
  <1> QED BY <1>1, <1>2

LEMMA Fails ==
    ASSUME UNCHANGED input, at' = "fail", NEW f, exhausted' \/ Malformed(f)
    PROVE  Reads(f)'
  <1>1. exhausted' \/ Malformed(f)'
    BY SameGrammar DEF Malformed
  <1> QED BY <1>1 DEF Reads, Working

LEMMA LevelStays ==
    ASSUME UNCHANGED input, NEW f, NEW s, NEW e, NEW t, NEW u, NEW k, Level(f, s, e, k),
           stack'[k].kind = stack[k].kind, t[k] = s[k], u[k] = e[k]
    PROVE  Level(f, t, u, k)'
  BY SameGrammar DEF Level

LEMMA SameLevels ==
    ASSUME UNCHANGED input, NEW f, NEW s, NEW e, Levels(f, s, e), Nested(s, e),
           DOMAIN stack' = DOMAIN stack,
           \A k \in DOMAIN stack : stack'[k].kind = stack[k].kind,
           DOMAIN stack = 1 .. Inner, Inner \in Nat
    PROVE  Levels(f, s, e)' /\ Nested(s, e)'
  <1>1. Levels(f, s, e)'
    BY LevelStays DEF Levels
  <1>2. ASSUME NEW k \in DOMAIN stack, k # 1
        PROVE  k - 1 \in DOMAIN stack
    BY <1>2
  <1>3. ASSUME NEW kind, NEW c, NEW v, ValueAt(kind, c, v) PROVE ValueAt(kind, c, v)'
    BY <1>3, SameGrammar DEF ValueAt
  <1>4. Nested(s, e)'
    BY <1>2, <1>3 DEF Nested
  <1> QED BY <1>1, <1>4

\* The value at the current place is read.
LEMMA ValueRead ==
    ASSUME MemoryInv, at = "value", NEW f, Grammar(f),
           NEW s \in [Nat -> Nat], NEW e \in [Nat -> Nat], Understood(f, s, e),
           UNCHANGED <<input, stack>>, at' = "after",
           ValueEnds(f, DepthLimit - Inner, offset + 1) = {offset' + 1}
    PROVE  Reads(f)'
  <1>1. Working /\ Levels(f, s, e) /\ Nested(s, e) /\ Started(e, offset + 1)
        /\ (stack # << >> => s[1] = 1)
    BY DEF Working, Understood
  <1>2. Levels(f, s, e)' /\ Nested(s, e)'
    BY <1>1, InnerFacts, SameLevels
  <1>3. \E v : Started(e, v)' /\ ValueEnds(f, DepthLimit - Inner, v)' = {offset' + 1}
    <2>1. PICK v : v = offset + 1
      OBVIOUS
    <2>2. ASSUME NEW kind, NEW c, NEW w, ValueAt(kind, c, w) PROVE ValueAt(kind, c, w)'
      BY <2>2, SameGrammar DEF ValueAt
    <2>3. Started(e, v)
      BY <1>1, <2>1
    <2>4. Inner' = Inner /\ Beyond' = Beyond /\ stack' = stack
      BY SameGrammar DEF Inner
    <2>5. Started(e, v)'
      BY <2>2, <2>3, <2>4 DEF Started
    <2>6. ValueEnds(f, DepthLimit - Inner, v)' = ValueEnds(f, DepthLimit - Inner, v)
      BY <2>4, SameGrammar
    <2> QED BY <2>1, <2>5, <2>6
  <1>4. Understood(f, s, e)'
    BY <1>1, <1>2, <1>3 DEF Understood
  <1> QED BY <1>4 DEF Reads, Working

\* What the parser knows before a step.
LEMMA Reading ==
    ASSUME TextInv, Working, NEW f, Grammar(f)
    PROVE  \E s \in [Nat -> Nat], e \in [Nat -> Nat] : Understood(f, s, e)
  BY DEF TextInv, Reads

LEMMA ReadsBegin ==
    ASSUME MemoryInv, TextInv, Begin, NEW f, Grammar(f) PROVE Reads(f)'
  <1>1. /\ at = "start" /\ stack = << >> /\ offset = 0 /\ input \in Seq(Tokens)
        /\ UNCHANGED <<input, offset, depth, stack>>
    BY DEF Begin, MemoryInv, Shape, TypeOK, TextInv
  <1>2. Beyond \in Nat \ {0}
    BY <1>1, BeyondIsPositive
  <1>3. CASE at' = "value"
    <2> DEFINE one == [n \in Nat |-> 1]
    <2>1. one \in [Nat -> Nat]
      OBVIOUS
    <2> HIDE DEF one
    <2>2. stack' = << >> /\ DOMAIN stack' = {} /\ offset' = 0 /\ Beyond' = Beyond
      BY <1>1, SameGrammar
    <2>3. Started(one, offset + 1)'
      BY <1>2, <2>2 DEF Started
    <2>4. Levels(f, one, one)' /\ Nested(one, one)'
      BY <2>2 DEF Levels, Nested
    <2>5. Understood(f, one, one)'
      BY <1>3, <2>2, <2>3, <2>4 DEF Understood
    <2> QED BY <1>3, <2>1, <2>5 DEF Reads, Working
  <1>4. CASE OutOfMemory
    BY <1>1, <1>4, Fails DEF OutOfMemory
  <1>5. CASE input = << >> /\ at' = "refused"
    <2>1. Token(1) = "end"
      BY <1>5 DEF Token
    <2>2. Malformed(f)
      BY <2>1, NoEnds DEF Malformed
    <2>3. Malformed(f)'
      BY <1>1, <2>2, SameGrammar DEF Malformed
    <2> QED BY <1>5, <2>3 DEF Reads, Working
  <1> QED BY <1>3, <1>4, <1>5 DEF Begin

LEMMA ReadsScalar ==
    ASSUME MemoryInv, TextInv, Scalar, NEW f, Grammar(f) PROVE Reads(f)'
  <1>1. /\ at = "value" /\ at' = "after" /\ Token(offset + 1) = "scalar"
        /\ offset' = offset + 1 /\ UNCHANGED <<input, stack>>
    BY DEF Scalar, Peek
  <1>2. PICK s \in [Nat -> Nat], e \in [Nat -> Nat] : Understood(f, s, e)
    BY <1>1, Reading DEF Working
  <1>3. ValueEnds(f, DepthLimit - Inner, offset + 1) = {offset' + 1}
    BY <1>1, ScalarEnds
  <1> QED BY <1>1, <1>2, <1>3, ValueRead

LEMMA ReadsText ==
    ASSUME MemoryInv, TextInv, Text, NEW f, Grammar(f) PROVE Reads(f)'
  <1>1. /\ at = "value" /\ Token(offset + 1) = "text" /\ UNCHANGED <<input, stack>>
        /\ \/ at' = "after" /\ offset' = offset + 1
           \/ at' = "fail" /\ exhausted' = TRUE
    BY DEF Text, Peek, OutOfMemory
  <1>2. PICK s \in [Nat -> Nat], e \in [Nat -> Nat] : Understood(f, s, e)
    BY <1>1, Reading DEF Working
  <1>3. CASE at' = "after" /\ offset' = offset + 1
    <2>1. ValueEnds(f, DepthLimit - Inner, offset + 1) = {offset' + 1}
      BY <1>1, <1>3, ScalarEnds
    <2> QED BY <1>1, <1>2, <1>3, <2>1, ValueRead
  <1>4. CASE at' = "fail" /\ exhausted' = TRUE
    BY <1>1, <1>4, Fails
  <1> QED BY <1>1, <1>3, <1>4

LEMMA NoValueFails ==
    ASSUME MemoryInv, TextInv, at = "value", NEW f, Grammar(f),
           ValueEnds(f, DepthLimit - Inner, offset + 1) = {},
           at' = "fail", UNCHANGED input
    PROVE  Reads(f)'
  <1>1. Working
    BY DEF Working
  <1>2. PICK s \in [Nat -> Nat], e \in [Nat -> Nat] : Understood(f, s, e)
    BY <1>1, Reading
  <1>3. Started(e, offset + 1)
    BY <1>2 DEF Understood
  <1>4. Malformed(f)
    BY <1>1, <1>2, <1>3, NoValueThere
  <1> QED BY <1>4, Fails

LEMMA ReadsNoValue ==
    ASSUME MemoryInv, TextInv, NoValue, NEW f, Grammar(f) PROVE Reads(f)'
  <1>1. /\ at = "value" /\ Token(offset + 1) \notin {"scalar", "text", "[", "{"}
        /\ at' = "fail" /\ UNCHANGED input
    BY DEF NoValue, Peek
  <1> QED BY <1>1, NoEnds, NoValueFails

\* t is s, but for v at place k.
Notes(t, s, k, v) == t[k] = v /\ \A l \in Nat : l # k => t[l] = s[l]

LEMMA Noted ==
    ASSUME NEW s \in [Nat -> Nat], NEW k \in Nat, NEW v \in Nat
    PROVE  \E t \in [Nat -> Nat] : Notes(t, s, k, v)
  <1> DEFINE t == [s EXCEPT ![k] = v]
  <1>1. t \in [Nat -> Nat] /\ Notes(t, s, k, v)
    BY DEF Notes
  <1> QED BY <1>1

LEMMA ReadsOpen ==
    ASSUME MemoryInv, TextInv, NEW kind \in Containers, Open(kind), NEW f, Grammar(f)
    PROVE  Reads(f)'
  <1>1. /\ at = "value" /\ Token(offset + 1) = Opener(kind) /\ UNCHANGED input
        /\ Token(offset + 2) = Second /\ Token(offset + 1) # "end"
    BY Brackets DEF Open, Peek, Second, Opener, Containers
  <1>2. PICK s \in [Nat -> Nat], e \in [Nat -> Nat] : Understood(f, s, e)
    BY <1>1, Reading DEF Working
  <1>3. /\ Inner \in Nat /\ Inner = depth /\ Inner <= DepthLimit /\ DepthLimit \in Nat
        /\ DOMAIN stack = 1 .. Inner /\ (stack = << >> <=> Inner = 0)
        /\ input \in Seq(Tokens) /\ offset \in Nat /\ stack \in Seq(Activation)
    BY <1>1, InnerFacts DEF Working, MemoryInv, TypeOK
  <1>4. Started(e, offset + 1) /\ Levels(f, s, e) /\ Nested(s, e)
        /\ (stack # << >> => s[1] = 1)
    BY <1>1, <1>2 DEF Understood
  <1>5. CASE TooDeep /\ at' = "fail"
    <2>1. DepthLimit - Inner = 0
      BY <1>3, <1>5 DEF TooDeep
    <2>2. ValueEnds(f, DepthLimit - Inner, offset + 1) = {}
      BY <1>1, <2>1, TooDeepEnds
    <2> QED BY <1>1, <1>5, <2>2, NoValueFails
  <1>6. ~TooDeep => DepthLimit - Inner \in 1 .. DepthLimit
    BY <1>3 DEF TooDeep
  <1>7. /\ offset + 1 \in Nat \ {0} /\ offset + 2 \in Nat /\ (offset + 1) + 1 = offset + 2
        /\ (offset + 1) + 1 \in 1 .. Beyond
    <2>1. offset + 1 \in Nat \ {0} /\ offset + 2 \in Nat /\ (offset + 1) + 1 = offset + 2
      BY <1>3
    <2> QED BY <1>1, <1>3, <2>1, TokenPlaces
  <1>8. CASE /\ ~TooDeep /\ Second = Closer(kind) /\ at' = "after"
             /\ offset' = offset + 2 /\ stack' = stack
    <2>1. ValueEnds(f, DepthLimit - Inner, offset + 1) = {(offset + 1) + 2}
      BY <1>1, <1>6, <1>7, <1>8, EmptyEnds
    <2>2. (offset + 1) + 2 = offset' + 1
      BY <1>3, <1>8
    <2> QED BY <1>1, <1>2, <1>8, <2>1, <2>2, ValueRead
  <1>9. CASE /\ ~TooDeep /\ Second # Closer(kind) /\ at' = "element"
             /\ offset' = offset + 1
             /\ stack' = Append(stack, [kind |-> kind, item |-> item,
                                        head |-> Null, current |-> Null])
    <2>a. PICK k \in Nat \ {0} : k = Inner + 1
      BY <1>3
    <2>b. PICK i \in Nat : i = offset + 1
      BY <1>7
    <2>c. PICK j \in Nat : j = offset + 2
      BY <1>7
    <2>d. PICK t \in [Nat -> Nat] : Notes(t, s, k, i)
      BY Noted
    <2>e. PICK u \in [Nat -> Nat] : Notes(u, e, k, j)
      BY Noted
    <2>f. \A l \in 1 .. Inner : l # k /\ l \in Nat
      BY <1>3, <2>a
    <2>1. /\ t[k] = offset + 1 /\ u[k] = offset + 2
          /\ \A l \in 1 .. Inner : t[l] = s[l] /\ u[l] = e[l] /\ l # k /\ l \in Nat
      BY <2>b, <2>c, <2>d, <2>e, <2>f DEF Notes
    <2>2. /\ Inner' = k /\ DOMAIN stack' = 1 .. k /\ stack'[k].kind = kind
          /\ \A l \in 1 .. Inner : stack'[l] = stack[l]
      <3> DEFINE new == [kind |-> kind, item |-> item, head |-> Null, current |-> Null]
      <3>1. stack' = Append(stack, new) /\ new.kind = kind
        BY <1>9
      <3> HIDE DEF new
      <3>2. /\ Len(stack') = Len(stack) + 1 /\ DOMAIN stack' = 1 .. Len(stack) + 1
            /\ stack'[Len(stack) + 1] = new
            /\ \A l \in 1 .. Len(stack) : stack'[l] = stack[l]
        BY <1>3, <3>1
      <3> QED BY <2>a, <3>1, <3>2 DEF Inner
    <2>3. k - 1 = Inner /\ DepthLimit - k + 1 = DepthLimit - Inner
          /\ (DepthLimit - Inner) - 1 = DepthLimit - k
          /\ (\A l \in 1 .. k : l = k \/ l \in 1 .. Inner)
      BY <1>3, <2>a
    <2>4. Level(f, t, u, k)'
      <3>1. ValueEnds(f, DepthLimit - Inner, offset + 1)
            = Closing(kind, f[offset + 2][kind][DepthLimit - k])
        <4>1. i + 1 = offset + 2 /\ Token(i + 1) # Closer(kind) /\ Token(i) = Opener(kind)
          BY <1>1, <1>7, <1>9, <2>b
        <4>2. ValueEnds(f, DepthLimit - Inner, i)
              = Closing(kind, f[i + 1][kind][(DepthLimit - Inner) - 1])
          BY <1>6, <1>9, <4>1, OpenEnds
        <4> QED BY <2>3, <2>b, <4>1, <4>2
      <3>2. ValueEnds(f, DepthLimit - Inner, offset + 1) = {}
            => ValueEnds(f, DepthLimit, 1) = {}
        BY <1>1, <1>2, <1>4, NoValueThere DEF Working, Malformed
      <3>3. t[k] \in 1 .. Beyond /\ u[k] \in 1 .. Beyond
        BY <1>4, <1>7, <2>1 DEF Started
      <3>4. /\ ValueEnds(f, DepthLimit - k + 1, t[k])
               = Closing(kind, f[u[k]][kind][DepthLimit - k])
            /\ ValueEnds(f, DepthLimit - k + 1, t[k]) = {}
               => ValueEnds(f, DepthLimit, 1) = {}
        BY <2>1, <2>3, <3>1, <3>2
      <3> QED BY <1>1, <2>2, <3>3, <3>4, SameGrammar DEF Level
    <2>5. ASSUME NEW l \in 1 .. Inner PROVE Level(f, t, u, l)'
      BY <1>1, <1>3, <1>4, <2>1, <2>2, LevelStays DEF Levels
    <2>6. Levels(f, t, u)'
      BY <2>2, <2>3, <2>4, <2>5 DEF Levels
    <2>7. ASSUME NEW a, NEW c, NEW v, ValueAt(a, c, v) PROVE ValueAt(a, c, v)'
      BY <1>1, <2>7, SameGrammar DEF ValueAt
    <2>8. ASSUME NEW l \in 1 .. k, l # 1
          PROVE  ValueAt(stack[l - 1].kind, u[l - 1], t[l]) /\ l - 1 \in 1 .. Inner
      <3>1. l - 1 \in 1 .. Inner
        BY <1>3, <2>a, <2>8
      <3>2. CASE l = k
        <4>1. stack # << >>
          BY <1>3, <3>1
        <4> QED BY <1>4, <2>1, <2>3, <3>1, <3>2, <4>1 DEF Started
      <3>3. CASE l # k
        BY <1>3, <1>4, <2>1, <2>3, <2>8, <3>1, <3>3 DEF Nested
      <3> QED BY <3>1, <3>2, <3>3
    <2>9. Nested(t, u)'
      BY <2>2, <2>7, <2>8 DEF Nested
    <2>10. t[1] = 1
      <3>1. CASE Inner = 0
        BY <1>3, <1>4, <2>a, <2>1, <3>1 DEF Started
      <3>2. CASE Inner # 0
        BY <1>3, <1>4, <2>1, <3>2
      <3> QED BY <3>1, <3>2
    <2>11. u[Inner'] = offset' + 1
      BY <1>3, <1>9, <2>1, <2>2
    <2>12. Understood(f, t, u)'
      BY <1>9, <2>6, <2>9, <2>10, <2>11 DEF Understood
    <2> QED BY <1>9, <2>1, <2>12 DEF Reads, Working
  <1> QED BY <1>5, <1>8, <1>9 DEF Open

\* A list breaks off.
LEMMA NoFirstFails ==
    ASSUME MemoryInv, TextInv, at \in {"element", "key"}, NEW f, Grammar(f),
           \A kind \in Containers : \A d, i :
              /\ i = offset + 1
              /\ at = "key" => kind = "object"
              => FirstEnds(f, kind, d, i) = {},
           at' = "fail", UNCHANGED input
    PROVE  Reads(f)'
  <1>1. Working /\ stack # << >>
    BY DEF Working, MemoryInv, Shape
  <1>2. PICK s \in [Nat -> Nat], e \in [Nat -> Nat] : Understood(f, s, e)
    BY <1>1, Reading
  <1>3. /\ e[Inner] = offset + 1 /\ stack[Inner].kind \in Containers
        /\ at = "key" => stack[Inner].kind = "object"
    BY <1>1, <1>2, InnerFacts DEF Understood
  <1>4. FirstEnds(f, stack[Inner].kind, DepthLimit - Inner, e[Inner]) = {}
    BY <1>3
  <1>5. Malformed(f)
    BY <1>1, <1>2, <1>4, NoFirst
  <1> QED BY <1>5, Fails

\* t is s with x at the end.
Longer(t, s, x) ==
    /\ Len(t) = Len(s) + 1 /\ DOMAIN t = 1 .. Len(s) + 1 /\ t[Len(s) + 1] = x
    /\ \A k \in DOMAIN s : t[k] = s[k]

LEMMA OneMore ==
    ASSUME NEW S, NEW s \in Seq(S), NEW x \in S
    PROVE  Longer(Append(s, x), s, x)
  BY DEF Longer

LEMMA ReadsElement ==
    ASSUME MemoryInv, TextInv, Element, NEW f, Grammar(f) PROVE Reads(f)'
  <1>1. /\ at = "element" /\ UNCHANGED <<input, offset>> /\ Working /\ stack # << >>
    BY DEF Element, Working, MemoryInv, Shape
  <1>2. PICK s \in [Nat -> Nat], e \in [Nat -> Nat] : Understood(f, s, e)
    BY <1>1, Reading
  <1>3. /\ Inner \in Nat /\ DOMAIN stack = 1 .. Inner /\ Top = stack[Inner]
        /\ Inner \in DOMAIN stack /\ offset \in Nat /\ input \in Seq(Tokens)
        /\ Top.kind \in Containers /\ TypeOK
    BY <1>1, InnerFacts DEF MemoryInv
  <1>4. /\ e[Inner] = offset + 1 /\ Levels(f, s, e) /\ Nested(s, e) /\ s[1] = 1
    BY <1>1, <1>2 DEF Understood
  <1>5. CASE /\ Peek # "end" /\ stack' = Append(Pop, Enlist(Top))
             /\ at' = IF Top.kind = "array" THEN "value" ELSE "key"
    <2>1. Enlist(Top).kind = Top.kind /\ Enlist(Top) \in Activation
      <3>1. Top \in Activation /\ Fresh \in Nat
        <4>1. names \in Nat
          BY <1>3 DEF TypeOK
        <4> QED BY <1>1, <1>3, <4>1, StackFacts DEF Fresh
      <3> QED BY <3>1 DEF Enlist, Activation
    <2>2. /\ DOMAIN stack' = DOMAIN stack /\ Inner' = Inner /\ stack' # << >>
          /\ \A k \in DOMAIN stack : stack'[k].kind = stack[k].kind
      <3>1. /\ Pop \in Seq(Activation) /\ Len(Pop) = Inner - 1
            /\ \A k \in DOMAIN Pop : Pop[k] = stack[k]
            /\ DOMAIN Pop = DOMAIN stack \ {Inner}
        BY <1>1, <1>3, StackFacts DEF Inner
      <3> DEFINE new == Enlist(Top)
      <3>2. stack' = Append(Pop, new) /\ new \in Activation /\ new.kind = Top.kind
        BY <1>5, <2>1
      <3> HIDE DEF new
      <3>3. /\ Len(stack') = Len(Pop) + 1 /\ DOMAIN stack' = 1 .. Len(Pop) + 1
            /\ stack'[Len(Pop) + 1] = new
            /\ \A k \in DOMAIN Pop : stack'[k] = Pop[k]
        <4>1. Longer(Append(Pop, new), Pop, new)
          BY <3>1, <3>2, OneMore
        <4> QED BY <3>2, <4>1 DEF Longer
      <3>4. Len(Pop) + 1 = Inner
        BY <1>3, <3>1
      <3>5. /\ Len(stack') = Inner /\ DOMAIN stack' = DOMAIN stack
            /\ stack'[Inner].kind = stack[Inner].kind
            /\ \A k \in DOMAIN stack \ {Inner} : stack'[k] = stack[k]
        <4>1. Len(stack') = Inner /\ stack'[Inner] = new /\ DOMAIN stack' = 1 .. Inner
          BY <3>3, <3>4
        <4> QED BY <1>3, <3>1, <3>2, <3>3, <4>1
      <3>6. stack' # << >>
        BY <1>3, <3>5
      <3> QED BY <3>5, <3>6 DEF Inner
    <2>3. Levels(f, s, e)' /\ Nested(s, e)'
      BY <1>1, <1>3, <1>4, <2>2, SameLevels
    <2>4. e[Inner'] = offset' + 1
      BY <1>1, <1>4, <2>2
    <2>5. Top.kind = "array" => Started(e, offset + 1)'
      <3>1. Level(f, s, e, Inner)
        BY <1>3, <1>4 DEF Levels
      <3> QED BY <1>1, <1>3, <1>4, <2>2, <2>4, <3>1, SameGrammar DEF Started, ValueAt, Level
    <2>6. Top.kind # "array" => stack'[Inner'].kind = "object"
      BY <1>3, <2>2 DEF Containers
    <2>7. Understood(f, s, e)'
      BY <1>4, <1>5, <2>2, <2>3, <2>4, <2>5, <2>6 DEF Understood
    <2> QED BY <1>5, <2>7 DEF Reads, Working
  <1>6. CASE OutOfMemory
    BY <1>1, <1>6, Fails DEF OutOfMemory
  <1>7. CASE Peek = "end" /\ at' = "fail"
    <2>1. ASSUME NEW kind \in Containers, NEW d, NEW i, i = offset + 1
          PROVE  FirstEnds(f, kind, d, i) = {}
      BY <1>7, <2>1, NoEnds DEF Peek, FirstEnds
    <2> QED BY <1>1, <1>7, <2>1, NoFirstFails
  <1> QED BY <1>5, <1>6, <1>7 DEF Element

LEMMA ReadsKey ==
    ASSUME MemoryInv, TextInv, Key, NEW f, Grammar(f) PROVE Reads(f)'
  <1>1. /\ at = "key" /\ UNCHANGED <<input, stack>> /\ Working /\ stack # << >>
    BY DEF Key, Working, MemoryInv, Shape
  <1>2. PICK s \in [Nat -> Nat], e \in [Nat -> Nat] : Understood(f, s, e)
    BY <1>1, Reading
  <1>3. /\ Inner \in Nat /\ DOMAIN stack = 1 .. Inner
        /\ offset \in Nat /\ input \in Seq(Tokens)
    BY <1>1, InnerFacts
  <1>4. /\ e[Inner] = offset + 1 /\ Levels(f, s, e) /\ Nested(s, e) /\ s[1] = 1
        /\ stack[Inner].kind = "object"
    BY <1>1, <1>2 DEF Understood
  <1>5. PICK i \in Nat \ {0} : i = offset + 1 /\ i + 1 = offset + 2 /\ i + 2 = (offset + 2) + 1
    BY <1>3
  <1>6. Peek = Token(i) /\ Second = Token(i + 1)
    BY <1>5 DEF Peek, Second
  <1>7. CASE Peek = "text" /\ Second = ":" /\ offset' = offset + 2 /\ at' = "value"
    <2>1. i + 2 \in 1 .. Beyond
      BY <1>3, <1>6, <1>7, MemberStarts
    <2>2. ValueAt(stack[Inner].kind, e[Inner], i + 2)
      BY <1>4, <1>5, <1>6, <1>7 DEF ValueAt
    <2>3. Inner' = Inner /\ Beyond' = Beyond
      BY <1>1, SameGrammar DEF Inner
    <2>4. \A v : ValueAt("object", e[Inner], v)' <=> ValueAt("object", e[Inner], v)
      BY <1>1, <2>3, SameGrammar DEF ValueAt
    <2>5. Started(e, offset + 1)'
      BY <1>1, <1>4, <1>5, <1>7, <2>1, <2>2, <2>3, <2>4 DEF Started
    <2>6. Levels(f, s, e)' /\ Nested(s, e)'
      BY <1>1, <1>3, <1>4, SameLevels
    <2>7. Understood(f, s, e)'
      BY <1>4, <1>7, <2>5, <2>6 DEF Understood
    <2> QED BY <1>7, <2>7 DEF Reads, Working
  <1>8. CASE OutOfMemory
    BY <1>1, <1>8, Fails DEF OutOfMemory
  <1>9. CASE at' = "fail" /\ (Peek # "text" \/ Second # ":")
    <2>1. ASSUME NEW d PROVE FirstEnds(f, "object", d, i) = {}
      BY <1>6, <1>9 DEF FirstEnds
    <2> QED BY <1>1, <1>5, <1>9, <2>1, NoFirstFails
  <1> QED BY <1>7, <1>8, <1>9 DEF Key

LEMMA ReadsAfter ==
    ASSUME MemoryInv, TextInv, After, NEW f, Grammar(f) PROVE Reads(f)'
  <1>1. /\ at = "after" /\ UNCHANGED input /\ Working /\ stack # << >>
    BY DEF After, Working
  <1>2. PICK s \in [Nat -> Nat], e \in [Nat -> Nat] : Understood(f, s, e)
    BY <1>1, Reading
  <1>3. /\ Inner \in Nat /\ DOMAIN stack = 1 .. Inner /\ Inner \in DOMAIN stack
        /\ offset \in Nat /\ input \in Seq(Tokens) /\ Top = stack[Inner]
        /\ stack[Inner].kind \in Containers /\ DepthLimit - Inner \in 0 .. DepthLimit
        /\ TypeOK
    BY <1>1, InnerFacts DEF MemoryInv
  <1>4. /\ Levels(f, s, e) /\ Nested(s, e) /\ s[1] = 1 /\ Level(f, s, e, Inner)
        /\ \E v : /\ Started(e, v) /\ ValueEnds(f, DepthLimit - Inner, v) = {offset + 1}
    BY <1>1, <1>2, <1>3 DEF Understood, Levels
  <1>5. PICK kind \in Containers, d \in 0 .. DepthLimit, c \in 1 .. Beyond, j \in Nat :
           kind = stack[Inner].kind /\ d = DepthLimit - Inner /\ c = e[Inner] /\ j = offset + 1
    <2>1. e[Inner] \in 1 .. Beyond
      BY <1>4 DEF Level
    <2>2. PICK j \in Nat : j = offset + 1
      BY <1>3
    <2>3. PICK d \in 0 .. DepthLimit : d = DepthLimit - Inner
      BY <1>3
    <2> QED BY <1>3, <2>1, <2>2, <2>3
  <1>6. FirstEnds(f, kind, d, c) = {j}
    BY <1>1, <1>4, <1>5, FirstIsValue
  <1>7. /\ Token(j) = "," => Closing(kind, f[c][kind][d]) = Closing(kind, f[j + 1][kind][d])
        /\ Token(j) = Closer(kind) => Closing(kind, f[c][kind][d]) = {j + 1}
        /\ Token(j) \notin {",", Closer(kind)} => Closing(kind, f[c][kind][d]) = {}
    BY <1>6, OneElement
  <1>8. Peek = Token(j) /\ Closer(Top.kind) = Closer(kind)
    BY <1>3, <1>5 DEF Peek
  <1>9. ValueEnds(f, DepthLimit - Inner + 1, s[Inner]) = Closing(kind, f[c][kind][d])
    BY <1>4, <1>5 DEF Level
  <1>10. CASE Peek = "," /\ offset' = offset + 1 /\ at' = "element" /\ stack' = stack
    <2>1. PICK k \in Nat : k = Inner
      BY <1>3
    <2>2. PICK n \in Nat : n = j + 1
      OBVIOUS
    <2>3. PICK u \in [Nat -> Nat] : Notes(u, e, k, n)
      BY Noted
    <2>4. /\ u[k] = n /\ Inner' = k /\ \A l \in 1 .. k : l # k => u[l] = e[l]
      <3>1. Inner' = Inner
        BY <1>10 DEF Inner
      <3>2. \A l \in 1 .. k : l \in Nat
        OBVIOUS
      <3> QED BY <2>1, <2>3, <3>1, <3>2 DEF Notes
    <2>5. n \in 1 .. Beyond
      <3>1. j \in Nat \ {0}
        BY <1>3, <1>5
      <3>2. Token(j) # "end"
        BY <1>8, <1>10
      <3> QED BY <1>3, <2>2, <3>1, <3>2, TokenPlaces
    <2>6. Level(f, s, u, k)'
      <3>1. ValueEnds(f, DepthLimit - k + 1, s[k])
            = Closing(stack[k].kind, f[u[k]][stack[k].kind][DepthLimit - k])
        BY <1>5, <1>7, <1>8, <1>9, <1>10, <2>1, <2>2, <2>4
      <3>2. Level(f, s, u, k)
        BY <1>4, <2>1, <2>4, <2>5, <3>1 DEF Level
      <3> QED BY <1>1, <1>10, <3>2, LevelStays
    <2>7. Levels(f, s, u)'
      BY <1>1, <1>3, <1>4, <1>10, <2>1, <2>4, <2>6, LevelStays DEF Levels
    <2>8. Levels(f, s, e)' /\ Nested(s, e)'
      BY <1>1, <1>3, <1>4, <1>10, SameLevels
    <2>9. Nested(s, u)'
      <3>1. ASSUME NEW l \in DOMAIN stack, l # 1 PROVE u[l - 1] = e[l - 1]
        <4>1. l - 1 \in 1 .. k /\ l - 1 # k
          <5>1. l \in 1 .. k
            BY <1>3, <2>1, <3>1
          <5> QED BY ONLY k \in Nat, <3>1, <5>1
        <4> QED BY <2>4, <4>1
      <3> QED BY <1>10, <2>8, <3>1 DEF Nested
    <2>10. u[Inner'] = offset' + 1
      BY <1>5, <1>10, <2>2, <2>4
    <2>11. Understood(f, s, u)'
      BY <1>4, <1>10, <2>7, <2>9, <2>10 DEF Understood
    <2> QED BY <1>10, <2>11 DEF Reads, Working
  <1>11. CASE Peek = Closer(kind) /\ offset' = offset + 1 /\ at' = "after" /\ stack' = Pop
    <2>1. PICK k \in Nat \ {0} : k = Inner
      BY <1>3
    <2>2. /\ Inner' = k - 1 /\ DOMAIN stack' = 1 .. k - 1
          /\ \A l \in DOMAIN stack' : stack'[l] = stack[l]
          /\ k - 1 \in Nat
      <3>1. /\ Len(Pop) = Inner - 1 /\ DOMAIN Pop = DOMAIN stack \ {Inner}
            /\ \A l \in DOMAIN Pop : Pop[l] = stack[l]
        BY <1>1, <1>3, StackFacts DEF Inner
      <3>2. Inner' = Len(Pop)
        BY <1>11 DEF Inner
      <3>3. Inner' = k - 1
        BY <2>1, <3>1, <3>2
      <3>4. 1 .. k - 1 = (1 .. k) \ {k}
        BY ONLY k \in Nat \ {0}
      <3>5. k - 1 \in Nat
        BY ONLY k \in Nat \ {0}
      <3> QED BY <1>3, <1>11, <2>1, <3>1, <3>3, <3>4, <3>5
    <2>3. Levels(f, s, e)'
      <3>1. \A l \in DOMAIN stack' : l \in DOMAIN stack
        BY <1>3, <2>1, <2>2
      <3> QED BY <1>1, <1>4, <2>2, <3>1, LevelStays DEF Levels
    <2>4. ASSUME NEW a, NEW p, NEW v, ValueAt(a, p, v) PROVE ValueAt(a, p, v)'
      BY <1>1, <2>4, SameGrammar DEF ValueAt
    <2>5. ASSUME NEW l \in DOMAIN stack, l # 1
          PROVE  ValueAt(stack[l - 1].kind, e[l - 1], s[l])' /\ l - 1 \in 1 .. k - 1
      <3>1. l - 1 \in 1 .. k - 1
        <4>1. l \in 1 .. k
          BY <1>3, <2>1, <2>5
        <4> QED BY ONLY <2>1, <2>5, <4>1
      <3>2. ValueAt(stack[l - 1].kind, e[l - 1], s[l])
        BY <1>4, <2>5 DEF Nested
      <3>3. stack'[l - 1].kind = stack[l - 1].kind
        BY <2>2, <3>1
      <3> QED BY <2>4, <3>1, <3>2, <3>3
    <2>6. Nested(s, e)'
      <3>1. \A l \in DOMAIN stack' : l \in DOMAIN stack
        BY <1>3, <2>1, <2>2
      <3> QED BY <2>5, <3>1 DEF Nested
    <2>7. PICK v : v = s[k]
      OBVIOUS
    <2>8. Started(e, v)'
      <3>1. v \in 1 .. Beyond /\ Beyond' = Beyond
        BY <1>1, <1>4, <2>1, <2>7, SameGrammar DEF Level
      <3>2. CASE k = 1
        <4>1. stack' = << >>
          <5>1. Pop \in Seq(Activation) /\ Len(Pop) = 0
            BY <1>1, <1>3, <2>1, <3>2, StackFacts DEF Inner
          <5> QED BY <1>11, <5>1
        <4> QED BY <1>4, <2>7, <3>1, <3>2, <4>1 DEF Started
      <3>3. CASE k # 1
        <4>1. ValueAt(stack[k - 1].kind, e[k - 1], s[k])'
          BY <1>3, <2>1, <2>5, <3>3
        <4>2. stack' # << >>
          BY <2>1, <2>2, <3>3
        <4> QED BY <2>2, <2>7, <3>1, <4>1, <4>2 DEF Started
      <3> QED BY <3>2, <3>3
    <2>9. ValueEnds(f, DepthLimit - Inner, v)' = {offset' + 1}
      <3>1. PICK w : w = DepthLimit - k + 1
        OBVIOUS
      <3>2. ValueEnds(f, w, v) = {j + 1}
        BY <1>7, <1>8, <1>9, <1>11, <2>1, <2>7, <3>1
      <3>3. w = DepthLimit - Inner' /\ j + 1 = offset' + 1
        BY <1>5, <1>11, <2>1, <2>2, <3>1, ParserAssumption
      <3>4. ValueEnds(f, w, v)' = {offset' + 1}
        BY <1>1, <3>2, <3>3, SameGrammar
      <3> QED BY <3>3, <3>4
    <2>10. Understood(f, s, e)'
      BY <1>4, <1>11, <2>3, <2>6, <2>8, <2>9 DEF Understood
    <2> QED BY <1>11, <2>10 DEF Reads, Working
  <1>12. CASE Peek \notin {",", Closer(kind)} /\ at' = "fail"
    <2>1. ValueEnds(f, DepthLimit - Inner + 1, s[Inner]) = {}
      BY <1>7, <1>8, <1>9, <1>12
    <2>2. Malformed(f)
      BY <1>4, <2>1 DEF Level, Malformed
    <2> QED BY <1>1, <1>12, <2>2, Fails
  <1> QED BY <1>8, <1>10, <1>11, <1>12 DEF After, Leave

LEMMA ReadsFinish ==
    ASSUME MemoryInv, TextInv, Finish, NEW f, Grammar(f) PROVE Reads(f)'
  <1>1. /\ at = "after" /\ stack = << >> /\ at' = "parsed" /\ Working
        /\ UNCHANGED <<input, offset>>
    BY DEF Finish, Working
  <1>2. PICK s \in [Nat -> Nat], e \in [Nat -> Nat] : Understood(f, s, e)
    BY <1>1, Reading
  <1>3. PICK v : Started(e, v) /\ ValueEnds(f, DepthLimit - Inner, v) = {offset + 1}
    BY <1>1, <1>2 DEF Understood
  <1>4. v = 1 /\ DepthLimit - Inner = DepthLimit
    BY <1>1, <1>3, InnerFacts DEF Started
  <1>5. ValueEnds(f, DepthLimit, 1)' = {offset' + 1}
    BY <1>1, <1>3, <1>4, SameGrammar
  <1> QED BY <1>1, <1>5 DEF Reads, Working

\* Clearing up after a failure.
LEMMA ReadsClearing ==
    ASSUME TextInv, Unwind \/ Refuse, NEW f, Grammar(f) PROVE Reads(f)'
  <1>1. /\ at = "fail" /\ at' \in {"fail", "refused"} /\ UNCHANGED <<input, exhausted>>
    BY DEF Unwind, Refuse, Delete
  <1>2. exhausted \/ Malformed(f)
    BY <1>1 DEF TextInv, Reads
  <1>3. exhausted' \/ Malformed(f)'
    BY <1>1, <1>2, SameGrammar DEF Malformed
  <1> QED BY <1>1, <1>3 DEF Reads, Working

LEMMA ReadsOn == ASSUME MemoryInv, TextInv, Next, NEW f, Grammar(f) PROVE Reads(f)'
  <1>1. ASSUME Release PROVE Reads(f)'
    BY <1>1 DEF Release, Reads, Working
  <1>2. ASSUME NEW kind \in {"array", "object"}, Open(kind) PROVE Reads(f)'
    BY <1>2, ReadsOpen DEF Containers
  <1> QED BY <1>1, <1>2, ReadsBegin, ReadsScalar, ReadsText, ReadsNoValue, ReadsElement,
             ReadsKey, ReadsAfter, ReadsFinish, ReadsClearing DEF Next

\* A failed allocation is followed by nothing but clearing up.
LEMMA Exhaustion ==
    ASSUME MemoryInv, TextInv, Next PROVE exhausted' => at' \in {"fail", "refused"}
  <1> SUFFICES ASSUME exhausted' PROVE at' \in {"fail", "refused"}
    OBVIOUS
  <1>1. CASE ~ exhausted
    BY <1>1 DEF Next, Begin, Scalar, Text, NoValue, Open, Element, Key, After, Finish, Unwind,
                Refuse, Release, AllocateItem, AllocateText, OutOfMemory, Delete, memory
  <1>2. CASE exhausted
    <2>1. at \in {"fail", "refused"}
      BY <1>2 DEF TextInv
    <2> QED BY <2>1 DEF Next, Begin, Scalar, Text, NoValue, Open, Element, Key, After, Finish,
                        Unwind, Refuse, Release
  <1> QED BY <1>1, <1>2

LEMMA SameText == Next => UNCHANGED input
  BY DEF Next, Begin, Scalar, Text, NoValue, Open, Element, Key, After, Finish, Unwind, Refuse,
         Release

LEMMA ReadingStarts == Init => TextInv
  BY DEF Init, TextInv, Reads, Working

LEMMA ReadingKeeps == ASSUME MemoryInv, TextInv, Next PROVE TextInv'
  <1>1. at' # "start"
    BY DEF Next, Begin, Scalar, Text, NoValue, Open, Element, Key, After, Finish, Unwind,
           Refuse, Release, OutOfMemory
  <1>2. ASSUME NEW f, Grammar(f)' PROVE Reads(f)'
    <2>1. Grammar(f)
      BY <1>2, SameText, SameGrammar
    <2> QED BY <2>1, ReadsOn
  <1> QED BY <1>1, <1>2, Exhaustion DEF TextInv

LEMMA ReadingStutters == ASSUME TextInv, UNCHANGED vars PROVE TextInv'
  <1>1. UNCHANGED <<input, offset, stack, exhausted, at>>
    BY DEF vars, memory
  <1>2. ASSUME NEW f, Grammar(f)' PROVE Reads(f)'
    <2>1. Reads(f)
      BY <1>1, <1>2, SameGrammar DEF TextInv
    <2>2. ASSUME NEW s, NEW e, Understood(f, s, e) PROVE Understood(f, s, e)'
      <3>1. Inner' = Inner
        BY <1>1 DEF Inner
      <3>2. ASSUME NEW kind, NEW c, NEW v PROVE ValueAt(kind, c, v)' <=> ValueAt(kind, c, v)
        BY <1>1, SameGrammar DEF ValueAt
      <3>3. ASSUME NEW v PROVE Started(e, v)' <=> Started(e, v)
        BY <1>1, <3>1, <3>2, SameGrammar DEF Started
      <3>4. Levels(f, s, e)' /\ Nested(s, e)'
        BY <1>1, <2>2, <3>2, LevelStays DEF Understood, Levels, Nested
      <3>5. Started(e, offset + 1)' <=> Started(e, offset + 1)
        BY <1>1, <3>3
      <3>6. ASSUME NEW v
            PROVE  ValueEnds(f, DepthLimit - Inner, v)' = ValueEnds(f, DepthLimit - Inner, v)
        BY <1>1, <3>1, SameGrammar
      <3> QED BY <1>1, <2>2, <3>1, <3>3, <3>4, <3>5, <3>6 DEF Understood
    <2>3. Malformed(f)' <=> Malformed(f)
      BY <1>1, SameGrammar DEF Malformed
    <2>4. ValueEnds(f, DepthLimit, 1)' = ValueEnds(f, DepthLimit, 1)
      BY <1>1, SameGrammar
    <2> QED BY <1>1, <2>1, <2>2, <2>3, <2>4 DEF Reads, Working
  <1> QED BY <1>1, <1>2 DEF TextInv

\* Whatever the text, the levels of the parser's stack say where by the grammar
\* the first value ends: where the lists that are open will be closed.
THEOREM ParserReadsText == Spec => []TextInv
  <1>1. ASSUME MemoryInv, TextInv, [Next]_vars PROVE TextInv'
    BY <1>1, ReadingKeeps, ReadingStutters
  <1> QED BY <1>1, ReadingStarts, ParserMemory, PTL DEF Spec

\* The parser takes no text that does not start with a value, and refuses none
\* that does, unless an allocation failed.
THEOREM ParserTakesValues == Spec => []TakesExactlyValues
  <1>1. ASSUME MemoryInv, TextInv PROVE TakesExactlyValues
    <2>1. input \in Seq(Tokens) /\ offset \in Nat
      BY <1>1, Tokenwise DEF MemoryInv, TypeOK
    <2>2. PICK f : Grammar(f) /\ Ends = ValueEnds(f, DepthLimit, 1)
      BY <2>1, EndsOfGrammar
    <2>3. Reads(f)
      BY <1>1, <2>2 DEF TextInv
    <2>4. at = "parsed" => ~ exhausted
      BY <1>1 DEF TextInv
    <2> QED BY <2>2, <2>3, <2>4 DEF Reads, Malformed, TakesExactlyValues
  <1> QED BY <1>1, ParserMemory, ParserReadsText, PTL

(***************************************************************************)
(* Where in the text the items stand.                                      *)
(***************************************************************************)
\* The entry of an item starts at `from`, with its key if it is a member, its
\* value at `start`; the value ends at `end`.
Span == [from : Nat, start : Nat, end : Nat, parent : Nat, keyed : BOOLEAN]

LEMMA SpanFields ==
    ASSUME NEW v \in Span
    PROVE  v.from \in Nat /\ v.start \in Nat /\ v.end \in Nat /\ v.parent \in Nat
  BY DEF Span

\* Items whose values have not ended.
Pending == {stack[k].item : k \in DOMAIN stack}
           \cup (IF at \in {"value", "key"} THEN {item} ELSE {})

Descends(p, n) ==
    p[n].parent # Null => /\ p[n].parent \in DOMAIN heap /\ p[n].parent < n
                          /\ p[p[n].parent].start < p[n].from

Led(p, n) ==
    /\ p[n].from # 0
    /\ IF p[n].keyed
       THEN /\ p[n].start = p[n].from + 2
            /\ Token(p[n].from) = "text" /\ Token(p[n].from + 1) = ":"
       ELSE p[n].start = p[n].from

Whole(p, n) ==
    /\ p[n].start <= p[n].end /\ p[n].end <= Len(input)
    /\ \/ /\ heap[n].type \in {"scalar", "text"}
          /\ Token(p[n].start) = heap[n].type /\ p[n].end = p[n].start
       \/ /\ heap[n].type \in Containers
          /\ Token(p[n].start) = Opener(heap[n].type)
          /\ Token(p[n].end) = Closer(heap[n].type)
          /\ IF heap[n].child = Null THEN p[n].end = p[n].start + 1
             ELSE /\ p[heap[n].child].from = p[n].start + 1
                  /\ p[heap[n].child].parent = n
                  /\ p[heap[n].child].keyed = (heap[n].type = "object")

\* A comma, and the next entry behind it.
Followed(p, n) ==
    heap[n].next # Null =>
        /\ n \notin Pending
        /\ Token(p[n].end + 1) = "," /\ p[heap[n].next].from = p[n].end + 2
        /\ p[heap[n].next].parent = p[n].parent /\ p[heap[n].next].keyed = p[n].keyed

\* A container ends behind its last element.
Inside(p, n) ==
    p[n].parent # Null /\ p[n].parent \notin Pending =>
        /\ n \notin Pending
        /\ heap[n].next = Null => p[p[n].parent].end = p[n].end + 1

Placed(p, n) ==
    /\ Descends(p, n) /\ Followed(p, n) /\ Inside(p, n)
    /\ (at = "key" /\ n = item) \/ Led(p, n)
    /\ n \in Pending \/ Whole(p, n)

AllPlaced(p) == \A n \in DOMAIN heap : Placed(p, n)

\* An open container, and the list of its elements so far.
OpenSpan(p, a) ==
    /\ Token(p[a.item].start) = Opener(a.kind)
    /\ \A n \in DOMAIN heap : p[n].parent = a.item =>
          /\ a.head # Null /\ p[n].keyed = (a.kind = "object")
          /\ heap[n].next = Null => n = a.current
    /\ a.head # Null => /\ p[a.head].from = p[a.item].start + 1
                        /\ p[a.head].parent = a.item /\ p[a.current].parent = a.item

Chained ==
    \A k \in DOMAIN stack : stack[k].item = IF k = 1 THEN root ELSE stack[k - 1].current

RootSpan(p) ==
    /\ root \in DOMAIN heap /\ heap[root].next = Null
    /\ p[root].parent = Null /\ p[root].from = 1 /\ ~ p[root].keyed

\* The item that was parsed last.
Latest == IF stack = << >> THEN root ELSE Top.current

Located(p) ==
    /\ at \in {"value", "key"} => /\ item = Latest
                                  /\ \A n \in DOMAIN heap : p[n].parent # item
    /\ at = "value" => p[item].start = offset + 1
    /\ at = "key" => /\ Top.kind = "object"
                     /\ p[item].from = offset + 1 /\ p[item].start = offset + 3
    /\ at = "element" =>
          IF Top.head = Null THEN offset = p[Top.item].start
          ELSE /\ Top.current \notin Pending
               /\ Token(offset) = "," /\ offset = p[Top.current].end + 1
    /\ at \in {"after", "parsed"} =>
          /\ stack # << >> => Top.head # Null
          /\ Latest \notin Pending /\ p[Latest].end = offset

Spans(p) ==
    /\ AllPlaced(p) /\ RootSpan(p) /\ Chained /\ Located(p)
    /\ \A k \in DOMAIN stack : OpenSpan(p, stack[k])

TreeInv == Working \/ at = "parsed" => \E p \in [Nat -> Span] : Spans(p)

(***************************************************************************)
(* A value ends.                                                           *)
(***************************************************************************)
Ended(p, x, e) == [p[x] EXCEPT !.end = e]

LEMMA Completed ==
    ASSUME NEW p \in [Nat -> Span], NEW q \in [Nat -> Span], NEW x \in DOMAIN heap, NEW e \in Nat,
           Notes(q, p, x, Ended(p, x, e)), AllPlaced(p),
           DOMAIN heap \subseteq Nat \ {Null},
           \A n \in DOMAIN heap : {heap[n].next, heap[n].child} \subseteq DOMAIN heap \cup {Null},
           DOMAIN heap' = DOMAIN heap, \A n \in DOMAIN heap : n # x => heap'[n] = heap[n],
           heap'[x].next = heap[x].next, UNCHANGED input,
           x \in Pending, Pending' = Pending \ {x},
           \A n \in DOMAIN heap : p[n].parent = x =>
                n \notin Pending /\ (heap[n].next = Null => e = p[n].end + 1),
           at # "key", Whole(q, x)'
    PROVE  AllPlaced(q)'
  <1>1. /\ x \in Nat \ {Null} /\ p[x] \in Span /\ q[x] = Ended(p, x, e)
        /\ \A n \in DOMAIN heap : n \in Nat \ {Null} /\ (n # x => q[n] = p[n])
    BY DEF Notes
  <1>2. /\ q[x].from = p[x].from /\ q[x].start = p[x].start /\ q[x].end = e
        /\ q[x].parent = p[x].parent /\ q[x].keyed = p[x].keyed
    BY <1>1 DEF Ended, Span
  <1>3. /\ \A n \in DOMAIN heap : /\ q[n].from = p[n].from /\ q[n].start = p[n].start
                                  /\ q[n].parent = p[n].parent /\ q[n].keyed = p[n].keyed
        /\ \A n \in DOMAIN heap : n # x => q[n].end = p[n].end
    BY <1>1, <1>2
  <1>4. /\ \A i : Token(i)' = Token(i)
        /\ \A n \in DOMAIN heap : heap'[n].next = heap[n].next
    BY SameGrammar
  <1>5. p[x].parent # Null => p[x].parent \in Pending /\ p[x].parent # x
    BY <1>1 DEF AllPlaced, Placed, Descends, Inside
  <1>6. ASSUME NEW n \in DOMAIN heap PROVE Placed(q, n)'
    <2>1. /\ Descends(p, n) /\ Followed(p, n) /\ Inside(p, n) /\ Led(p, n)
          /\ n \in Pending \/ Whole(p, n)
      BY DEF AllPlaced, Placed
    <2>2. Descends(q, n)'
      BY <1>3, <2>1 DEF Descends
    <2>3. Followed(q, n)'
      <3> SUFFICES ASSUME heap[n].next # Null PROVE Followed(q, n)'
        BY <1>4 DEF Followed
      <3>1. heap[n].next \in DOMAIN heap /\ n \notin Pending /\ n # x
        BY <2>1 DEF Followed
      <3>2. /\ Token(p[n].end + 1) = "," /\ p[heap[n].next].from = p[n].end + 2
            /\ p[heap[n].next].parent = p[n].parent /\ p[heap[n].next].keyed = p[n].keyed
        BY <2>1 DEF Followed
      <3>3. heap'[n].next = heap[n].next /\ q[n].end = p[n].end
        BY <1>3, <1>4, <3>1
      <3>4. /\ q[heap[n].next].from = p[heap[n].next].from
            /\ q[heap[n].next].parent = p[heap[n].next].parent
            /\ q[heap[n].next].keyed = p[heap[n].next].keyed
            /\ q[n].parent = p[n].parent /\ q[n].keyed = p[n].keyed
        BY <1>3, <3>1
      <3> QED BY <1>4, <3>1, <3>2, <3>3, <3>4 DEF Followed
    <2>4. Inside(q, n)'
      BY <1>2, <1>3, <1>4, <1>5, <2>1 DEF Inside, Descends
    <2>5. Led(q, n)'
      BY <1>3, <1>4, <2>1 DEF Led
    <2>6. n \in Pending' \/ Whole(q, n)'
      <3>1. CASE n = x
        BY <3>1
      <3>2. CASE n # x /\ n \notin Pending
        BY <1>3, <1>4, <2>1, <3>2 DEF Whole
      <3> QED BY <3>1, <3>2
    <2> QED BY <2>2, <2>3, <2>4, <2>5, <2>6 DEF Placed
  <1> QED BY <1>6 DEF AllPlaced

LEMMA HeapAtWork ==
    ASSUME MemoryInv, Working
    PROVE  /\ DOMAIN heap \subseteq Nat \ {Null}
           /\ \A n \in DOMAIN heap :
                 {heap[n].next, heap[n].child} \subseteq DOMAIN heap \cup {Null}
           /\ \A k \in DOMAIN stack :
                 /\ stack[k].item \in DOMAIN heap /\ stack[k].kind \in Containers
                 /\ stack[k].head \in DOMAIN heap \cup {Null}
                 /\ stack[k].head # Null => /\ stack[k].current \in DOMAIN heap
                                            /\ heap[stack[k].current].next = Null
                                            /\ stack[k].item < stack[k].current
                 /\ stack[k].head = Null => stack[k].current = Null
           /\ \A k, l \in DOMAIN stack : k < l =>
                 /\ stack[k].head # Null /\ stack[k].item < stack[l].item
           /\ heap \in [DOMAIN heap -> Item]
  <1>1. TypeOK /\ Ownership /\ Activations
    BY AtWork
  <1>2. Kinds(heap, stack, root, texts)
    BY <1>1 DEF Ownership
  <1>3. /\ DOMAIN heap \subseteq Nat \ {Null}
        /\ \A n \in DOMAIN heap :
              {heap[n].next, heap[n].child} \subseteq DOMAIN heap \cup {Null}
        /\ \A k \in DOMAIN stack : stack[k].head \in DOMAIN heap \cup {Null}
    BY <1>2 DEF Kinds
  <1>4. ASSUME NEW k \in DOMAIN stack
        PROVE  /\ stack[k].item \in DOMAIN heap
               /\ stack[k].head # Null => /\ stack[k].current \in DOMAIN heap
                                          /\ heap[stack[k].current].next = Null
                                          /\ stack[k].item < stack[k].current
               /\ stack[k].head = Null => stack[k].current = Null
    <2>1. OpenContainer(heap, stack[k])
      BY <1>1 DEF Activations
    <2>2. /\ stack[k].item \in Nat /\ stack[k].head \in Nat
          /\ stack[k].head # Null => stack[k].current \in Nat
      BY <1>3, <2>1 DEF OpenContainer, Null
    <2> QED BY <2>1, <2>2 DEF OpenContainer
  <1>5. ASSUME NEW k \in DOMAIN stack, NEW l \in DOMAIN stack, k < l
        PROVE  stack[k].head # Null /\ stack[k].item < stack[l].item
    <2>1. stack[k].head # Null /\ stack[k].current <= stack[l].item
      BY <1>1, <1>5 DEF Activations
    <2>2. stack[k].item \in Nat /\ stack[l].item \in Nat /\ stack[k].current \in Nat
      BY <1>3, <1>4, <2>1
    <2> QED BY <1>4, <2>1, <2>2
  <1>6. \A k \in DOMAIN stack : stack[k].kind \in Containers
    BY InnerFacts
  <1> QED BY <1>1, <1>3, <1>4, <1>5, <1>6 DEF TypeOK

\* The item of an element that is being parsed.
LEMMA ItemAtWork ==
    ASSUME MemoryInv, at \in {"value", "key"}
    PROVE  /\ item \in DOMAIN heap /\ heap[item].child = Null
           /\ stack # << >> => /\ Inner \in DOMAIN stack /\ Top = stack[Inner]
                               /\ Top.head # Null /\ item = Top.current
           /\ \A k \in DOMAIN stack : stack[k].item # item
  <1>1. Working /\ Unparsed
    BY AtWork DEF Working
  <1>2. /\ item \in DOMAIN heap /\ heap[item].child = Null
        /\ stack # << >> => Top.head # Null /\ item = Top.current
    BY <1>1 DEF Unparsed
  <1>3. /\ Inner \in Nat /\ DOMAIN stack = 1 .. Inner /\ (stack = << >> <=> Inner = 0)
        /\ stack # << >> => Inner \in DOMAIN stack /\ Top = stack[Inner]
    BY <1>1, InnerFacts
  <1>4. ASSUME NEW k \in DOMAIN stack PROVE stack[k].item # item
    <2>1. stack # << >>
      BY <1>3, <1>4
    <2>2. PICK l \in DOMAIN stack : l = Inner
      BY <1>3, <2>1
    <2>3. stack[l].head # Null /\ item = stack[l].current /\ stack[l].item < item
      BY <1>1, <1>2, <1>3, <2>1, <2>2, HeapAtWork
    <2>4. stack[k].item \in Nat /\ stack[l].item \in Nat /\ item \in Nat
      BY <1>1, <1>2, HeapAtWork
    <2>5. CASE k = l
      BY <2>3, <2>4, <2>5
    <2>6. CASE k # l
      <3>1. k < l
        BY <1>3, <2>2, <2>6
      <3>2. stack[k].item < stack[l].item
        BY <1>1, <3>1, HeapAtWork
      <3> QED BY <2>3, <2>4, <3>2
    <2> QED BY <2>5, <2>6
  <1> QED BY <1>2, <1>3, <1>4

\* q says of n what p says, the end apart.
SameButEnd(q, p, n) ==
    /\ q[n].from = p[n].from /\ q[n].start = p[n].start
    /\ q[n].parent = p[n].parent /\ q[n].keyed = p[n].keyed

LEMMA EndedAlike ==
    ASSUME NEW p \in [Nat -> Span], NEW q \in [Nat -> Span], NEW x \in Nat, NEW e \in Nat,
           Notes(q, p, x, Ended(p, x, e)), NEW n \in Nat
    PROVE  SameButEnd(q, p, n) /\ (n # x => q[n].end = p[n].end) /\ (n = x => q[n].end = e)
  <1>1. CASE n = x
    <2>1. q[n] = Ended(p, x, e) /\ p[x] \in Span
      BY <1>1 DEF Notes
    <2> QED BY <1>1, <2>1 DEF Ended, Span, SameButEnd
  <1>2. CASE n # x
    BY <1>2 DEF Notes, SameButEnd
  <1> QED BY <1>1, <1>2

LEMMA EndedExists ==
    ASSUME NEW p \in [Nat -> Span], NEW x \in Nat, NEW e \in Nat
    PROVE  \E q \in [Nat -> Span] : Notes(q, p, x, Ended(p, x, e))
  <1>1. p[x] \in Span
    OBVIOUS
  <1>2. Ended(p, x, e) \in Span
    BY <1>1 DEF Ended, Span
  <1> DEFINE q == [p EXCEPT ![x] = Ended(p, x, e)]
  <1>3. q \in [Nat -> Span] /\ Notes(q, p, x, Ended(p, x, e))
    BY <1>2 DEF Notes
  <1> QED BY <1>3

LEMMA OpenSpanStays ==
    ASSUME NEW p, NEW q, NEW a, OpenSpan(p, a), a.item \in DOMAIN heap,
           a.head # Null => a.head \in DOMAIN heap /\ a.current \in DOMAIN heap,
           \A n \in DOMAIN heap : SameButEnd(q, p, n),
           DOMAIN heap' = DOMAIN heap,
           \A n \in DOMAIN heap : heap'[n].next = heap[n].next, UNCHANGED input
    PROVE  OpenSpan(q, a)'
  <1>1. \A i : Token(i)' = Token(i)
    BY SameGrammar
  <1>2. \A n \in DOMAIN heap : /\ q[n].from = p[n].from /\ q[n].start = p[n].start
                               /\ q[n].parent = p[n].parent /\ q[n].keyed = p[n].keyed
    BY DEF SameButEnd
  <1> QED BY <1>1, <1>2 DEF OpenSpan

LEMMA RootSpanStays ==
    ASSUME NEW p, NEW q, RootSpan(p), \A n \in DOMAIN heap : SameButEnd(q, p, n),
           DOMAIN heap' = DOMAIN heap,
           \A n \in DOMAIN heap : heap'[n].next = heap[n].next, UNCHANGED root
    PROVE  RootSpan(q)'
  BY DEF RootSpan, SameButEnd

LEMMA ValueEnded ==
    ASSUME MemoryInv, at = "value", NEW p \in [Nat -> Span], NEW q \in [Nat -> Span], NEW e \in Nat,
           NEW x \in DOMAIN heap, x = item,
           Spans(p), Notes(q, p, x, Ended(p, x, e)), Whole(q, x)',
           at' = "after", offset' = e, UNCHANGED <<input, stack, root>>,
           DOMAIN heap' = DOMAIN heap, \A n \in DOMAIN heap : n # x => heap'[n] = heap[n],
           heap'[x].next = heap[x].next
    PROVE  Spans(q)'
  <1>1. Working /\ at' # "key" /\ at' \notin {"value", "element"}
    BY DEF Working
  <1>3. /\ \A n \in DOMAIN heap : heap'[n].next = heap[n].next
        /\ \A k \in DOMAIN stack : stack[k].item # x
        /\ x \in Nat /\ DOMAIN heap \subseteq Nat \ {Null}
        /\ stack' = stack /\ root' = root
    BY <1>1, ItemAtWork, HeapAtWork
  <1>4. Pending' = Pending \ {x} /\ x \in Pending
    BY <1>1, <1>3 DEF Pending
  <1>5. /\ \A n \in DOMAIN heap : SameButEnd(q, p, n)
        /\ q[x].end = e
    BY <1>3, EndedAlike
  <1>6. \A n \in DOMAIN heap : p[n].parent # x
    BY DEF Spans, Located
  <1>7. AllPlaced(q)'
    <2>1. AllPlaced(p) /\ at # "key"
      BY DEF Spans
    <2>2. \A n \in DOMAIN heap :
             {heap[n].next, heap[n].child} \subseteq DOMAIN heap \cup {Null}
      BY <1>1, HeapAtWork
    <2> QED BY <1>1, <1>3, <1>4, <1>6, <2>1, <2>2, Completed
  <1>8. RootSpan(q)' /\ Chained'
    BY <1>3, <1>5, RootSpanStays DEF Spans, Chained
  <1>9. ASSUME NEW k \in DOMAIN stack PROVE OpenSpan(q, stack[k])'
    <2>1. PICK a : a = stack[k]
      OBVIOUS
    <2>2. OpenSpan(p, a)
      BY <2>1 DEF Spans
    <2>3. a.item \in DOMAIN heap
          /\ (a.head # Null => a.head \in DOMAIN heap /\ a.current \in DOMAIN heap)
      BY <1>1, <2>1, HeapAtWork
    <2>4. OpenSpan(q, a)'
      BY <1>3, <1>5, <2>2, <2>3, OpenSpanStays
    <2> QED BY <1>3, <2>1, <2>4
  <1>10. Located(q)'
    <2>1. Top' = Top /\ Latest' = Latest
      BY <1>3 DEF Latest, Top
    <2>2. Latest = x /\ (stack # << >> => Top.head # Null)
      BY ItemAtWork DEF Spans, Located
    <2> QED BY <1>1, <1>3, <1>4, <1>5, <2>1, <2>2 DEF Located
  <1> QED BY <1>3, <1>7, <1>8, <1>9, <1>10 DEF Spans

LEMMA SpansFound ==
    ASSUME TreeInv, Working PROVE \E p \in [Nat -> Span] : Spans(p)
  BY DEF TreeInv

LEMMA TreeFails == ASSUME at' \in {"fail", "refused", "released"} PROVE TreeInv'
  BY DEF TreeInv, Working

\* The span of the item, with its end at e.
LEMMA ItemEnded ==
    ASSUME MemoryInv, TreeInv, at = "value", NEW e \in Nat
    PROVE  \E p \in [Nat -> Span], q \in [Nat -> Span], x \in DOMAIN heap :
              /\ x = item /\ Spans(p) /\ Notes(q, p, x, Ended(p, x, e))
              /\ q[x].start = offset + 1 /\ q[x].end = e
              /\ heap[x] \in Item /\ heap[x].child = Null
              /\ offset \in Nat /\ input \in Seq(Tokens)
  <1>1. Working
    BY DEF Working
  <1>2. PICK p \in [Nat -> Span] : Spans(p)
    BY <1>1, SpansFound
  <1>3. PICK x \in DOMAIN heap : x = item /\ heap[x].child = Null
    BY ItemAtWork
  <1>4. x \in Nat /\ heap[x] \in Item /\ offset \in Nat /\ input \in Seq(Tokens)
    BY <1>1, HeapAtWork, InnerFacts
  <1>5. PICK q \in [Nat -> Span] : Notes(q, p, x, Ended(p, x, e))
    BY <1>4, EndedExists
  <1>6. q[x].start = p[x].start /\ q[x].end = e
    BY <1>4, <1>5, EndedAlike DEF SameButEnd
  <1>7. p[x].start = offset + 1
    BY <1>2, <1>3 DEF Spans, Located
  <1> QED BY <1>2, <1>3, <1>4, <1>5, <1>6, <1>7

LEMMA TreeScalar == ASSUME MemoryInv, TreeInv, Scalar PROVE TreeInv'
  <1>1. /\ at = "value" /\ at' = "after" /\ Token(offset + 1) = "scalar"
        /\ offset' = offset + 1 /\ UNCHANGED <<input, stack, root>>
        /\ heap' = [heap EXCEPT ![item].type = "scalar"]
    BY DEF Scalar, Peek
  <1>2. PICK e \in Nat : e = offset + 1
    BY <1>1, InnerFacts DEF Working
  <1>3. PICK p \in [Nat -> Span], q \in [Nat -> Span], x \in DOMAIN heap :
           /\ x = item /\ Spans(p) /\ Notes(q, p, x, Ended(p, x, e))
           /\ q[x].start = offset + 1 /\ q[x].end = e
           /\ heap[x] \in Item /\ heap[x].child = Null
           /\ offset \in Nat /\ input \in Seq(Tokens)
    BY <1>1, ItemEnded
  <1>4. /\ DOMAIN heap' = DOMAIN heap /\ \A n \in DOMAIN heap : n # x => heap'[n] = heap[n]
        /\ heap'[x].next = heap[x].next /\ heap'[x].type = "scalar"
    BY <1>1, <1>3 DEF Item
  <1>5. Token(e) = "scalar" /\ e <= Len(input)
    BY <1>1, <1>2, <1>3, TokenPlaces
  <1>6. Whole(q, x)'
    <2>1. q[x].start = e /\ q[x].end = e /\ Token(e)' = "scalar" /\ e <= Len(input')
      BY <1>1, <1>2, <1>3, <1>5, SameGrammar
    <2> QED BY <1>2, <1>4, <2>1 DEF Whole
  <1>7. Spans(q)'
    BY <1>1, <1>2, <1>3, <1>4, <1>6, ValueEnded
  <1> QED BY <1>7 DEF TreeInv

LEMMA TreeText == ASSUME MemoryInv, TreeInv, Text PROVE TreeInv'
  <1> DEFINE parsed == [heap[item] EXCEPT !.type = "text", !.valuestring = Fresh]
  <1>1. /\ at = "value" /\ Token(offset + 1) = "text" /\ UNCHANGED <<input, stack, root>>
        /\ \/ AllocateText(parsed) /\ offset' = offset + 1 /\ at' = "after"
           \/ OutOfMemory
    BY DEF Text, Peek
  <1>2. CASE OutOfMemory
    BY <1>2, TreeFails DEF OutOfMemory
  <1>3. CASE AllocateText(parsed) /\ offset' = offset + 1 /\ at' = "after"
    <2>2. PICK e \in Nat : e = offset + 1
      BY <1>1, InnerFacts DEF Working
    <2>3. PICK p \in [Nat -> Span], q \in [Nat -> Span], x \in DOMAIN heap :
             /\ x = item /\ Spans(p) /\ Notes(q, p, x, Ended(p, x, e))
             /\ q[x].start = offset + 1 /\ q[x].end = e
             /\ heap[x] \in Item /\ heap[x].child = Null
             /\ offset \in Nat /\ input \in Seq(Tokens)
      BY <1>1, ItemEnded
    <2>4. /\ DOMAIN heap' = DOMAIN heap /\ \A n \in DOMAIN heap : n # x => heap'[n] = heap[n]
          /\ heap'[x].next = heap[x].next /\ heap'[x].type = "text"
      <3>1. parsed.type = "text" /\ parsed.next = heap[x].next
        BY <2>3 DEF Item
      <3> HIDE DEF parsed
      <3> QED BY <1>3, <2>3, <3>1 DEF AllocateText
    <2>5. Token(e) = "text" /\ e <= Len(input)
      BY <1>1, <2>2, <2>3, TokenPlaces
    <2>6. Whole(q, x)'
      BY <1>1, <2>2, <2>3, <2>4, <2>5, SameGrammar DEF Whole
    <2>7. Spans(q)'
      BY <1>1, <1>3, <2>2, <2>3, <2>4, <2>6, ValueEnded
    <2> QED BY <2>7 DEF TreeInv
  <1> QED BY <1>1, <1>2, <1>3

LEMMA TreeNoValue == ASSUME NoValue PROVE TreeInv'
  BY TreeFails DEF NoValue

\* An item that is parsed becomes an open container.
LEMMA SpanOpened ==
    ASSUME MemoryInv, NEW p \in [Nat -> Span], Spans(p), at = "value",
           NEW kind \in Containers, Token(offset + 1) = Opener(kind),
           UNCHANGED <<input, root, heap>>,
           at' = "element", offset' = offset + 1,
           stack' = Append(stack, [kind |-> kind, item |-> item,
                                   head |-> Null, current |-> Null])
    PROVE  Spans(p)'
  <1>1. Working
    BY DEF Working
  <1>2. PICK x \in DOMAIN heap : x = item
    BY ItemAtWork
  <1>3. PICK new \in Activation :
           new.kind = kind /\ new.item = x /\ new.head = Null /\ new.current = Null
           /\ stack' = Append(stack, new)
    <2> DEFINE new == [kind |-> kind, item |-> item, head |-> Null, current |-> Null]
    <2>1. new \in Activation
      BY <1>1, <1>2, HeapAtWork DEF Activation, Containers, Null
    <2> QED BY <1>2, <2>1
  <1>4. PICK k \in Nat \ {0} : k = Inner + 1
    BY <1>1, InnerFacts
  <1>5. /\ DOMAIN stack' = 1 .. k /\ stack'[k] = new /\ DOMAIN stack = 1 .. k - 1
        /\ \A l \in DOMAIN stack : stack'[l] = stack[l]
        /\ Len(stack') = k
    <2>1. stack \in Seq(Activation)
      BY DEF MemoryInv, TypeOK
    <2>2. Longer(Append(stack, new), stack, new)
      BY <2>1, OneMore
    <2>3. Inner + 1 = k /\ Inner = k - 1 /\ DOMAIN stack = 1 .. Inner
      BY <1>1, <1>4, InnerFacts
    <2> QED BY <1>3, <2>2, <2>3 DEF Longer, Inner
  <1>6. Top' = new /\ stack' # << >>
    BY <1>5 DEF Top
  <1>7. Pending' = Pending
    <2>1. \A l \in 1 .. k : l = k \/ l \in DOMAIN stack
      BY <1>5
    <2>2. {stack'[l].item : l \in DOMAIN stack'} = {stack[l].item : l \in DOMAIN stack} \cup {x}
      <3>1. \A l \in DOMAIN stack : l \in DOMAIN stack'
        BY <1>5
      <3>2. k \in DOMAIN stack'
        BY <1>5
      <3> QED BY <1>3, <1>5, <2>1, <3>1, <3>2
    <2> QED BY <1>2, <2>2 DEF Pending
  <1>8. \A i : Token(i)' = Token(i)
    BY SameGrammar
  <1>9. AllPlaced(p)'
    <2>1. ASSUME NEW n \in DOMAIN heap PROVE Placed(p, n)'
      <3>1. Placed(p, n)
        BY DEF Spans, AllPlaced
      <3> QED BY <1>7, <1>8, <3>1 DEF Placed, Descends, Followed, Inside, Led, Whole
    <2> QED BY <2>1 DEF AllPlaced
  <1>10. RootSpan(p)'
    BY DEF Spans, RootSpan
  <1>11. x = Latest /\ (\A n \in DOMAIN heap : p[n].parent # x) /\ p[x].start = offset + 1
    BY <1>2 DEF Spans, Located
  <1>12. Chained'
    <2>1. ASSUME NEW l \in DOMAIN stack', l # k
          PROVE  stack'[l].item = IF l = 1 THEN root ELSE stack'[l - 1].current
      <3>1. l \in DOMAIN stack /\ (l # 1 => l - 1 \in DOMAIN stack)
        BY <1>5, <2>1
      <3> QED BY <1>5, <3>1 DEF Spans, Chained
    <2>2. k # 1 => Latest = stack[k - 1].current /\ k - 1 \in DOMAIN stack
      <3> SUFFICES ASSUME k # 1 PROVE Latest = stack[k - 1].current /\ k - 1 \in DOMAIN stack
        OBVIOUS
      <3>1. k - 1 \in 1 .. k - 1 /\ Inner = k - 1 /\ stack # << >>
        BY <1>1, <1>4, InnerFacts
      <3> QED BY <1>5, <3>1 DEF Latest, Top, Inner
    <2>3. k = 1 => Latest = root
      BY <1>1, <1>4, InnerFacts DEF Latest
    <2>4. stack'[k].item = IF k = 1 THEN root ELSE stack'[k - 1].current
      BY <1>3, <1>5, <1>11, <2>2, <2>3
    <2> QED BY <2>1, <2>4 DEF Chained
  <1>13. ASSUME NEW l \in DOMAIN stack' PROVE OpenSpan(p, stack[l])'
    <2>1. CASE l = k
      <3>1. OpenSpan(p, new)'
        BY <1>3, <1>8, <1>11 DEF OpenSpan
      <3> QED BY <1>5, <2>1, <3>1
    <2>2. CASE l # k
      <3>1. l \in DOMAIN stack /\ stack'[l] = stack[l]
        BY <1>5, <2>2
      <3>2. PICK a : a = stack[l]
        OBVIOUS
      <3>3. OpenSpan(p, a)
        BY <3>1, <3>2 DEF Spans
      <3>4. OpenSpan(p, a)'
        BY <1>8, <3>3 DEF OpenSpan
      <3> QED BY <3>1, <3>2, <3>4
    <2> QED BY <2>1, <2>2
  <1>14. Located(p)'
    BY <1>3, <1>6, <1>11 DEF Located
  <1> QED BY <1>9, <1>10, <1>12, <1>13, <1>14 DEF Spans

LEMMA TreeOpen ==
    ASSUME MemoryInv, TreeInv, NEW kind \in Containers, Open(kind) PROVE TreeInv'
  <1>1. /\ at = "value" /\ Token(offset + 1) = Opener(kind) /\ UNCHANGED <<input, root>>
        /\ Token(offset + 2) = Second
    BY DEF Open, Peek, Second, Opener
  <1>2. CASE at' = "fail"
    BY <1>2, TreeFails
  <1>3. CASE /\ Second = Closer(kind) /\ heap' = [heap EXCEPT ![item].type = kind]
             /\ offset' = offset + 2 /\ at' = "after" /\ stack' = stack
    <2>2. PICK e \in Nat : e = offset + 2
      BY <1>1, InnerFacts DEF Working
    <2>3. PICK p \in [Nat -> Span], q \in [Nat -> Span], x \in DOMAIN heap :
             /\ x = item /\ Spans(p) /\ Notes(q, p, x, Ended(p, x, e))
             /\ q[x].start = offset + 1 /\ q[x].end = e
             /\ heap[x] \in Item /\ heap[x].child = Null
             /\ offset \in Nat /\ input \in Seq(Tokens)
      BY <1>1, ItemEnded
    <2>4. /\ DOMAIN heap' = DOMAIN heap /\ \A n \in DOMAIN heap : n # x => heap'[n] = heap[n]
          /\ heap'[x].next = heap[x].next /\ heap'[x].type = kind /\ heap'[x].child = Null
      BY <1>3, <2>3 DEF Item
    <2>5. Token(e) = Closer(kind) /\ e <= Len(input) /\ Token(e) # "end"
      <3>1. Token(e) = Closer(kind) /\ Token(e) # "end"
        BY <1>1, <1>3, <2>2, Brackets DEF Containers
      <3> QED BY <2>2, <2>3, <3>1, TokenPlaces
    <2>6. Whole(q, x)'
      <3>1. e = (offset + 1) + 1 /\ offset + 1 <= e
        BY <2>2, <2>3
      <3> QED BY <1>1, <2>2, <2>3, <2>4, <2>5, <3>1, SameGrammar DEF Whole
    <2>7. Spans(q)'
      BY <1>1, <1>3, <2>2, <2>3, <2>4, <2>6, ValueEnded
    <2> QED BY <2>7 DEF TreeInv
  <1>4. CASE /\ heap' = heap /\ offset' = offset + 1 /\ at' = "element"
             /\ stack' = Append(stack, [kind |-> kind, item |-> item,
                                        head |-> Null, current |-> Null])
    <2>1. PICK p \in [Nat -> Span] : Spans(p)
      BY <1>1, SpansFound DEF Working
    <2>2. Spans(p)'
      BY <1>1, <1>4, <2>1, SpanOpened
    <2> QED BY <2>2 DEF TreeInv
  <1> QED BY <1>2, <1>3, <1>4 DEF Open

LEMMA NotedIn ==
    ASSUME NEW S, NEW s \in [Nat -> S], NEW k \in Nat, NEW v \in S
    PROVE  \E t \in [Nat -> S] : Notes(t, s, k, v)
  <1> DEFINE t == [s EXCEPT ![k] = v]
  <1>1. t \in [Nat -> S] /\ Notes(t, s, k, v)
    BY DEF Notes
  <1> QED BY <1>1

\* The list of the innermost container becomes longer by item m.
Grown(m, u) ==
    /\ DOMAIN heap' = DOMAIN heap \cup {m}
    /\ heap'[m].next = Null /\ heap'[m].child = Null
    /\ \A n \in DOMAIN heap :
          /\ heap'[n].type = heap[n].type /\ heap'[n].child = heap[n].child
          /\ heap'[n].next = IF n = u THEN m ELSE heap[n].next

LEMMA HeapGrown ==
    ASSUME MemoryInv, Working, NEW u, AllocateItem(u), NEW m, m = Fresh
    PROVE  m \in Nat /\ (\A n \in DOMAIN heap : n < m) /\ Grown(m, u)
  <1>1. /\ heap \in [DOMAIN heap -> Item] /\ names \in Nat /\ DOMAIN heap \subseteq 1 .. names
        /\ m = names + 1
    BY DEF MemoryInv, TypeOK, Fresh
  <1>2. m \in Nat /\ \A n \in DOMAIN heap : n < m
    BY <1>1
  <1>3. heap' = [n \in DOMAIN heap \cup {m} |->
                   IF n = m THEN NewItem
                   ELSE IF n = u THEN [heap[n] EXCEPT !.next = m]
                   ELSE heap[n]]
    BY DEF AllocateItem
  <1>4. DOMAIN heap' = DOMAIN heap \cup {m} /\ heap'[m] = NewItem
    BY <1>3
  <1>5. ASSUME NEW n \in DOMAIN heap
        PROVE  /\ heap'[n].type = heap[n].type /\ heap'[n].child = heap[n].child
               /\ heap'[n].next = IF n = u THEN m ELSE heap[n].next
    <2>1. heap[n] \in Item /\ n # m
      BY <1>1
    <2>2. heap'[n] = IF n = u THEN [heap[n] EXCEPT !.next = m] ELSE heap[n]
      BY <1>3, <2>1
    <2> QED BY <2>1, <2>2 DEF Item
  <1> QED BY <1>2, <1>4, <1>5, ItemFacts DEF Grown

\* The stack when an element has been enlisted.
Listed(m) ==
    /\ DOMAIN stack' = DOMAIN stack /\ Inner' = Inner /\ Top' = stack'[Inner]
    /\ \A k \in DOMAIN stack : k # Inner => stack'[k] = stack[k]
    /\ stack'[Inner].kind = Top.kind /\ stack'[Inner].item = Top.item
    /\ stack'[Inner].head = (IF Top.head = Null THEN m ELSE Top.head)
    /\ stack'[Inner].current = m

LEMMA StackListed ==
    ASSUME MemoryInv, Working, stack # << >>, stack' = Append(Pop, Enlist(Top)),
           NEW m \in Nat, m = Fresh
    PROVE  Listed(m)
  <1>1. PICK new : new = Enlist(Top)
    OBVIOUS
  <1>2. Top \in Activation /\ Inner \in DOMAIN stack /\ Top = stack[Inner]
        /\ Inner \in Nat \ {0} /\ DOMAIN stack = 1 .. Inner
    BY InnerFacts, StackFacts DEF MemoryInv
  <1>3. /\ new \in Activation /\ new.kind = Top.kind /\ new.item = Top.item
        /\ new.head = (IF Top.head = Null THEN m ELSE Top.head)
        /\ new.current = m
    BY <1>1, <1>2 DEF Enlist, Activation
  <1>4. /\ Pop \in Seq(Activation) /\ Len(Pop) = Inner - 1
        /\ DOMAIN Pop = DOMAIN stack \ {Inner} /\ \A k \in DOMAIN Pop : Pop[k] = stack[k]
    BY StackFacts DEF MemoryInv, Inner
  <1>5. Longer(Append(Pop, new), Pop, new)
    BY <1>3, <1>4, OneMore
  <1>6. (Inner - 1) + 1 = Inner
    BY <1>2
  <1>7. /\ Len(stack') = Inner /\ DOMAIN stack' = 1 .. Inner /\ stack'[Inner] = new
        /\ \A k \in DOMAIN Pop : stack'[k] = Pop[k]
    BY <1>1, <1>4, <1>5, <1>6 DEF Longer
  <1>8. Top' = stack'[Inner] /\ Inner' = Inner
    BY <1>7 DEF Top, Inner
  <1> QED BY <1>2, <1>3, <1>4, <1>7, <1>8 DEF Listed

\* A container starts before what it holds so far ends.
LEMMA StartsBefore ==
    ASSUME NEW p \in [Nat -> Span], AllPlaced(p), NEW a, OpenSpan(p, a), offset \in Nat, at # "key",
           DOMAIN heap \subseteq Nat \ {Null}, a.item \in DOMAIN heap,
           IF a.head = Null THEN offset = p[a.item].start
           ELSE /\ a.current \in DOMAIN heap /\ a.current \notin Pending
                /\ p[a.current].end + 1 = offset
    PROVE  p[a.item].start < offset + 1
  <1>1. p[a.item].start \in Nat
    BY SpanFields
  <1>2. CASE a.head = Null
    BY <1>1, <1>2
  <1>3. CASE a.head # Null
    <2>1. PICK c \in DOMAIN heap : c = a.current /\ c \notin Pending /\ p[c].end + 1 = offset
      BY <1>3
    <2>2. /\ p[c].from \in Nat /\ p[c].start \in Nat /\ p[c].end \in Nat
          /\ p[a.item] \in Span
      <3>1. p[c] \in Span
        BY <2>1
      <3> QED BY <3>1, SpanFields
    <2>3. p[c].parent = a.item /\ a.item # Null
      BY <1>3, <2>1 DEF OpenSpan
    <2>4. Descends(p, c) /\ Led(p, c) /\ Whole(p, c)
      BY <2>1 DEF AllPlaced, Placed
    <2>5. p[a.item].start < p[c].from
      BY <2>3, <2>4 DEF Descends
    <2>6. p[c].from <= p[c].start
      BY <2>2, <2>4 DEF Led
    <2>7. p[c].start <= p[c].end
      BY <2>4 DEF Whole
    <2> QED BY <1>1, <2>1, <2>2, <2>5, <2>6, <2>7
  <1> QED BY <1>2, <1>3

LEMMA SpanEnlisted ==
    ASSUME MemoryInv, NEW p \in [Nat -> Span], Spans(p), at = "element", stack # << >>,
           NEW m \in Nat, \A n \in DOMAIN heap : n < m, Grown(m, Top.current), Listed(m),
           item' = m, UNCHANGED <<input, offset, root>>,
           at' = IF Top.kind = "array" THEN "value" ELSE "key"
    PROVE  \E q \in [Nat -> Span] : Spans(q)'
  <1>1. Working /\ at \notin {"value", "key"} /\ at' \in {"value", "key"}
    BY DEF Working
  <1>2. PICK a : a = Top
    OBVIOUS
  <1>3. /\ Inner \in Nat /\ DOMAIN stack = 1 .. Inner /\ Inner \in DOMAIN stack
        /\ a = stack[Inner] /\ offset \in Nat /\ a.kind \in Containers
    BY <1>1, <1>2, InnerFacts
  <1>4. /\ a.item \in DOMAIN heap /\ a.item \in Nat /\ a.item # Null /\ a.item # m
        /\ a.head # Null => a.head \in DOMAIN heap /\ a.current \in DOMAIN heap
        /\ a.head = Null => a.current = Null
        /\ DOMAIN heap \subseteq Nat \ {Null} /\ m \notin DOMAIN heap
    BY <1>1, <1>3, HeapAtWork
  <1> DEFINE new == [from |-> offset + 1,
                     start |-> IF a.kind = "array" THEN offset + 1 ELSE offset + 3,
                     end |-> 0, parent |-> a.item, keyed |-> a.kind = "object"]
  <1>5. PICK q \in [Nat -> Span] :
           /\ \A n \in DOMAIN heap : q[n] = p[n]
           /\ q[m].from = offset + 1 /\ q[m].parent = a.item
           /\ q[m].keyed = (a.kind = "object")
           /\ q[m].start = IF a.kind = "array" THEN offset + 1 ELSE offset + 3
    <2>1. new \in Span
      BY <1>3, <1>4 DEF Span
    <2>2. PICK v \in Span : v = new
      BY <2>1
    <2>3. PICK q \in [Nat -> Span] : Notes(q, p, m, v)
      BY NotedIn
    <2>4. q[m] = v /\ \A n \in DOMAIN heap : q[n] = p[n]
      BY <1>4, <2>3 DEF Notes
    <2> QED BY <2>2, <2>4
  <1> HIDE DEF new
  <1>6. /\ \A i : Token(i)' = Token(i)
        /\ \A n \in DOMAIN heap' : n # m => n \in DOMAIN heap
        /\ m \in DOMAIN heap' /\ heap'[m].next = Null /\ heap'[m].child = Null
        /\ \A n \in DOMAIN heap :
              /\ n # m /\ n \in DOMAIN heap'
              /\ heap'[n].type = heap[n].type /\ heap'[n].child = heap[n].child
              /\ heap'[n].next = IF n = a.current THEN m ELSE heap[n].next
    BY <1>2, <1>4, SameGrammar DEF Grown
  <1>7. /\ DOMAIN stack' = DOMAIN stack /\ Inner' = Inner /\ stack'[Inner] = Top'
        /\ \A k \in DOMAIN stack : k # Inner => stack'[k] = stack[k]
        /\ Top'.kind = a.kind /\ Top'.item = a.item /\ Top'.current = m
        /\ Top'.head = (IF a.head = Null THEN m ELSE a.head)
        /\ stack' # << >>
    BY <1>2, <1>3 DEF Listed
  <1>8. Pending' = Pending \cup {m} /\ a.item \in Pending
    <2>1. Pending = {stack[k].item : k \in DOMAIN stack}
      BY <1>1 DEF Pending
    <2>2. \A k \in DOMAIN stack : stack'[k].item = stack[k].item
      BY <1>3, <1>7
    <2>3. Pending' = {stack[k].item : k \in DOMAIN stack} \cup {m}
      BY <1>1, <1>7, <2>2 DEF Pending
    <2> QED BY <1>3, <2>1, <2>3
  <1>9. /\ a.head # Null => /\ a.current \notin Pending /\ p[a.current].end + 1 = offset
                            /\ Token(offset) = ","
        /\ a.head = Null => offset = p[a.item].start
    BY <1>2 DEF Spans, Located
  <1>10. OpenSpan(p, a)
    BY <1>3 DEF Spans
  <1>11. ASSUME NEW n \in DOMAIN heap PROVE Placed(q, n)'
    <2>1. /\ Descends(p, n) /\ Followed(p, n) /\ Inside(p, n) /\ Led(p, n)
          /\ n \in Pending \/ Whole(p, n)
      BY <1>1 DEF Spans, AllPlaced, Placed
    <2>2. q[n] = p[n]
      BY <1>5
    <2>3. Descends(q, n)'
      BY <1>5, <1>6, <2>1, <2>2 DEF Descends
    <2>4. Followed(q, n)'
      <3>1. CASE n = a.current
        <4>1. a.head # Null
          BY <1>4, <3>1
        <4>2. /\ p[n].parent = a.item /\ p[n].keyed = (a.kind = "object")
              /\ n \notin Pending /\ p[n].end + 1 = offset /\ Token(offset) = ","
          BY <1>9, <1>10, <3>1, <4>1 DEF OpenSpan
        <4>3. heap'[n].next = m /\ n \notin Pending'
          BY <1>6, <1>8, <3>1, <4>2
        <4>4. q[m].from = p[n].end + 2
          <5>0. n \in Nat
            BY <1>4
          <5>1. p[n] \in Span
            BY <5>0
          <5>2. p[n].end \in Nat
            BY <5>1, SpanFields
          <5>3. q[m].from = offset + 1 /\ p[n].end + 1 = offset
            BY <1>5, <4>2
          <5> QED BY <5>2, <5>3
        <4> QED BY <1>5, <1>6, <2>2, <4>2, <4>3, <4>4 DEF Followed
      <3>2. CASE n # a.current
        <4> SUFFICES ASSUME heap[n].next # Null PROVE Followed(q, n)'
          BY <1>6, <3>2 DEF Followed
        <4>1. heap[n].next \in DOMAIN heap
          BY <1>1, HeapAtWork
        <4>2. q[heap[n].next] = p[heap[n].next]
          BY <1>5, <4>1
        <4>3. heap'[n].next = heap[n].next /\ (n \notin Pending => n \notin Pending')
          BY <1>6, <1>8, <3>2
        <4> QED BY <1>6, <2>1, <2>2, <4>2, <4>3 DEF Followed
      <3> QED BY <3>1, <3>2
    <2>5. Inside(q, n)'
      <3> SUFFICES ASSUME p[n].parent # Null, p[n].parent \notin Pending'
                   PROVE  /\ n \notin Pending'
                          /\ heap'[n].next = Null => q[q[n].parent].end = q[n].end + 1
        BY <2>2 DEF Inside
      <3>1. p[n].parent \in DOMAIN heap /\ p[n].parent \notin Pending /\ p[n].parent # a.item
        BY <1>8, <2>1 DEF Descends
      <3>2. n # a.current
        BY <1>4, <1>10, <3>1 DEF OpenSpan
      <3>3. heap'[n].next = heap[n].next /\ q[p[n].parent] = p[p[n].parent]
        BY <1>5, <1>6, <3>1, <3>2
      <3> QED BY <1>6, <1>8, <2>1, <2>2, <3>1, <3>3 DEF Inside
    <2>6. Led(q, n)'
      BY <1>6, <2>1, <2>2 DEF Led
    <2>7. n \in Pending' \/ Whole(q, n)'
      <3>1. CASE n \in Pending
        BY <1>8, <3>1
      <3>2. CASE n \notin Pending
        <4>1. heap[n].child # Null => q[heap[n].child] = p[heap[n].child]
          BY <1>1, <1>5, HeapAtWork
        <4> QED BY <1>6, <2>1, <2>2, <3>2, <4>1 DEF Whole
      <3> QED BY <3>1, <3>2
    <2> QED BY <2>3, <2>4, <2>5, <2>6, <2>7 DEF Placed
  <1>12. Placed(q, m)'
    <2>0. p[a.item].start < offset + 1
      <3>1. AllPlaced(p) /\ at # "key"
        BY DEF Spans
      <3>2. a.head # Null => p[a.current].end + 1 = offset
        BY <1>9
      <3> QED BY <1>3, <1>4, <1>9, <1>10, <3>1, <3>2, StartsBefore
    <2>1. Descends(q, m)'
      BY <1>4, <1>5, <1>6, <2>0 DEF Descends
    <2>2. Followed(q, m)' /\ Inside(q, m)'
      BY <1>5, <1>6, <1>8 DEF Followed, Inside
    <2>3. (at' = "key" /\ m = item') \/ Led(q, m)'
      <3>1. CASE a.kind = "array"
        <4>1. q[m].start = q[m].from /\ q[m].from # 0
          BY <1>3, <1>5, <3>1
        <4>2. a.kind # "object"
          BY <3>1
        <4>3. q[m].keyed = FALSE
          BY <1>5, <4>2
        <4> QED BY <4>1, <4>3 DEF Led
      <3>2. CASE a.kind # "array"
        BY <1>2, <3>2
      <3> QED BY <3>1, <3>2
    <2> QED BY <1>8, <2>1, <2>2, <2>3 DEF Placed
  <1>13. AllPlaced(q)'
    BY <1>6, <1>11, <1>12 DEF AllPlaced
  <1>14. RootSpan(q)'
    <2>1. RootSpan(p)
      BY DEF Spans
    <2>2. root # a.current
      BY <1>4, <1>10, <2>1 DEF OpenSpan, RootSpan
    <2> QED BY <1>5, <1>6, <2>1, <2>2 DEF RootSpan
  <1>15. Chained'
    <2>1. ASSUME NEW k \in DOMAIN stack
          PROVE  stack'[k].item = IF k = 1 THEN root ELSE stack'[k - 1].current
      <3>1. stack'[k].item = stack[k].item
        BY <1>3, <1>7
      <3>2. k # 1 => k - 1 \in DOMAIN stack /\ k - 1 # Inner
        BY <1>3
      <3> QED BY <1>7, <3>1, <3>2 DEF Spans, Chained
    <2> QED BY <1>7, <2>1 DEF Chained
  <1>16. ASSUME NEW k \in DOMAIN stack PROVE OpenSpan(q, stack[k])'
    <2>1. CASE k = Inner
      <3>1. PICK b : b = Top'
        OBVIOUS
      <3>2. /\ b.kind = a.kind /\ b.item = a.item /\ b.current = m
            /\ b.head = (IF a.head = Null THEN m ELSE a.head) /\ b.head # Null
        BY <1>7, <3>1, <1>4 DEF Null
      <3>3. Token(q[b.item].start)' = Opener(b.kind)
        BY <1>4, <1>5, <1>6, <1>10, <3>2 DEF OpenSpan
      <3>4. ASSUME NEW n \in DOMAIN heap', q[n].parent = b.item
            PROVE  q[n].keyed = (b.kind = "object") /\ (heap'[n].next = Null => n = b.current)
        <4>1. CASE n = m
          BY <1>5, <3>2, <4>1
        <4>2. CASE n # m
          <5>1. n \in DOMAIN heap /\ q[n] = p[n]
            BY <1>5, <1>6, <4>2
          <5>2. /\ a.head # Null /\ p[n].keyed = (a.kind = "object")
                /\ heap[n].next = Null => n = a.current
            BY <1>10, <3>2, <3>4, <5>1 DEF OpenSpan
          <5>3. heap'[n].next # Null
            BY <1>4, <1>6, <5>1, <5>2 DEF Null
          <5> QED BY <3>2, <5>1, <5>2, <5>3
        <4> QED BY <4>1, <4>2
      <3>5. q[b.head].from = q[b.item].start + 1 /\ q[b.head].parent = b.item
        BY <1>4, <1>5, <1>9, <1>10, <3>2 DEF OpenSpan
      <3>6. q[b.current].parent = b.item
        BY <1>5, <3>2
      <3>7. OpenSpan(q, b)'
        BY <3>2, <3>3, <3>4, <3>5, <3>6 DEF OpenSpan
      <3> QED BY <1>7, <2>1, <3>1, <3>7
    <2>2. CASE k # Inner
      <3>1. PICK b : b = stack[k]
        OBVIOUS
      <3>2. OpenSpan(p, b) /\ stack'[k] = b
        BY <1>7, <2>2, <3>1 DEF Spans
      <3>3. b.item \in DOMAIN heap /\ b.item # a.item /\ b.head # Null
            /\ b.head \in DOMAIN heap /\ b.current \in DOMAIN heap
        <4>1. k < Inner
          BY <1>3, <2>2
        <4>2. stack[k].head # Null /\ stack[k].item < stack[Inner].item
          BY <1>1, <1>3, <4>1, HeapAtWork
        <4> QED BY <1>1, <1>3, <1>4, <3>1, <4>2, HeapAtWork
      <3>4. ASSUME NEW n \in DOMAIN heap', q[n].parent = b.item
            PROVE  q[n].keyed = (b.kind = "object") /\ (heap'[n].next = Null => n = b.current)
        <4>1. n \in DOMAIN heap /\ q[n] = p[n]
          BY <1>5, <1>6, <3>3, <3>4
        <4>2. /\ p[n].keyed = (b.kind = "object")
              /\ heap[n].next = Null => n = b.current
          BY <3>2, <3>4, <4>1 DEF OpenSpan
        <4>3. heap'[n].next = Null => heap[n].next = Null
          BY <1>4, <1>6, <4>1 DEF Null
        <4> QED BY <4>1, <4>2, <4>3
      <3>5. /\ q[b.item] = p[b.item] /\ q[b.head] = p[b.head] /\ q[b.current] = p[b.current]
        BY <1>5, <3>3
      <3>6. OpenSpan(q, b)'
        BY <1>6, <3>2, <3>3, <3>4, <3>5 DEF OpenSpan
      <3> QED BY <3>2, <3>6
    <2> QED BY <2>1, <2>2
  <1>17. Located(q)'
    <2>1. Latest' = m /\ at' \notin {"element", "after", "parsed"}
      BY <1>1, <1>7 DEF Latest
    <2>2. ASSUME NEW n \in DOMAIN heap' PROVE q[n].parent # m
      <3>1. CASE n = m
        BY <1>4, <1>5, <3>1
      <3>2. CASE n # m
        <4>1. n \in DOMAIN heap /\ q[n] = p[n] /\ Descends(p, n)
          BY <1>5, <1>6, <3>2 DEF Spans, AllPlaced, Placed
        <4>2. p[n].parent # Null => p[n].parent \in DOMAIN heap
          BY <4>1 DEF Descends
        <4>3. a.item < m
          BY <1>4
        <4>4. m # Null
          BY <1>4, <4>3 DEF Null
        <4> QED BY <1>4, <4>1, <4>2, <4>4
      <3> QED BY <3>1, <3>2
    <2>3. at' = "value" => a.kind = "array"
      BY <1>2
    <2>4. at' = "key" => a.kind = "object"
      BY <1>2, <1>3 DEF Containers
    <2> QED BY <1>5, <1>7, <2>1, <2>2, <2>3, <2>4 DEF Located
  <1> QED BY <1>7, <1>13, <1>14, <1>15, <1>16, <1>17 DEF Spans

LEMMA TreeElement == ASSUME MemoryInv, TreeInv, Element PROVE TreeInv'
  <1>1. at = "element" /\ Working /\ stack # << >> /\ UNCHANGED <<input, offset, root>>
    BY DEF Element, Working, MemoryInv, Shape
  <1>2. CASE at' = "fail"
    BY <1>2, TreeFails
  <1>3. CASE /\ AllocateItem(Top.current) /\ stack' = Append(Pop, Enlist(Top)) /\ item' = Fresh
             /\ at' = IF Top.kind = "array" THEN "value" ELSE "key"
    <2>1. PICK p \in [Nat -> Span] : Spans(p)
      BY <1>1, SpansFound
    <2>2. PICK m : m = Fresh
      OBVIOUS
    <2>3. m \in Nat /\ (\A n \in DOMAIN heap : n < m) /\ Grown(m, Top.current)
      BY <1>1, <1>3, <2>2, HeapGrown
    <2>4. Listed(m)
      BY <1>1, <1>3, <2>2, <2>3, StackListed
    <2>5. \E q \in [Nat -> Span] : Spans(q)'
      BY <1>1, <1>3, <2>1, <2>2, <2>3, <2>4, SpanEnlisted
    <2> QED BY <2>5 DEF TreeInv
  <1> QED BY <1>2, <1>3 DEF Element, OutOfMemory

\* The key and the colon are read.
LEMMA SpanKeyed ==
    ASSUME MemoryInv, NEW p \in [Nat -> Span], Spans(p), at = "key", at' = "value",
           Token(offset + 1) = "text", Token(offset + 2) = ":", offset' = offset + 2,
           UNCHANGED <<input, stack, item, root>>, NEW x \in DOMAIN heap, x = item,
           DOMAIN heap' = DOMAIN heap, \A n \in DOMAIN heap : n # x => heap'[n] = heap[n],
           heap'[x].next = heap[x].next
    PROVE  Spans(p)'
  <1>1. Working /\ offset \in Nat /\ stack # << >>
    BY InnerFacts, AtWork DEF Working
  <1>2. /\ \A n \in DOMAIN heap : heap'[n].next = heap[n].next
        /\ \A i : Token(i)' = Token(i)
        /\ Pending' = Pending /\ x \in Pending
    BY SameGrammar DEF Pending
  <1>3. /\ x = Latest /\ (\A n \in DOMAIN heap : p[n].parent # x) /\ Top.kind = "object"
        /\ p[x].from = offset + 1 /\ p[x].start = offset + 3
    BY DEF Spans, Located
  <1>4. p[x].keyed = TRUE
    <2>1. PICK a : a = Top
      OBVIOUS
    <2>2. OpenSpan(p, a) /\ a.head # Null /\ a.current = x
      BY <1>1, <2>1, ItemAtWork DEF Spans
    <2>3. p[x].parent = a.item
      BY <2>2 DEF OpenSpan
    <2> QED BY <1>3, <2>1, <2>2, <2>3 DEF OpenSpan
  <1>5. Led(p, x)'
    <2>1. p[x].from # 0 /\ p[x].start = p[x].from + 2
          /\ Token(p[x].from) = "text" /\ Token(p[x].from + 1) = ":"
      <3>1. offset + 3 = (offset + 1) + 2 /\ offset + 2 = (offset + 1) + 1 /\ offset + 1 # 0
        BY <1>1
      <3> QED BY <1>3, <3>1
    <2> QED BY <1>2, <1>4, <2>1 DEF Led
  <1>6. ASSUME NEW n \in DOMAIN heap PROVE Placed(p, n)'
    <2>1. /\ Descends(p, n) /\ Followed(p, n) /\ Inside(p, n)
          /\ n # x => Led(p, n)
          /\ n \in Pending \/ Whole(p, n)
      BY DEF Spans, AllPlaced, Placed
    <2>2. Descends(p, n)' /\ Followed(p, n)' /\ Inside(p, n)'
      BY <1>2, <2>1 DEF Descends, Followed, Inside
    <2>3. Led(p, n)'
      BY <1>2, <1>5, <2>1 DEF Led
    <2>4. n \notin Pending => Whole(p, n)'
      BY <1>2, <2>1 DEF Whole
    <2> QED BY <1>2, <2>2, <2>3, <2>4 DEF Placed
  <1>7. AllPlaced(p)'
    BY <1>6 DEF AllPlaced
  <1>8. RootSpan(p)' /\ Chained'
    BY <1>2 DEF Spans, RootSpan, Chained
  <1>9. ASSUME NEW k \in DOMAIN stack PROVE OpenSpan(p, stack[k])'
    <2>1. PICK a : a = stack[k]
      OBVIOUS
    <2>2. OpenSpan(p, a)
      BY <2>1 DEF Spans
    <2>3. OpenSpan(p, a)'
      BY <1>2, <2>2 DEF OpenSpan
    <2> QED BY <2>1, <2>3
  <1>10. Located(p)'
    <2>1. Latest' = Latest /\ offset + 3 = offset' + 1
      BY <1>1 DEF Latest, Top
    <2> QED BY <1>3, <2>1 DEF Located
  <1> QED BY <1>7, <1>8, <1>9, <1>10 DEF Spans

LEMMA TreeKey == ASSUME MemoryInv, TreeInv, Key PROVE TreeInv'
  <1>1. /\ at = "key" /\ Working /\ UNCHANGED <<input, stack, item, root>>
        /\ Peek = Token(offset + 1) /\ Second = Token(offset + 2)
    BY DEF Key, Working, Peek, Second
  <1>2. CASE at' = "fail"
    BY <1>2, TreeFails
  <1>3. CASE /\ Peek = "text" /\ Second = ":" /\ AllocateText(Keyed(heap[item]))
             /\ offset' = offset + 2 /\ at' = "value"
    <2>1. PICK p \in [Nat -> Span] : Spans(p)
      BY <1>1, SpansFound
    <2>2. PICK x \in DOMAIN heap : x = item
      BY <1>1, ItemAtWork
    <2>3. heap[x] \in Item
      BY <1>1, HeapAtWork
    <2>4. Keyed(heap[x]).next = heap[x].next
      BY <2>3 DEF Item, Keyed
    <2>5. /\ DOMAIN heap' = DOMAIN heap /\ \A n \in DOMAIN heap : n # x => heap'[n] = heap[n]
          /\ heap'[x].next = heap[x].next
      BY <1>3, <2>2, <2>4 DEF AllocateText
    <2>6. Spans(p)'
      BY <1>1, <1>3, <2>1, <2>2, <2>5, SpanKeyed
    <2> QED BY <2>6 DEF TreeInv
  <1> QED BY <1>2, <1>3 DEF Key, OutOfMemory

LEMMA TreeFollows ==
    ASSUME MemoryInv, NEW p \in [Nat -> Span], Spans(p), at = "after", stack # << >>,
           Peek = ",", offset' = offset + 1, at' = "element",
           UNCHANGED <<input, stack, item, root, heap>>
    PROVE  Spans(p)'
  <1>1. Working /\ offset \in Nat
    BY InnerFacts DEF Working
  <1>2. Pending' = Pending /\ (\A i : Token(i)' = Token(i)) /\ Top' = Top
    BY SameGrammar DEF Pending, Top
  <1>3. ASSUME NEW n \in DOMAIN heap PROVE Placed(p, n)'
    <2>1. /\ Descends(p, n) /\ Followed(p, n) /\ Inside(p, n) /\ Led(p, n)
          /\ n \in Pending \/ Whole(p, n)
      BY DEF Spans, AllPlaced, Placed
    <2> QED BY <1>2, <2>1 DEF Placed, Descends, Followed, Inside, Led, Whole
  <1>4. AllPlaced(p)'
    BY <1>3 DEF AllPlaced
  <1>5. RootSpan(p)' /\ Chained'
    BY DEF Spans, RootSpan, Chained
  <1>6. ASSUME NEW k \in DOMAIN stack PROVE OpenSpan(p, stack[k])'
    <2>1. PICK a : a = stack[k]
      OBVIOUS
    <2>2. OpenSpan(p, a)
      BY <2>1 DEF Spans
    <2>3. OpenSpan(p, a)'
      BY <1>2, <2>2 DEF OpenSpan
    <2> QED BY <2>1, <2>3
  <1>7. Located(p)'
    <2>1. Latest = Top.current /\ Top.head # Null /\ Latest \notin Pending /\ p[Latest].end = offset
      BY DEF Latest, Spans, Located
    <2>2. Token(offset') = ","
      BY DEF Peek
    <2> QED BY <1>2, <2>1, <2>2 DEF Located
  <1> QED BY <1>4, <1>5, <1>6, <1>7 DEF Spans

\* The innermost container has been closed: its item, the list of its elements
\* and the activations that stay.
LEMMA Closed ==
    ASSUME MemoryInv, NEW p \in [Nat -> Span], Spans(p), at = "after", stack # << >>,
           at' = "after", stack' = Pop, UNCHANGED root
    PROVE  LET x == Top.item
           IN  /\ x \in DOMAIN heap /\ x \in Pending /\ Pending' = Pending \ {x}
               /\ \A k \in DOMAIN stack' : k \in DOMAIN stack /\ k < Inner /\ stack'[k] = stack[k]
               /\ Chained' /\ Latest' = x
               /\ stack' # << >> => Top.head' # Null
  <1>1. Working /\ at \notin {"value", "key"}
    BY DEF Working
  <1>2. PICK k \in Nat \ {0} : k = Inner
    BY <1>1, InnerFacts
  <1>3. PICK x : x = Top.item
    OBVIOUS
  <1>4. DOMAIN stack = 1 .. k /\ k \in DOMAIN stack /\ x = stack[k].item /\ x \in DOMAIN heap
    BY <1>1, <1>2, <1>3, InnerFacts, HeapAtWork
  <1>5. /\ Inner' = k - 1 /\ DOMAIN stack' = 1 .. k - 1
        /\ \A l \in DOMAIN stack' : stack'[l] = stack[l] /\ l \in DOMAIN stack /\ l < k
        /\ \A l \in DOMAIN stack : l # k => l \in DOMAIN stack'
    <2>1. /\ Len(Pop) = Inner - 1 /\ DOMAIN Pop = DOMAIN stack \ {Inner}
          /\ \A l \in DOMAIN Pop : Pop[l] = stack[l]
      BY StackFacts DEF MemoryInv, Inner
    <2>2. 1 .. k - 1 = (1 .. k) \ {k} /\ \A l \in 1 .. k - 1 : l < k
      BY ONLY k \in Nat \ {0}
    <2> QED BY <1>2, <1>4, <2>1, <2>2 DEF Inner
  <1>6. Pending = {stack[l].item : l \in DOMAIN stack}
        /\ Pending' = {stack[l].item : l \in DOMAIN stack'}
    BY <1>1, <1>5 DEF Pending
  <1>7. \A l \in DOMAIN stack' : stack[l].item # x
    <2>1. ASSUME NEW l \in DOMAIN stack' PROVE stack[l].item # x
      <3>1. /\ stack[l].item < stack[k].item
            /\ stack[l].item \in Nat /\ stack[k].item \in Nat
        BY <1>1, <1>4, <1>5, HeapAtWork
      <3> QED BY <1>4, <3>1
    <2> QED BY <2>1
  <1>8. x \in Pending /\ Pending' = Pending \ {x}
    BY <1>4, <1>5, <1>6, <1>7
  <1>9. Chained'
    <2>1. ASSUME NEW l \in DOMAIN stack'
          PROVE  stack'[l].item = IF l = 1 THEN root ELSE stack'[l - 1].current
      <3>1. l # 1 => l - 1 \in DOMAIN stack'
        BY <1>5
      <3> QED BY <1>5, <3>1 DEF Spans, Chained
    <2> QED BY <2>1 DEF Chained
  <1>10. CASE k = 1
    <2>1. stack' = << >>
      <3>1. Pop \in Seq(Activation) /\ Len(Pop) = 0
        BY <1>2, <1>10, StackFacts DEF MemoryInv, Inner
      <3> QED BY <3>1
    <2>2. Latest' = root
      BY <2>1 DEF Latest
    <2>3. x = root
      BY <1>4, <1>10 DEF Spans, Chained
    <2> QED BY <1>2, <1>3, <1>4, <1>5, <1>8, <1>9, <2>1, <2>2, <2>3
  <1>11. CASE k # 1
    <2>1. k - 1 \in DOMAIN stack' /\ stack' # << >>
      BY <1>5, <1>11
    <2>2. Top' = stack[k - 1]
      BY <1>5, <2>1 DEF Top, Inner
    <2>3. stack[k - 1].head # Null
      BY <1>1, <1>4, <1>5, <2>1, HeapAtWork
    <2>4. x = stack[k - 1].current
      BY <1>4, <1>11 DEF Spans, Chained
    <2>5. Latest' = x
      BY <2>1, <2>2, <2>4 DEF Latest
    <2> QED BY <1>2, <1>3, <1>4, <1>5, <1>8, <1>9, <2>2, <2>3, <2>5
  <1> QED BY <1>10, <1>11

\* The closer of the innermost container is read.
LEMMA SpanClosed ==
    ASSUME MemoryInv, NEW p \in [Nat -> Span], Spans(p), at = "after", stack # << >>,
           Peek = Closer(Top.kind), offset' = offset + 1, at' = "after", stack' = Pop,
           heap' = [heap EXCEPT ![Top.item] = [@ EXCEPT !.type = Top.kind, !.child = Top.head]],
           UNCHANGED <<input, item, root>>
    PROVE  \E q \in [Nat -> Span] : Spans(q)'
  <1>1. Working /\ at # "key" /\ at' \notin {"value", "element", "key"}
    BY DEF Working
  <1> PICK a : a = Top
    OBVIOUS
  <1> PICK h : h = a.head
    OBVIOUS
  <1>2. PICK x \in DOMAIN heap, c \in DOMAIN heap, e \in Nat, k \in DOMAIN stack :
           /\ a = Top /\ x = a.item /\ h = a.head /\ c = a.current /\ e = offset + 1
           /\ k = Inner /\ a = stack[k]
    <2>1. Inner \in DOMAIN stack /\ Top = stack[Inner] /\ offset + 1 \in Nat
      BY <1>1, InnerFacts
    <2>2. Top.head # Null
      BY DEF Spans, Located
    <2>3. PICK k \in DOMAIN stack : k = Inner
      BY <2>1
    <2>4. /\ stack[k].item \in DOMAIN heap /\ stack[k].current \in DOMAIN heap
          /\ Top = stack[k]
      BY <1>1, <2>1, <2>2, <2>3, HeapAtWork
    <2>6. PICK x \in DOMAIN heap, c \in DOMAIN heap, e \in Nat :
             x = a.item /\ c = a.current /\ e = offset + 1
      BY <2>1, <2>4
    <2>7. k = Inner /\ a = stack[k]
      BY <2>3, <2>4
    <2> QED BY <2>6, <2>7
  <1>3. /\ h \in DOMAIN heap /\ h # Null /\ a.kind \in Containers /\ heap[x] \in Item
        /\ input \in Seq(Tokens) /\ offset \in Nat /\ x \in Nat /\ x # Null
        /\ DOMAIN heap \subseteq Nat \ {Null} /\ c = Latest
        /\ \A n \in DOMAIN heap : {heap[n].next, heap[n].child} \subseteq DOMAIN heap \cup {Null}
    <2>1. Top.head # Null
      BY DEF Spans, Located
    <2> QED BY <1>1, <1>2, <2>1, HeapAtWork, InnerFacts DEF Latest
  <1>4. /\ DOMAIN heap' = DOMAIN heap /\ \A n \in DOMAIN heap : n # x => heap'[n] = heap[n]
        /\ heap'[x].next = heap[x].next /\ heap'[x].type = a.kind /\ heap'[x].child = h
    BY <1>2, <1>3 DEF Item
  <1>5. PICK q \in [Nat -> Span] : Notes(q, p, x, Ended(p, x, e))
    BY <1>3, EndedExists
  <1>6. /\ \A n \in DOMAIN heap : SameButEnd(q, p, n)
        /\ q[x].end = e
    <2>1. x \in Nat /\ \A n \in DOMAIN heap : n \in Nat
      BY <1>3
    <2> QED BY <1>5, <2>1, EndedAlike
  <1>7. OpenSpan(p, a) /\ c \notin Pending /\ p[c].end = offset
    BY <1>2, <1>3 DEF Spans, Located
  <1>8. /\ x \in Pending /\ Pending' = Pending \ {x} /\ Chained' /\ Latest' = x
        /\ stack' # << >> => Top.head' # Null
        /\ \A l \in DOMAIN stack' : l \in DOMAIN stack /\ l < Inner /\ stack'[l] = stack[l]
    BY <1>2, Closed
  <1>9. ASSUME NEW n \in DOMAIN heap, p[n].parent = x
        PROVE  n \notin Pending /\ (heap[n].next = Null => e = p[n].end + 1)
    <2>1. heap[n].next = Null => n = c
      BY <1>2, <1>7, <1>9 DEF OpenSpan
    <2>2. heap[n].next # Null => n \notin Pending
      BY DEF Spans, AllPlaced, Placed, Followed
    <2> QED BY <1>2, <1>7, <2>1, <2>2
  <1>10. Whole(q, x)'
    <2>1. p[x].start < e
      <3>1. AllPlaced(p)
        BY DEF Spans
      <3>2. p[c].end + 1 = offset + 1
        BY <1>7
      <3>3. p[x].start < p[c].from /\ p[c].from <= p[c].start /\ p[c].start <= p[c].end
        <4>1. Descends(p, c) /\ Led(p, c) /\ Whole(p, c)
          BY <1>1, <1>7, <3>1 DEF AllPlaced, Placed
        <4>2. p[c].parent = x
          BY <1>2, <1>3, <1>7 DEF OpenSpan
        <4>3. p[c].from \in Nat
          <5>1. c \in Nat
            BY <1>3
          <5>2. p[c] \in Span
            BY <5>1
          <5> QED BY <5>2, SpanFields
        <4> QED BY <1>3, <4>1, <4>2, <4>3 DEF Descends, Led, Whole
      <3>4. /\ p[x].start \in Nat /\ p[c].from \in Nat /\ p[c].start \in Nat
        <4>1. p[x] \in Span /\ p[c] \in Span
          BY <1>3
        <4> QED BY <4>1, SpanFields
      <3> QED BY <1>2, <1>3, <1>7, <3>3, <3>4
    <2>2. Token(e) = Closer(a.kind) /\ Token(e) # "end"
      BY <1>2, <1>3, Brackets DEF Peek, Containers
    <2>3. e <= Len(input)
      <3>1. e \in Nat \ {0}
        BY <1>2, <1>3
      <3> QED BY <1>3, <2>2, <3>1, TokenPlaces
    <2>4. /\ Token(p[x].start) = Opener(a.kind)
          /\ p[h].from = p[x].start + 1 /\ p[h].parent = x /\ p[h].keyed = (a.kind = "object")
      BY <1>2, <1>3, <1>7 DEF OpenSpan
    <2>5. /\ q[x].start = p[x].start /\ q[h].from = p[h].from /\ q[h].parent = x
          /\ q[h].keyed = (a.kind = "object")
      BY <1>3, <1>6, <2>4 DEF SameButEnd
    <2>6. \A i : Token(i)' = Token(i)
      BY SameGrammar
    <2>7. q[x].start <= q[x].end /\ q[x].end <= Len(input')
      <3>1. p[x].start \in Nat
        <4>1. p[x] \in Span
          BY <1>3
        <4> QED BY <4>1, SpanFields
      <3> QED BY <1>6, <2>1, <2>3, <2>5, <3>1
    <2> QED BY <1>3, <1>4, <1>6, <2>2, <2>4, <2>5, <2>6, <2>7 DEF Whole
  <1>11. AllPlaced(q)'
    <2>1. AllPlaced(p)
      BY DEF Spans
    <2> QED BY ZenonT(40), <1>1, <1>3, <1>4, <1>5, <1>8, <1>9, <1>10, <2>1, Completed
  <1>12. \A n \in DOMAIN heap : heap'[n].next = heap[n].next
    BY <1>4
  <1>13. RootSpan(q)'
    BY <1>4, <1>6, <1>12, RootSpanStays DEF Spans
  <1>14. ASSUME NEW l \in DOMAIN stack' PROVE OpenSpan(q, stack[l])'
    <2>1. PICK b : b = stack[l]
      OBVIOUS
    <2>2. OpenSpan(p, b) /\ stack'[l] = b /\ l \in DOMAIN stack
      BY <1>8, <2>1 DEF Spans
    <2>3. b.item \in DOMAIN heap
          /\ (b.head # Null => b.head \in DOMAIN heap /\ b.current \in DOMAIN heap)
      BY <1>1, <2>1, <2>2, HeapAtWork
    <2>4. OpenSpan(q, b)'
      BY <1>4, <1>6, <1>12, <2>2, <2>3, OpenSpanStays
    <2> QED BY <2>2, <2>4
  <1>15. Located(q)'
    BY <1>1, <1>2, <1>6, <1>8 DEF Located
  <1> QED BY <1>8, <1>11, <1>13, <1>14, <1>15 DEF Spans

LEMMA TreeAfter == ASSUME MemoryInv, TreeInv, After PROVE TreeInv'
  <1>1. at = "after" /\ Working /\ stack # << >> /\ UNCHANGED <<input, item, root>>
    BY DEF After, Working
  <1>2. PICK p \in [Nat -> Span] : Spans(p)
    BY <1>1, SpansFound
  <1>3. CASE Peek = "," /\ offset' = offset + 1 /\ at' = "element" /\ UNCHANGED <<stack, heap>>
    <2>1. Spans(p)'
      BY <1>1, <1>2, <1>3, TreeFollows
    <2> QED BY <2>1 DEF TreeInv
  <1>4. CASE /\ Peek = Closer(Top.kind) /\ offset' = offset + 1 /\ at' = "after" /\ stack' = Pop
             /\ heap' = [heap EXCEPT ![Top.item] = [@ EXCEPT !.type = Top.kind,
                                                             !.child = Top.head]]
    <2>1. \E q \in [Nat -> Span] : Spans(q)'
      BY <1>1, <1>2, <1>4, SpanClosed
    <2> QED BY <2>1 DEF TreeInv
  <1>5. CASE at' = "fail"
    BY <1>5, TreeFails
  <1> QED BY <1>3, <1>4, <1>5 DEF After, Leave

\* The text is looked at no more, or not yet.
LEMMA TreeBegin == ASSUME MemoryInv, TextInv, Begin PROVE TreeInv'
  <1>1. /\ at = "start" /\ stack = << >> /\ offset = 0 /\ heap = << >> /\ names = 0
        /\ UNCHANGED <<input, offset, stack>>
    BY DEF Begin, MemoryInv, Shape, TextInv
  <1>2. CASE at' \in {"fail", "refused"}
    BY <1>2, TreeFails
  <1>3. CASE AllocateItem(Null) /\ item' = Fresh /\ root' = Fresh /\ at' = "value"
    <2>1. PICK m : m = Fresh /\ m = 1
      BY <1>1 DEF Fresh
    <2>2. DOMAIN heap' = {m} /\ heap'[m] = NewItem
      <3>1. DOMAIN heap = {}
        BY <1>1
      <3> QED BY <1>3, <2>1, <3>1 DEF AllocateItem
    <2> DEFINE span == [from |-> 1, start |-> 1, end |-> 0, parent |-> Null, keyed |-> FALSE]
               p == [n \in Nat |-> span]
    <2>3. span \in Span /\ p \in [Nat -> Span]
      BY DEF Span, Null
    <2>4. /\ p[m].from = 1 /\ p[m].start = 1 /\ p[m].parent = Null /\ p[m].keyed = FALSE
      BY <2>1
    <2> HIDE DEF span, p
    <2>5. heap'[m].next = Null /\ stack' = << >> /\ m # Null
      BY <1>1, <2>1, <2>2, ItemFacts DEF Null
    <2>6. Pending' = {m} /\ DOMAIN stack' = {} /\ Latest' = m
      BY <1>3, <2>1, <2>5 DEF Pending, Latest
    <2>7. Placed(p, m)'
      <3>1. Descends(p, m)' /\ Followed(p, m)' /\ Inside(p, m)'
        BY <2>4, <2>5 DEF Descends, Followed, Inside
      <3>2. Led(p, m)'
        BY <2>4 DEF Led
      <3> QED BY <2>6, <3>1, <3>2 DEF Placed
    <2>8. AllPlaced(p)' /\ RootSpan(p)' /\ Chained'
      BY <1>3, <2>1, <2>2, <2>4, <2>5, <2>6, <2>7 DEF AllPlaced, RootSpan, Chained
    <2>9. Located(p)'
      BY <1>1, <1>3, <2>1, <2>2, <2>4, <2>5, <2>6 DEF Located
    <2>10. Spans(p)'
      BY <2>6, <2>8, <2>9 DEF Spans
    <2> QED BY <2>3, <2>10 DEF TreeInv
  <1> QED BY <1>2, <1>3 DEF Begin, OutOfMemory

LEMMA SpansStay ==
    ASSUME NEW p, Spans(p), UNCHANGED <<input, offset, stack, item, root, heap>>,
           \/ at' = at
           \/ at = "after" /\ at' = "parsed"
    PROVE  Spans(p)'
  <1>1. Pending' = Pending /\ (\A i : Token(i)' = Token(i)) /\ Top' = Top /\ Latest' = Latest
    BY SameGrammar DEF Pending, Top, Latest
  <1>2. ASSUME NEW n \in DOMAIN heap PROVE Placed(p, n)'
    <2>1. Placed(p, n)
      BY DEF Spans, AllPlaced
    <2> QED BY <1>1, <2>1 DEF Placed, Descends, Followed, Inside, Led, Whole
  <1>3. AllPlaced(p)'
    BY <1>2 DEF AllPlaced
  <1>4. RootSpan(p)' /\ Chained'
    BY DEF Spans, RootSpan, Chained
  <1>5. ASSUME NEW k \in DOMAIN stack PROVE OpenSpan(p, stack[k])'
    <2>1. PICK a : a = stack[k]
      OBVIOUS
    <2>2. OpenSpan(p, a)
      BY <2>1 DEF Spans
    <2>3. OpenSpan(p, a)'
      BY <1>1, <2>2 DEF OpenSpan
    <2> QED BY <2>1, <2>3
  <1>6. Located(p)'
    BY <1>1 DEF Spans, Located
  <1> QED BY <1>3, <1>4, <1>5, <1>6 DEF Spans

LEMMA TreeFinish == ASSUME TreeInv, Finish PROVE TreeInv'
  <1>1. /\ at = "after" /\ at' = "parsed" /\ Working
        /\ UNCHANGED <<input, offset, stack, item, root, heap>>
    BY DEF Finish, Working, memory
  <1>2. PICK p \in [Nat -> Span] : Spans(p)
    BY <1>1, SpansFound
  <1>3. Spans(p)'
    BY <1>1, <1>2, SpansStay
  <1> QED BY <1>3 DEF TreeInv

LEMMA TreeStutters == ASSUME TreeInv, UNCHANGED vars PROVE TreeInv'
  <1>1. UNCHANGED <<input, offset, stack, item, root, heap, at>>
    BY DEF vars, memory
  <1>2. SUFFICES ASSUME (Working \/ at = "parsed")' PROVE TreeInv'
    BY DEF TreeInv
  <1>3. Working \/ at = "parsed"
    BY <1>1, <1>2 DEF Working
  <1>4. PICK p \in [Nat -> Span] : Spans(p)
    BY <1>3 DEF TreeInv
  <1>5. Spans(p)'
    BY <1>1, <1>4, SpansStay
  <1> QED BY <1>5 DEF TreeInv

LEMMA TreeKeeps == ASSUME MemoryInv, TextInv, TreeInv, Next PROVE TreeInv'
  <1>1. ASSUME NEW kind \in {"array", "object"}, Open(kind) PROVE TreeInv'
    BY <1>1, TreeOpen DEF Containers
  <1>2. ASSUME Unwind \/ Refuse \/ Release PROVE TreeInv'
    BY <1>2, TreeFails DEF Unwind, Refuse, Release
  <1> QED BY <1>1, <1>2, TreeBegin, TreeScalar, TreeText, TreeNoValue, TreeElement, TreeKey,
             TreeAfter, TreeFinish DEF Next

\* Every item of the tree stands where the text says what the item says.
THEOREM ParserHasSpans == Spec => []TreeInv
  <1>1. Init => TreeInv
    BY DEF Init, TreeInv, Working
  <1>2. ASSUME MemoryInv, TextInv, TreeInv, [Next]_vars PROVE TreeInv'
    BY <1>2, TreeKeeps, TreeStutters
  <1> QED BY <1>1, <1>2, ParserMemory, ParserReadsText, PTL DEF Spec

(***************************************************************************)
(* The printed tree.                                                       *)
(***************************************************************************)
LinksForward ==
    /\ DOMAIN heap \subseteq Nat \ {Null}
    /\ \A n \in DOMAIN heap :
          {heap[n].next, heap[n].child} \subseteq {m \in DOMAIN heap : n < m} \cup {Null}

LEMMA LinksAreForward == ASSUME MemoryInv PROVE LinksForward
  BY DEF MemoryInv, Ownership, Kinds, LinksForward

LEMMA EntriesAlike ==
    ASSUME LinksForward, NEW f, NEW g, NEW n \in DOMAIN heap, NEW o,
           \A m \in DOMAIN heap : n < m => f[m] = g[m]
    PROVE  PrintedEntry(f, n, o) = PrintedEntry(g, n, o)
  <1>1. ASSUME NEW l \in {heap[n].next, heap[n].child}, NEW b
        PROVE  PrintedElements(f, l, b) = PrintedElements(g, l, b)
    BY <1>1 DEF LinksForward, PrintedElements
  <1>2. PrintedValue(f, heap[n]) = PrintedValue(g, heap[n])
    BY <1>1 DEF PrintedValue
  <1> QED BY <1>1, <1>2 DEF PrintedEntry

\* f is what print_value prints of the items from number k on.
PrintsFrom(f, k) ==
    f = [n \in {m \in DOMAIN heap : k <= m} |-> [o \in BOOLEAN |-> PrintedEntry(f, n, o)]]

LEMMA OneItemMore ==
    ASSUME LinksForward, NEW k \in Nat, NEW f, PrintsFrom(f, k + 1)
    PROVE  \E g : PrintsFrom(g, k)
  <1> DEFINE g == [n \in {m \in DOMAIN heap : k <= m} |->
                      IF n = k THEN [o \in BOOLEAN |-> PrintedEntry(f, n, o)] ELSE f[n]]
  <1>1. ASSUME NEW n \in DOMAIN heap, k <= n
        PROVE  /\ \A m \in DOMAIN heap : n < m => f[m] = g[m]
               /\ n # k => n \in {m \in DOMAIN heap : k + 1 <= m}
    <2>1. n \in Nat /\ \A m \in DOMAIN heap : m \in Nat
      BY DEF LinksForward
    <2>2. \A m \in DOMAIN heap : n < m => k <= m /\ m # k
      BY <1>1, <2>1
    <2> QED BY <1>1, <2>1, <2>2
  <1>2. ASSUME NEW n \in {m \in DOMAIN heap : k <= m}
        PROVE  g[n] = [o \in BOOLEAN |-> PrintedEntry(f, n, o)]
    <2>1. CASE n = k
      BY <2>1
    <2>2. CASE n # k
      <3>1. g[n] = f[n] /\ n \in {m \in DOMAIN heap : k + 1 <= m}
        BY <1>1, <2>2
      <3> HIDE DEF g
      <3> QED BY <3>1 DEF PrintsFrom
    <2> QED BY <2>1, <2>2
  <1>3. g = [n \in {m \in DOMAIN heap : k <= m} |-> g[n]]
    OBVIOUS
  <1> HIDE DEF g
  <1>4. ASSUME NEW n \in {m \in DOMAIN heap : k <= m}
        PROVE  g[n] = [o \in BOOLEAN |-> PrintedEntry(g, n, o)]
    <2>1. \A o : PrintedEntry(f, n, o) = PrintedEntry(g, n, o)
      BY <1>1, EntriesAlike
    <2> QED BY <1>2, <2>1
  <1>5. PrintsFrom(g, k)
    BY <1>3, <1>4 DEF PrintsFrom
  <1> QED BY <1>5

LEMMA PrintExists == ASSUME MemoryInv PROVE \E f : PrintsFrom(f, 0)
  <1> DEFINE done == {k \in Nat : \E f : PrintsFrom(f, k)}
  <1>1. LinksForward
    BY LinksAreForward
  <1>2. PICK top \in Nat : \A n \in DOMAIN heap : n < top
    <2>1. names \in Nat /\ DOMAIN heap \subseteq 1 .. names
      BY DEF MemoryInv, TypeOK
    <2>2. names + 1 \in Nat /\ \A n \in DOMAIN heap : n < names + 1
      BY <2>1
    <2> QED BY <2>2
  <1>3. top \in done
    <2>1. {m \in DOMAIN heap : top <= m} = {}
      BY <1>1, <1>2 DEF LinksForward
    <2>2. PrintsFrom(<< >>, top)
      BY <2>1 DEF PrintsFrom
    <2> QED BY <2>2
  <1>4. done \subseteq Nat /\ done # {}
    BY <1>3
  <1>5. PICK k \in done : \A l \in done : ~ (l < k)
    BY <1>4, LeastNumber
  <1>6. CASE k # 0
    <2>1. PICK l \in Nat : k = l + 1 /\ l < k
      <3>1. k \in Nat
        BY <1>5
      <3>2. k - 1 \in Nat /\ k = (k - 1) + 1 /\ k - 1 < k
        BY <1>6, <3>1
      <3> QED BY <3>2
    <2>2. PICK f : PrintsFrom(f, l + 1)
      BY <1>5, <2>1
    <2>3. l \in done
      BY <1>1, <2>2, OneItemMore
    <2> QED BY <1>5, <2>1, <2>3
  <1> QED BY <1>5, <1>6

\* What is printed of each item.
Prints(f) == \A n \in DOMAIN heap, o \in BOOLEAN : f[n][o] = PrintedEntry(f, n, o)

LEMMA PrintedByItem ==
    ASSUME MemoryInv, NEW c PROVE \E f : Prints(f) /\ Printed(c) = f[c][FALSE]
  <1> DEFINE Step(f) == [n \in DOMAIN heap |-> [o \in BOOLEAN |-> PrintedEntry(f, n, o)]]
             print == CHOOSE f : f = Step(f)
  <1>1. Printed(c) = print[c][FALSE]
    BY DEF Printed
  <1>2. {m \in DOMAIN heap : 0 <= m} = DOMAIN heap
    BY LinksAreForward DEF LinksForward
  <1>3. \E f : f = Step(f)
    <2>1. PICK f : PrintsFrom(f, 0)
      BY PrintExists
    <2>2. f = Step(f)
      BY <1>2, <2>1 DEF PrintsFrom
    <2> QED BY <2>2
  <1>4. print = Step(print)
    <2> HIDE DEF Step
    <2> QED BY <1>3
  <1> HIDE DEF print
  <1>5. Prints(print)
    BY <1>4 DEF Prints
  <1> QED BY <1>1, <1>5

LEMMA PiecesJoin ==
    ASSUME NEW S, NEW t \in Seq(S), NEW a \in Nat \ {0}, NEW b \in Nat, NEW c \in Nat,
           a <= b + 1, b <= c, c <= Len(t)
    PROVE  SubSeq(t, a, b) \o SubSeq(t, b + 1, c) = SubSeq(t, a, c)
  <1>1. PICK l \in Nat : l = Len(t)
    OBVIOUS
  <1>2. a \in 1 .. Len(t) + 1 /\ b \in a - 1 .. Len(t) /\ c \in b .. Len(t)
    BY <1>1
  <1> QED BY <1>2, ConcatAdjacentSubSeq

LEMMA OnePiece ==
    ASSUME NEW S, NEW t \in Seq(S), NEW a \in Nat \ {0}, a <= Len(t)
    PROVE  SubSeq(t, a, a) = <<t[a]>> /\ SubSeq(t, a + 1, a) = << >>
  <1>1. PICK l \in Nat : l = Len(t)
    OBVIOUS
  <1>2. a \in 1 .. Len(t) /\ a \in a .. Len(t) /\ a < a + 1 /\ a + 1 \in Int
    BY <1>1
  <1>3. SubSeq(t, a + 1, a) = << >>
    BY <1>2, SubSeqEmpty
  <1>4. SubSeq(t, a, a) = <<t[a]>> \o SubSeq(t, a + 1, a)
    BY <1>2, SubSeqRecursiveFirst
  <1>5. t[a] \in S
    BY <1>2, ElementOfSeq
  <1>6. <<t[a]>> \o << >> = <<t[a]>>
    BY <1>5
  <1> QED BY <1>3, <1>4, <1>6

LEMMA KeyAndColon == <<"text", ":">> = <<"text">> \o <<":">>
  <1> DEFINE t == <<"text", ":">>
  <1>1. t \in Seq({"text", ":"}) /\ Len(t) = 2 /\ t[1] = "text" /\ t[2] = ":"
    OBVIOUS
  <1> HIDE DEF t
  <1>2. SubSeq(t, 1, 2) = t
    BY <1>1, SubSeqFull
  <1>3. SubSeq(t, 1, 1) = <<"text">> /\ SubSeq(t, 2, 2) = <<":">>
    <2>1. 1 \in Nat \ {0} /\ 2 \in Nat \ {0} /\ 1 <= Len(t) /\ 2 <= Len(t)
      BY <1>1
    <2> QED BY <1>1, <2>1, OnePiece
  <1>4. SubSeq(t, 1, 1) \o SubSeq(t, 1 + 1, 2) = SubSeq(t, 1, 2)
    <2>1. 1 \in Nat \ {0} /\ 1 \in Nat /\ 2 \in Nat /\ 1 <= 1 + 1 /\ 1 <= 2 /\ 2 <= Len(t)
      BY <1>1
    <2> QED BY <1>1, <2>1, PiecesJoin
  <1>5. 1 + 1 = 2
    OBVIOUS
  <1>6. t = <<"text">> \o <<":">>
    BY <1>2, <1>3, <1>4, <1>5
  <1> QED BY <1>6 DEF t

\* The token at place i.
LEMMA TokenPiece ==
    ASSUME input \in Seq(Tokens), NEW i \in Nat \ {0}, i <= Len(input)
    PROVE  SubSeq(input, i, i) = <<Token(i)>>
  BY OnePiece DEF Token

\* Where the entries of the list end that n belongs to.
Last(p, n) == IF p[n].parent = Null THEN p[n].end ELSE p[p[n].parent].end - 1

\* The entry of n and what follows it in its list are printed as the text has them.
Says(p, f, n) ==
    /\ Last(p, n) \in Nat /\ p[n].end <= Last(p, n) /\ Last(p, n) <= Len(input)
    /\ f[n][p[n].keyed] = SubSeq(input, p[n].from, Last(p, n))

Belongs(p, n) == p[n].parent # Null \/ heap[n].next = Null

Laid(p) ==
    /\ LinksForward /\ input \in Seq(Tokens) /\ heap \in [DOMAIN heap -> Item]
    /\ \A n \in DOMAIN heap : /\ Descends(p, n) /\ Followed(p, n) /\ Inside(p, n)
                              /\ Led(p, n) /\ Whole(p, n)
    /\ Pending = {}

LEMMA SpanInText ==
    ASSUME NEW p \in [Nat -> Span], Laid(p), NEW n \in DOMAIN heap
    PROVE  /\ p[n] \in Span /\ n \in Nat /\ Len(input) \in Nat
           /\ p[n].from \in Nat \ {0} /\ p[n].start \in Nat \ {0} /\ p[n].end \in Nat \ {0}
           /\ p[n].from <= p[n].start /\ p[n].start <= p[n].end /\ p[n].end <= Len(input)
           /\ p[n].keyed \in BOOLEAN
  <1>1. n \in Nat /\ Len(input) \in Nat
    <2>1. PICK l \in Nat : l = Len(input)
      BY DEF Laid
    <2> QED BY <2>1 DEF Laid, LinksForward
  <1>2. p[n] \in Span
    BY <1>1
  <1>3. p[n].from \in Nat /\ p[n].start \in Nat /\ p[n].end \in Nat /\ p[n].keyed \in BOOLEAN
    BY <1>2 DEF Span
  <1>4. p[n].from # 0 /\ p[n].from <= p[n].start
    BY <1>3 DEF Laid, Led
  <1>5. p[n].start <= p[n].end /\ p[n].end <= Len(input)
    BY DEF Laid, Whole
  <1> QED BY <1>1, <1>2, <1>3, <1>4, <1>5

\* A value is printed as the text has it if its elements are.
LEMMA ValueSays ==
    ASSUME NEW p \in [Nat -> Span], Laid(p), NEW f, NEW n \in DOMAIN heap,
           heap[n].type \in Containers /\ heap[n].child # Null => Says(p, f, heap[n].child)
    PROVE  PrintedValue(f, heap[n]) = SubSeq(input, p[n].start, p[n].end)
  <1>1. PICK s \in Nat \ {0}, e \in Nat \ {0} : s = p[n].start /\ e = p[n].end
    BY SpanInText
  <1>2. s <= e /\ e <= Len(input) /\ s <= Len(input) /\ Len(input) \in Nat
    BY <1>1, SpanInText
  <1>3. Whole(p, n) /\ input \in Seq(Tokens)
    BY DEF Laid
  <1>4. PICK type : type = heap[n].type
    OBVIOUS
  <1>5. CASE type \in {"scalar", "text"}
    <2>1. Token(s) = type /\ e = s
      BY <1>1, <1>3, <1>4, <1>5 DEF Whole, Containers
    <2>2. PrintedValue(f, heap[n]) = <<type>>
      BY <1>4, <1>5 DEF PrintedValue
    <2> QED BY <1>1, <1>2, <1>3, <2>1, <2>2, TokenPiece
  <1>6. CASE type \in Containers
    <2>1. /\ Token(s) = Opener(type) /\ Token(e) = Closer(type)
          /\ IF heap[n].child = Null THEN e = s + 1
             ELSE /\ p[heap[n].child].from = s + 1
                  /\ p[heap[n].child].parent = n
                  /\ p[heap[n].child].keyed = (type = "object")
      BY <1>1, <1>3, <1>4, <1>6 DEF Whole, Containers
    <2>2. s # e
      BY <1>6, <2>1, Brackets DEF Containers
    <2>3. PICK z \in Nat : z = e - 1 /\ e = z + 1 /\ s <= z /\ z <= Len(input) /\ s + 1 <= z + 1
      <3>1. e - 1 \in Nat /\ e = (e - 1) + 1 /\ s <= e - 1 /\ e - 1 <= Len(input)
            /\ s + 1 <= (e - 1) + 1
        BY <1>2, <2>2
      <3> QED BY <3>1
    <2>4. PICK b \in BOOLEAN : b = (type = "object")
      OBVIOUS
    <2>5. PrintedElements(f, heap[n].child, b) = SubSeq(input, s + 1, z)
      <3>1. CASE heap[n].child = Null
        <4>1. z = s
          BY <2>1, <2>3, <3>1
        <4> QED BY <1>2, <1>3, <3>1, <4>1, OnePiece DEF PrintedElements
      <3>2. CASE heap[n].child # Null
        <4>1. PICK c : c = heap[n].child
          OBVIOUS
        <4>2. p[c].from = s + 1 /\ p[c].parent = n /\ p[c].keyed = b
          BY <2>1, <2>4, <3>2, <4>1
        <4>3. n # Null
          BY DEF Laid, LinksForward
        <4>4. Last(p, c) = z
          BY <1>1, <2>3, <4>2, <4>3 DEF Last
        <4>5. f[c][b] = SubSeq(input, s + 1, z)
          BY <1>4, <1>6, <3>2, <4>1, <4>2, <4>4 DEF Says
        <4> QED BY <3>2, <4>1, <4>5 DEF PrintedElements
      <3> QED BY <3>1, <3>2
    <2>6. PrintedValue(f, heap[n])
          = <<Token(s)>> \o SubSeq(input, s + 1, z) \o <<Token(e)>>
      <3>1. CASE type = "array"
        BY <1>4, <2>1, <2>4, <2>5, <3>1, Brackets DEF PrintedValue
      <3>2. CASE type = "object"
        BY ZenonT(40), <1>4, <2>1, <2>4, <2>5, <3>2, Brackets DEF PrintedValue
      <3> QED BY <1>6, <3>1, <3>2 DEF Containers
    <2>7. <<Token(s)>> \o SubSeq(input, s + 1, z) = SubSeq(input, s, z)
      <3>1. s <= s + 1
        OBVIOUS
      <3>2. SubSeq(input, s, s) \o SubSeq(input, s + 1, z) = SubSeq(input, s, z)
        BY <1>3, <2>3, <3>1, PiecesJoin
      <3> QED BY <1>2, <1>3, <3>2, TokenPiece
    <2>8. SubSeq(input, s, z) \o <<Token(e)>> = SubSeq(input, s, e)
      <3>1. s <= z + 1 /\ z <= e
        BY <2>3
      <3>2. SubSeq(input, s, z) \o SubSeq(input, z + 1, e) = SubSeq(input, s, e)
        BY <1>2, <1>3, <3>1, PiecesJoin
      <3> QED BY <1>2, <1>3, <2>3, <3>2, TokenPiece
    <2> QED BY <1>1, <2>6, <2>7, <2>8
  <1> QED BY <1>3, <1>4, <1>5, <1>6 DEF Whole

\* So is an entry, if what follows it is.
LEMMA EntrySays ==
    ASSUME NEW p \in [Nat -> Span], Laid(p), NEW f, Prints(f), NEW n \in DOMAIN heap,
           Belongs(p, n), \A m \in DOMAIN heap : n < m /\ Belongs(p, m) => Says(p, f, m)
    PROVE  Says(p, f, n)
  <1>1. PICK a \in Nat \ {0}, s \in Nat \ {0}, e \in Nat \ {0}, b \in BOOLEAN :
           a = p[n].from /\ s = p[n].start /\ e = p[n].end /\ b = p[n].keyed
    BY SpanInText
  <1>2. /\ a <= s /\ s <= e /\ e <= Len(input) /\ Len(input) \in Nat /\ input \in Seq(Tokens)
        /\ s <= Len(input) /\ a <= Len(input)
    BY <1>1, SpanInText DEF Laid
  <1>3. /\ Descends(p, n) /\ Followed(p, n) /\ Inside(p, n) /\ Led(p, n) /\ Whole(p, n)
        /\ Pending = {} /\ n # Null
        /\ {heap[n].next, heap[n].child} \subseteq {m \in DOMAIN heap : n < m} \cup {Null}
    BY DEF Laid, LinksForward
  <1>4. PICK z \in Nat : z = Last(p, n) /\ e <= z /\ z <= Len(input)
        /\ (IF heap[n].next = Null THEN << >>
            ELSE <<",">> \o PrintedElements(f, heap[n].next, b)) = SubSeq(input, e + 1, z)
    <2>1. CASE heap[n].next = Null
      <3>1. Last(p, n) = e
        <4>1. CASE p[n].parent = Null
          BY <1>1, <4>1 DEF Last
        <4>2. CASE p[n].parent # Null
          <5>1. p[p[n].parent].end = e + 1
            BY <1>1, <1>3, <2>1, <4>2 DEF Inside
          <5> QED BY <4>2, <5>1 DEF Last
        <4> QED BY <4>1, <4>2
      <3>2. SubSeq(input, e + 1, e) = << >>
        BY <1>2, OnePiece
      <3> QED BY <1>2, <2>1, <3>1, <3>2
    <2>2. CASE heap[n].next # Null
      <3>1. PICK m \in DOMAIN heap : m = heap[n].next /\ n < m
        BY <1>3, <2>2
      <3>2. /\ Token(e + 1) = "," /\ p[m].from = e + 2
            /\ p[m].parent = p[n].parent /\ p[m].keyed = b
        BY <1>1, <1>3, <2>2, <3>1 DEF Followed
      <3>3. Belongs(p, m) /\ Last(p, m) = Last(p, n)
        <4>1. p[n].parent # Null
          BY <2>2 DEF Belongs
        <4> QED BY <3>2, <4>1 DEF Belongs, Last
      <3>4. Says(p, f, m)
        BY <3>1, <3>3
      <3>5. PICK z \in Nat : /\ z = Last(p, n) /\ p[m].end <= z /\ z <= Len(input)
                             /\ f[m][b] = SubSeq(input, e + 2, z)
        BY <3>2, <3>3, <3>4 DEF Says
      <3>6. PICK i \in Nat \ {0} : i = e + 1 /\ i + 1 = e + 2 /\ i <= z /\ e <= z
                                   /\ i <= Len(input) /\ i <= i + 1
        <4>1. e + 2 <= p[m].end /\ p[m].end \in Nat
          <5>1. /\ p[m].from \in Nat /\ p[m].start \in Nat /\ p[m].end \in Nat
                /\ p[m].from <= p[m].start /\ p[m].start <= p[m].end
            BY SpanInText
          <5>2. p[m].from = e + 2
            BY <3>2
          <5> QED BY ONLY <5>1, <5>2, e \in Nat
        <4>2. e + 1 \in Nat \ {0} /\ (e + 1) + 1 = e + 2 /\ e + 1 <= z /\ e <= z
              /\ e + 1 <= Len(input) /\ e + 1 <= (e + 1) + 1
          BY <1>2, <3>5, <4>1
        <4> QED BY <4>2
      <3>7. SubSeq(input, i, i) \o SubSeq(input, i + 1, z) = SubSeq(input, i, z)
        BY <1>2, <3>5, <3>6, PiecesJoin
      <3>8. SubSeq(input, i, i) = <<",">>
        BY <1>2, <3>2, <3>6, TokenPiece
      <3>9. PrintedElements(f, heap[n].next, b) = SubSeq(input, i + 1, z)
        BY <2>2, <3>1, <3>5, <3>6 DEF PrintedElements
      <3> QED BY <2>2, <3>5, <3>6, <3>7, <3>8, <3>9
    <2> QED BY <2>1, <2>2
  <1>5. PrintedValue(f, heap[n]) = SubSeq(input, s, e)
    <2>1. ASSUME heap[n].type \in Containers, heap[n].child # Null
          PROVE  Says(p, f, heap[n].child)
      <3>1. PICK c \in DOMAIN heap : c = heap[n].child /\ n < c
        BY <1>3, <2>1
      <3>2. p[c].parent = n
        BY <1>3, <2>1, <3>1 DEF Whole, Containers
      <3> QED BY <1>3, <3>1, <3>2 DEF Belongs
    <2> QED BY <1>1, <2>1, ValueSays
  <1>6. (IF b THEN <<"text", ":">> ELSE << >>) \o SubSeq(input, s, e) = SubSeq(input, a, e)
    <2>1. CASE b = TRUE
      <3>1. s = a + 2 /\ Token(a) = "text" /\ Token(a + 1) = ":"
        BY <1>1, <1>3, <2>1 DEF Led
      <3>2. PICK i \in Nat \ {0} : i = a + 1 /\ i + 1 = s /\ i <= e /\ i <= Len(input)
                                   /\ a <= i + 1 /\ a <= i
        <4>1. a + 1 \in Nat \ {0} /\ (a + 1) + 1 = s /\ a + 1 <= e /\ a + 1 <= Len(input)
              /\ a <= (a + 1) + 1 /\ a <= a + 1
          BY <1>2, <3>1
        <4> QED BY <4>1
      <3>3. SubSeq(input, a, a) = <<"text">> /\ SubSeq(input, i, i) = <<":">>
        BY <1>2, <3>1, <3>2, TokenPiece
      <3>4. SubSeq(input, a, a) \o SubSeq(input, i, i) = SubSeq(input, a, i)
        <4>1. SubSeq(input, a, a) \o SubSeq(input, a + 1, i) = SubSeq(input, a, i)
          BY <1>2, <3>2, PiecesJoin
        <4> QED BY <3>2, <4>1
      <3>5. SubSeq(input, a, i) \o SubSeq(input, i + 1, e) = SubSeq(input, a, e)
        BY <1>2, <3>2, PiecesJoin
      <3> QED BY <2>1, <3>2, <3>3, <3>4, <3>5, KeyAndColon
    <2>2. CASE b = FALSE
      <3>1. s = a
        BY <1>1, <1>3, <2>2 DEF Led
      <3>2. SubSeq(input, a, e) \in Seq(Tokens)
        <4>1. \A i \in a .. e : input[i] \in Tokens
          <5>1. PICK l \in Nat : l = Len(input)
            BY <1>2
          <5>2. \A i \in a .. e : i \in 1 .. l
            BY <1>2, <5>1
          <5> QED BY <1>2, <5>1, <5>2, ElementOfSeq
        <4>2. a \in Int /\ e \in Int
          OBVIOUS
        <4> QED BY <4>1, <4>2, SubSeqProperties
      <3>3. << >> \o SubSeq(input, a, e) = SubSeq(input, a, e)
        BY <3>2
      <3> QED BY <2>2, <3>1, <3>3
    <2> QED BY <2>1, <2>2
  <1>7. SubSeq(input, a, e) \o SubSeq(input, e + 1, z) = SubSeq(input, a, z)
    <2>1. a <= e + 1
      BY <1>2
    <2> QED BY <1>2, <1>4, <2>1, PiecesJoin
  <1>8. f[n][b] = SubSeq(input, a, z)
    <2>1. f[n][b] = (IF b THEN <<"text", ":">> ELSE << >>) \o PrintedValue(f, heap[n])
                    \o (IF heap[n].next = Null THEN << >>
                        ELSE <<",">> \o PrintedElements(f, heap[n].next, b))
      BY DEF Prints, PrintedEntry
    <2> QED BY <1>4, <1>5, <1>6, <1>7, <2>1
  <1> QED BY <1>1, <1>4, <1>8 DEF Says

LEMMA AllSay ==
    ASSUME MemoryInv, NEW p \in [Nat -> Span], Laid(p), NEW f, Prints(f)
    PROVE  \A n \in DOMAIN heap : Belongs(p, n) => Says(p, f, n)
  <1> DEFINE done == {k \in Nat : \A n \in DOMAIN heap : k <= n /\ Belongs(p, n) => Says(p, f, n)}
  <1>1. DOMAIN heap \subseteq Nat
    BY DEF Laid, LinksForward
  <1>2. \E k \in Nat : k \in done
    <2>1. names \in Nat /\ DOMAIN heap \subseteq 1 .. names
      BY DEF MemoryInv, TypeOK
    <2>2. names + 1 \in Nat /\ \A n \in DOMAIN heap : ~ (names + 1 <= n)
      BY <2>1
    <2> QED BY <2>2
  <1>3. done \subseteq Nat /\ done # {}
    BY <1>2
  <1>4. PICK k \in done : \A l \in done : ~ (l < k)
    BY <1>3, LeastNumber
  <1>5. CASE k # 0
    <2>1. PICK l \in Nat : k = l + 1 /\ l < k
      <3>1. k \in Nat
        BY <1>4
      <3>2. k - 1 \in Nat /\ k = (k - 1) + 1 /\ k - 1 < k
        BY <1>5, <3>1
      <3> QED BY <3>2
    <2>2. ASSUME NEW n \in DOMAIN heap, l <= n, Belongs(p, n) PROVE Says(p, f, n)
      <3>1. CASE k <= n
        BY <1>4, <2>2, <3>1
      <3>2. CASE ~ (k <= n)
        <4>1. \A m \in DOMAIN heap : n < m => k <= m
          BY <1>1, <2>1, <2>2, <3>2
        <4>2. \A m \in DOMAIN heap : n < m /\ Belongs(p, m) => Says(p, f, m)
          BY <1>4, <4>1
        <4> QED BY <2>2, <4>2, EntrySays
      <3> QED BY <3>1, <3>2
    <2>3. l \in done
      BY <2>2
    <2> QED BY <1>4, <2>1, <2>3
  <1>6. CASE k = 0
    BY <1>1, <1>4, <1>6
  <1> QED BY <1>5, <1>6

\* The tree says what the text said: printed, it is the text that was consumed.
THEOREM ParserTreeIsText == Spec => []TreeIsTheText
  <1>1. ASSUME MemoryInv, TreeInv PROVE TreeIsTheText
    <2> SUFFICES ASSUME at = "parsed" PROVE Printed(root) = SubSeq(input, 1, offset)
      BY DEF TreeIsTheText
    <2>1. PICK p \in [Nat -> Span] : Spans(p)
      BY <1>1 DEF TreeInv
    <2>2. stack = << >> /\ Pending = {} /\ Latest = root
      BY <1>1 DEF MemoryInv, Shape, Pending, Latest
    <2>3. Laid(p)
      <3>1. /\ LinksForward /\ input \in Seq(Tokens) /\ heap \in [DOMAIN heap -> Item]
        BY <1>1, LinksAreForward DEF MemoryInv, TypeOK
      <3> QED BY <2>1, <2>2, <3>1 DEF Laid, Spans, AllPlaced, Placed
    <2>4. PICK f : Prints(f) /\ Printed(root) = f[root][FALSE]
      BY <1>1, PrintedByItem
    <2>5. /\ root \in DOMAIN heap /\ heap[root].next = Null
          /\ p[root].parent = Null /\ p[root].from = 1 /\ p[root].keyed = FALSE
          /\ p[root].end = offset
      <3>1. root \in DOMAIN heap /\ RootSpan(p) /\ p[root].end = offset
        BY <2>1, <2>2 DEF Spans, RootSpan, Located
      <3>2. p[root].keyed \in BOOLEAN
        BY <2>3, <3>1, SpanInText
      <3> QED BY <3>1, <3>2 DEF RootSpan
    <2>6. Says(p, f, root)
      BY <1>1, <2>3, <2>4, <2>5, AllSay DEF Belongs
    <2> QED BY <2>4, <2>5, <2>6 DEF Says, Last
  <1> QED BY <1>1, ParserMemory, ParserHasSpans, PTL
===============================================================================
