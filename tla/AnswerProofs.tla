------------------------------ MODULE AnswerProofs ------------------------------
(***************************************************************************)
(* The print buffer is never overrun, whatever strings an answer holds and *)
(* whichever allocations fail: the size of each piece against what the     *)
(* code reserves for it is part of the type of what is left to print, and  *)
(* each step that writes leaves the last byte of the buffer free.          *)
(*                                                                         *)
(* The tree hangs together, so that deleting what the handler returns      *)
(* deletes everything: its lists end, no item is linked twice, and all     *)
(* that is linked is reached from what is held.                            *)
(*                                                                         *)
(* What is sent is what was meant.  A function says of every item what the *)
(* list that starts with it prints; each call of the handler changes it    *)
(* the way the call changes the meaning, and each step of the printer      *)
(* leaves what is written and what is left to print the same together.     *)
(***************************************************************************)
EXTENDS JsonAnswer, WellFoundedInduction, TLAPS

\* What is left to print never leads to an item that was freed.
LiveTasks ==
  {t \in [do : {"put"}, need : Nat, text : Seq(Characters)] : Len(t.text) <= t.need}
  \cup [do : {"rest"}, item : DOMAIN heap \cup {Null}, inObject : BOOLEAN]

LinksOK ==
  /\ \A n \in DOMAIN heap :
        /\ heap[n].next \in DOMAIN heap \cup {Null}
        /\ heap[n].child \in DOMAIN heap \cup {Null}
        /\ heap[n].string \in DOMAIN texts \cup {Null}
        /\ heap[n].valuestring \in DOMAIN texts \cup {Null}
  /\ held \in Seq(DOMAIN heap \cup {Null})

BufferInv ==
  /\ ItemsOK
  /\ at \in {"building", "printing"} => LinksOK
  /\ at = "printing" => todo \in Seq(LiveTasks)
  /\ at # "printing" => todo = << >>
  /\ at = "building" => buffer = Null /\ written = << >>
  /\ PrintsWithinBuffer

LEMMA One == ASSUME NEW S, NEW x \in S PROVE <<x>> \in Seq(S)
  OBVIOUS

LEMMA Wider ==
  ASSUME NEW S, NEW T, S \subseteq T, NEW s \in Seq(S) PROVE s \in Seq(T)
  OBVIOUS

LEMMA WithoutTypes ==
  ASSUME NEW S, NEW s \in Seq(S), NEW i \in DOMAIN s PROVE Without(s, i) \in Seq(S)
  <1>1. SubSeq(s, 1, i - 1) \in Seq(S)
    OBVIOUS
  <1>2. SubSeq(s, i + 1, Len(s)) \in Seq(S)
    OBVIOUS
  <1> QED BY <1>1, <1>2 DEF Without

LEMMA OneCharacter ==
  ASSUME NEW c \in Characters PROVE <<c>> \in Seq(Characters) /\ Len(<<c>>) = 1
  OBVIOUS

LEMMA TwoCharacters ==
  ASSUME NEW b \in Characters, NEW c \in Characters
  PROVE  <<b, c>> \in Seq(Characters) /\ Len(<<b, c>>) = 2
  OBVIOUS

LEMMA Punctuation ==
  /\ "quote" \in Characters /\ "backslash" \in Characters /\ ":" \in Characters
  /\ "," \in Characters
  /\ \A kind \in Kinds : Opening(kind) \in Characters /\ Closing(kind) \in Characters
  BY DEF Characters, Kinds, Opening, Closing

LEMMA EscapedTypes == ASSUME NEW c \in Characters PROVE Escaped(c) \in Seq(Characters)
  <1>1. <<"backslash", c>> \in Seq(Characters)
    BY Punctuation, TwoCharacters
  <1> QED BY <1>1, OneCharacter DEF Escaped

LEMMA PutTypes ==
  ASSUME NEW need \in Nat, NEW text \in Seq(Characters), Len(text) <= need
  PROVE  Put(need, text) \in LiveTasks
  BY DEF Put, LiveTasks

LEMMA RestTypes ==
  ASSUME NEW n \in DOMAIN heap \cup {Null}, NEW o \in BOOLEAN PROVE Rest(n, o) \in LiveTasks
  BY DEF Rest, LiveTasks

LEMMA StringTypes ==
  ASSUME NEW s \in Strings PROVE StringTasks(s) \in Seq(LiveTasks)
  <1> s \in Seq({"plain", "special"})
    BY AnswerAssumption
  <1>1. [i \in 1 .. Len(s) |-> Put(Len(Escaped(s[i])), Escaped(s[i]))] \in Seq(LiveTasks)
    <2>1. ASSUME NEW i \in 1 .. Len(s)
          PROVE  Put(Len(Escaped(s[i])), Escaped(s[i])) \in LiveTasks
      <3> s[i] \in {"plain", "special"}
        OBVIOUS
      <3>1. s[i] \in Characters
        BY DEF Characters
      <3>2. Escaped(s[i]) \in Seq(Characters)
        BY <3>1, EscapedTypes
      <3>3. Len(Escaped(s[i])) \in Nat
        BY <3>2
      <3> QED BY <3>2, <3>3, PutTypes
    <2>2. Len(s) \in Nat
      OBVIOUS
    <2> QED BY <2>1, <2>2
  <1>2. <<"quote">> \in Seq(Characters) /\ Len(<<"quote">>) = 1
    BY Punctuation, OneCharacter
  <1>3. Put(Len(s) + 2 + StringSlack, <<"quote">>) \in LiveTasks
    <2>1. Len(s) + 2 + StringSlack \in Nat /\ Len(s) + 2 + StringSlack >= 1
      BY AnswerAssumption
    <2> QED BY <2>1, <1>2, PutTypes
  <1>4. Put(1, <<"quote">>) \in LiveTasks
    <2>1. 1 \in Nat /\ Len(<<"quote">>) <= 1
      BY <1>2
    <2> QED BY <2>1, <1>2, PutTypes
  <1> QED BY <1>1, <1>3, <1>4 DEF StringTasks

LEMMA PutOne ==
  ASSUME NEW c \in Characters PROVE Put(1, <<c>>) \in LiveTasks
  <1>1. <<c>> \in Seq(Characters) /\ Len(<<c>>) <= 1 /\ 1 \in Nat
    BY OneCharacter
  <1> QED BY <1>1, PutTypes

LEMMA TextTypes ==
  ASSUME ItemsOK, NEW p \in DOMAIN texts \cup {Null}
  PROVE  TextTasks(p) \in Seq(LiveTasks)
  <1>1. CASE p = Null
    <2>q. "quote" \in Characters
      BY DEF Characters
    <2>1. <<"quote", "quote">> \in Seq(Characters) /\ Len(<<"quote", "quote">>) <= 2 /\ 2 \in Nat
      BY <2>q, TwoCharacters
    <2>2. Put(2, <<"quote", "quote">>) \in LiveTasks
      BY <2>1, PutTypes
    <2> QED BY <1>1, <2>2 DEF TextTasks
  <1>2. CASE p # Null
    <2>1. texts[p] \in Strings
      BY <1>2 DEF ItemsOK
    <2> QED BY <1>2, <2>1, StringTypes DEF TextTasks
  <1> QED BY <1>1, <1>2

LEMMA ValueTypes ==
  ASSUME ItemsOK, LinksOK, NEW n \in DOMAIN heap
  PROVE  ValueTasks(n) \in Seq(LiveTasks)
  <1>1. heap[n] \in Item
    BY DEF ItemsOK
  <1>2. CASE heap[n].type = "scalar"
    <2>1. heap[n].value \in Seq(Characters)
      <3>1. CASE heap[n].value = << >>
        BY <3>1
      <3>2. CASE heap[n].value \in Scalars
        <4>1. heap[n].value \in Seq({"digit"})
          BY <3>2, AnswerAssumption
        <4>2. "digit" \in Characters
          BY DEF Characters
        <4> QED BY <4>1, <4>2
      <3> QED BY <1>1, <3>1, <3>2 DEF Item
    <2>2. Len(heap[n].value) \in Nat
      BY <2>1
    <2>3. Put(Len(heap[n].value), heap[n].value) \in LiveTasks
      BY <2>1, <2>2, PutTypes
    <2> QED BY <1>2, <2>3 DEF ValueTasks
  <1>3. CASE heap[n].type = "text"
    <2>1. heap[n].valuestring \in DOMAIN texts \cup {Null}
      BY DEF LinksOK
    <2>2. ValueTasks(n) = TextTasks(heap[n].valuestring)
      BY <1>3 DEF ValueTasks
    <2> QED BY <2>1, <2>2, TextTypes
  <1>4. CASE heap[n].type \in Kinds
    <2> DEFINE b == Put(1, <<Opening(heap[n].type)>>)
               m == Rest(heap[n].child, heap[n].type = "object")
               e == Put(1, <<Closing(heap[n].type)>>)
    <2>1. b \in LiveTasks /\ e \in LiveTasks
      BY <1>4, Punctuation, PutOne
    <2>2. m \in LiveTasks
      <3>1. heap[n].child \in DOMAIN heap \cup {Null} /\ (heap[n].type = "object") \in BOOLEAN
        BY DEF LinksOK
      <3> QED BY <3>1, RestTypes
    <2>3. ValueTasks(n) = <<b, m, e>>
      BY <1>4 DEF ValueTasks, Kinds
    <2> HIDE DEF b, m, e
    <2> QED BY <2>1, <2>2, <2>3
  <1> QED BY <1>1, <1>2, <1>3, <1>4 DEF Item

LEMMA ListTypes ==
  ASSUME ItemsOK, LinksOK, NEW n \in DOMAIN heap \cup {Null}, NEW o \in BOOLEAN
  PROVE  RestTasks(n, o) \in Seq(LiveTasks)
  <1>1. CASE n = Null
    BY <1>1 DEF RestTasks
  <1>2. CASE n # Null
    <2> DEFINE label == IF o THEN TextTasks(heap[n].string) \o <<Put(1, <<":">>)>> ELSE << >>
               comma == IF heap[n].next = Null THEN << >> ELSE <<Put(1, <<",">>)>>
               rest  == <<Rest(heap[n].next, o)>>
    <2>0. n \in DOMAIN heap
      BY <1>2
    <2>1. label \in Seq(LiveTasks)
      <3>1. TextTasks(heap[n].string) \in Seq(LiveTasks)
        BY <2>0, TextTypes DEF LinksOK
      <3>2. Put(1, <<":">>) \in LiveTasks
        BY Punctuation, PutOne
      <3> QED BY <3>1, <3>2
    <2>2. comma \in Seq(LiveTasks)
      <3>1. Put(1, <<",">>) \in LiveTasks
        BY Punctuation, PutOne
      <3>2. <<Put(1, <<",">>)>> \in Seq(LiveTasks)
        BY <3>1, One
      <3>3. << >> \in Seq(LiveTasks)
        OBVIOUS
      <3>4. CASE heap[n].next = Null
        BY <3>3, <3>4
      <3>5. CASE heap[n].next # Null
        <4>1. comma = <<Put(1, <<",">>)>>
          BY <3>5
        <4> HIDE DEF comma
        <4> QED BY <3>2, <4>1
      <3> QED BY <3>4, <3>5
    <2>3. rest \in Seq(LiveTasks)
      <3>1. Rest(heap[n].next, o) \in LiveTasks
        BY <2>0, RestTypes DEF LinksOK
      <3> QED BY <3>1
    <2>4. ValueTasks(n) \in Seq(LiveTasks)
      BY <2>0, ValueTypes
    <2>5. RestTasks(n, o) = label \o ValueTasks(n) \o comma \o rest
      BY <1>2 DEF RestTasks
    <2> HIDE DEF label, comma, rest
    <2> QED BY <2>1, <2>2, <2>3, <2>4, <2>5
  <1> QED BY <1>1, <1>2

ItemsOn(D) == [D -> Item]

\* Where a link goes matters as little as which item it is put into.
LEMMA LinkedTypes ==
  ASSUME NEW D \in SUBSET Nat, NEW items \in ItemsOn(D), NEW c \in D, NEW n \in D
  PROVE  /\ Linked(items, c, n) \in ItemsOn(D)
         /\ \A m \in D :
               /\ Linked(items, c, n)[m].next \in {items[m].next, n}
               /\ Linked(items, c, n)[m].child \in {items[m].child, n}
               /\ Linked(items, c, n)[m].string = items[m].string
               /\ Linked(items, c, n)[m].valuestring = items[m].valuestring
  <1> USE DEF ItemsOn
  <1>1. CASE items[c].child = Null
    BY <1>1 DEF Linked, Item
  <1>2. CASE items[c].child # Null
    <2> DEFINE last[m \in DOMAIN items] ==
                  IF items[m].next = Null THEN m ELSE last[items[m].next]
               x == last[items[c].child]
    <2>1. Linked(items, c, n) = [items EXCEPT ![x].next = n]
      BY <1>2 DEF Linked
    <2> HIDE DEF x
    <2>2. CASE x \in D
      <3>1. items[x] \in Item /\ n \in Nat
        BY <2>2
      <3>2. [items[x] EXCEPT !.next = n] \in Item
        BY <3>1 DEF Item
      <3>3. /\ [items[x] EXCEPT !.next = n].next = n
            /\ [items[x] EXCEPT !.next = n].child = items[x].child
            /\ [items[x] EXCEPT !.next = n].string = items[x].string
            /\ [items[x] EXCEPT !.next = n].valuestring = items[x].valuestring
        BY <3>1 DEF Item
      <3>4. \A m \in D : [items EXCEPT ![x].next = n][m]
                            = IF m = x THEN [items[x] EXCEPT !.next = n] ELSE items[m]
        BY <2>2
      <3>5. Linked(items, c, n) \in [D -> Item]
        BY <2>1, <2>2, <3>2
      <3> QED BY <2>1, <3>3, <3>4, <3>5
    <2>3. CASE x \notin D
      <3>1. [items EXCEPT ![x].next = n] = items
        BY <2>3
      <3> QED BY <2>1, <3>1
    <2> QED BY <2>2, <2>3
  <1> QED BY <1>1, <1>2

LEMMA BufferInit == Init => BufferInv
  <1> SUFFICES ASSUME Init PROVE BufferInv
    OBVIOUS
  <1>1. DOMAIN heap = {} /\ DOMAIN texts = {}
    BY DEF Init
  <1>2. heap \in [DOMAIN heap -> Item] /\ texts \in [DOMAIN texts -> Strings]
    <2>1. heap = [n \in {} |-> heap[n]] /\ texts = [n \in {} |-> texts[n]]
      BY DEF Init
    <2> QED BY <1>1, <2>1
  <1>3. ItemsOK
    BY <1>1, <1>2, AnswerAssumption DEF Init, ItemsOK, Null
  <1>4. LinksOK
    BY <1>1 DEF Init, LinksOK
  <1>5. PrintsWithinBuffer
    BY DEF Init, PrintsWithinBuffer
  <1> QED BY <1>3, <1>4, <1>5 DEF Init, BufferInv

\* Building changes nothing of the printer.
LEMMA Building ==
  ASSUME BufferInv, at = "building", UNCHANGED <<printer, at>>, ItemsOK', LinksOK'
  PROVE  BufferInv'
  BY DEF BufferInv, PrintsWithinBuffer, printer

LEMMA NewTypes == ASSUME NEW kind \in Kinds PROVE NewItem(kind, Null, Null, << >>) \in Item
  BY DEF NewItem, Item, Kinds, Null

LEMMA CreateKeeps ==
  ASSUME BufferInv, NEW kind \in Kinds, Create(kind) PROVE BufferInv'
  <1> USE DEF BufferInv
  <1> at = "building" /\ UNCHANGED <<texts, printer, at>>
    BY DEF Create
  <1> calls' \in 0 .. MaxCalls
    BY AnswerAssumption DEF Create, ItemsOK
  <1>u. UNCHANGED <<buffers, buffer, length, written, todo>>
    BY DEF printer
  <1>1. ASSUME names' = names + 1, heap' = With(heap, names', NewItem(kind, Null, Null, << >>)),
               held' = Append(held, names'), UNCHANGED failed
        PROVE  ItemsOK' /\ LinksOK'
    <2>1. names' \in Nat /\ 1 .. names \subseteq 1 .. names' /\ names' \in 1 .. names'
      BY <1>1 DEF ItemsOK
    <2>2. DOMAIN heap' = DOMAIN heap \cup {names'} /\ DOMAIN heap' \subseteq 1 .. names'
      BY <1>1, <2>1 DEF With, ItemsOK
    <2>3. \A n \in DOMAIN heap' :
             heap'[n] = IF n = names' THEN NewItem(kind, Null, Null, << >>) ELSE heap[n]
      BY <1>1, <2>2 DEF With
    <2>4. heap' \in [DOMAIN heap' -> Item]
      <3>1. heap' = [n \in DOMAIN heap' |-> heap'[n]]
        BY <1>1 DEF With
      <3>2. \A n \in DOMAIN heap' : heap'[n] \in Item
        BY <2>2, <2>3, NewTypes DEF ItemsOK
      <3> QED BY <3>1, <3>2
    <2>5. held' \in Seq(DOMAIN heap' \cup {Null}) /\ held' \in Seq(Nat)
      <3>1. held \in Seq(DOMAIN heap' \cup {Null})
        BY <2>2, Wider DEF LinksOK
      <3> QED BY <1>1, <2>1, <2>2, <3>1 DEF ItemsOK
    <2>6. \A n \in DOMAIN heap' :
             /\ heap'[n].next \in DOMAIN heap' \cup {Null}
             /\ heap'[n].child \in DOMAIN heap' \cup {Null}
             /\ heap'[n].string \in DOMAIN texts \cup {Null}
             /\ heap'[n].valuestring \in DOMAIN texts \cup {Null}
      <3> SUFFICES ASSUME NEW n \in DOMAIN heap'
                   PROVE  /\ heap'[n].next \in DOMAIN heap' \cup {Null}
                          /\ heap'[n].child \in DOMAIN heap' \cup {Null}
                          /\ heap'[n].string \in DOMAIN texts \cup {Null}
                          /\ heap'[n].valuestring \in DOMAIN texts \cup {Null}
        OBVIOUS
      <3>1. CASE n = names'
        BY <3>1, <2>3 DEF NewItem
      <3>2. CASE n # names'
        BY <3>2, <2>2, <2>3 DEF LinksOK
      <3> QED BY <3>1, <3>2
    <2> QED BY <1>1, <1>u, <2>1, <2>2, <2>4, <2>5, <2>6 DEF ItemsOK, LinksOK
  <1>2. ASSUME held' = Append(held, Null), failed' = failed \cup {"container"},
               UNCHANGED <<names, heap>>
        PROVE  ItemsOK' /\ LinksOK'
    <2>1. held' \in Seq(DOMAIN heap \cup {Null}) /\ held' \in Seq(Nat)
      BY <1>2 DEF ItemsOK, LinksOK, Null
    <2> QED BY <1>2, <1>u, <2>1 DEF ItemsOK, LinksOK
  <1>3. ItemsOK' /\ LinksOK'
    BY <1>1, <1>2 DEF Create
  <1> HIDE DEF BufferInv
  <1> QED BY <1>3, Building

LEMMA MemberItem ==
  ASSUME NEW new \in Members, NEW str \in Nat, NEW copy \in Nat,
         NEW val \in Scalars \cup {<< >>}
  PROVE  /\ NewItem(new.type, str, copy, val) \in Item
         /\ NewItem(new.type, str, copy, val).next = Null
         /\ NewItem(new.type, str, copy, val).child = Null
         /\ NewItem(new.type, str, copy, val).valuestring = copy
         /\ NewItem(new.type, str, copy, val).string = str
  <1>1. new.type \in Kinds \cup {"text", "scalar"} /\ Null \in Nat
    BY DEF Members, Null
  <1> QED BY <1>1 DEF NewItem, Item

LEMMA MemberLinked ==
  ASSUME BufferInv, NEW i \in DOMAIN held, NEW key \in Strings, NEW new \in Members,
         NEW copied \in BOOLEAN, copied => new.type = "text", NEW keyed \in BOOLEAN,
         NEW n, n = names + 1,
         NEW v, v = IF copied THEN n + 1 ELSE n,
         NEW k, k = IF keyed THEN v + 1 ELSE v,
         NEW item \in Item,
         item.next = Null, item.child = Null,
         item.valuestring = (IF copied THEN v ELSE Null),
         item.string = (IF keyed THEN k ELSE Null),
         at = "building", names' = k,
         heap' = IF held[i] = Null THEN With(heap, n, item)
                 ELSE Linked(With(heap, n, item), held[i], n),
         texts' = [m \in DOMAIN texts \cup (n + 1 .. k) |->
                     IF m \in DOMAIN texts THEN texts[m]
                     ELSE IF copied /\ m = v THEN new.says ELSE key],
         failed' \subseteq {"container", "member", "buffer"},
         calls' \in 0 .. MaxCalls, UNCHANGED <<held, printer, at>>
  PROVE  ItemsOK' /\ LinksOK'
  <1> DEFINE D == DOMAIN heap \cup {n}
             heap1 == With(heap, n, item)
  <1> USE DEF BufferInv
  <1>1. /\ n \in Nat /\ v \in Nat /\ k \in Nat /\ n <= k
        /\ copied => v \in n + 1 .. k
        /\ keyed => k \in n + 1 .. k
        /\ 1 .. names \subseteq 1 .. k /\ n + 1 .. k \subseteq 1 .. k /\ n \in 1 .. k
    BY DEF ItemsOK
  <1>2. /\ item \in Item
        /\ item.next = Null /\ item.child = Null
        /\ item.valuestring = (IF copied THEN v ELSE Null)
        /\ item.string = (IF keyed THEN k ELSE Null)
    OBVIOUS
  <1>3. heap1 \in [D -> Item] /\ \A m \in D : heap1[m] = IF m = n THEN item ELSE heap[m]
    BY <1>2 DEF With, ItemsOK
  <1>4. /\ heap' \in [D -> Item]
        /\ \A m \in D : /\ heap'[m].next \in {heap1[m].next, n}
                        /\ heap'[m].child \in {heap1[m].child, n}
                        /\ heap'[m].string = heap1[m].string
                        /\ heap'[m].valuestring = heap1[m].valuestring
    <2>1. CASE held[i] = Null
      <3>1. heap' = heap1
        BY <2>1
      <3> HIDE DEF heap1
      <3> QED BY <1>3, <3>1
    <2>2. CASE held[i] # Null
      <3>1. held[i] \in D /\ n \in D
        BY <2>2 DEF LinksOK
      <3>2. D \in SUBSET Nat
        BY <1>1 DEF ItemsOK
      <3>3. heap' = Linked(heap1, held[i], n)
        BY <2>2
      <3>4. heap1 \in ItemsOn(D)
        BY <1>3 DEF ItemsOn
      <3> HIDE DEF D, heap1
      <3>5. /\ Linked(heap1, held[i], n) \in ItemsOn(D)
            /\ \A m \in D :
                  /\ Linked(heap1, held[i], n)[m].next \in {heap1[m].next, n}
                  /\ Linked(heap1, held[i], n)[m].child \in {heap1[m].child, n}
                  /\ Linked(heap1, held[i], n)[m].string = heap1[m].string
                  /\ Linked(heap1, held[i], n)[m].valuestring = heap1[m].valuestring
        BY ONLY <3>1, <3>2, <3>4, LinkedTypes
      <3> QED BY ONLY <3>3, <3>5 DEF ItemsOn
    <2> QED BY <2>1, <2>2
  <1>5. DOMAIN heap' = D /\ D \subseteq 1 .. k
    BY <1>1, <1>4 DEF ItemsOK
  <1>6. DOMAIN texts' = DOMAIN texts \cup (n + 1 .. k) /\ DOMAIN texts' \subseteq 1 .. k
    BY <1>1 DEF ItemsOK
  <1>7. texts' \in [DOMAIN texts' -> Strings]
    <2>1. copied => new.says \in Strings
      BY DEF Members
    <2>2. \A m \in DOMAIN texts \cup (n + 1 .. k) :
             (IF m \in DOMAIN texts THEN texts[m]
              ELSE IF copied /\ m = v THEN new.says ELSE key) \in Strings
      BY <2>1 DEF ItemsOK
    <2> QED BY <1>6, <2>2
  <1>8. ASSUME NEW m \in D
        PROVE  /\ heap'[m].next \in D \cup {Null}
               /\ heap'[m].child \in D \cup {Null}
               /\ heap'[m].string \in DOMAIN texts' \cup {Null}
               /\ heap'[m].valuestring \in DOMAIN texts' \cup {Null}
    <2>1. CASE m = n
      <3>1. heap1[m] = item
        BY <1>3, <2>1
      <3>2. item.next \in D \cup {Null} /\ item.child \in D \cup {Null}
        BY <1>2
      <3>3. item.string \in DOMAIN texts' \cup {Null}
        BY <1>1, <1>2, <1>6
      <3>4. item.valuestring \in DOMAIN texts' \cup {Null}
        BY <1>1, <1>2, <1>6
      <3>5. n \in D
        OBVIOUS
      <3> HIDE DEF heap1, D
      <3> QED BY <1>4, <3>1, <3>2, <3>3, <3>4, <3>5
    <2>2. CASE m # n
      <3>1. heap1[m] = heap[m] /\ m \in DOMAIN heap
        BY <1>3, <2>2
      <3>2. /\ heap[m].next \in D \cup {Null} /\ heap[m].child \in D \cup {Null}
            /\ heap[m].string \in DOMAIN texts' \cup {Null}
            /\ heap[m].valuestring \in DOMAIN texts' \cup {Null}
        BY <1>6, <3>1 DEF LinksOK
      <3> HIDE DEF heap1
      <3> QED BY <1>4, <3>1, <3>2
    <2> QED BY <2>1, <2>2
  <1>9. held' \in Seq(Nat) /\ held' \in Seq(D \cup {Null})
    <2>1. held \in Seq(D \cup {Null})
      BY Wider DEF LinksOK
    <2> QED BY <2>1 DEF ItemsOK
  <1>10. buffers' \subseteq 1 .. k /\ UNCHANGED <<buffer, length, written, todo, at>>
    BY <1>1 DEF ItemsOK, printer
  <1> HIDE DEF D, heap1
  <1>11. ItemsOK'
    BY <1>1, <1>4, <1>5, <1>6, <1>7, <1>9, <1>10 DEF ItemsOK
  <1>12. LinksOK'
    <2>1. DOMAIN heap' = D
      BY <1>5
    <2>2. \A m \in DOMAIN heap' :
             /\ heap'[m].next \in DOMAIN heap' \cup {Null}
             /\ heap'[m].child \in DOMAIN heap' \cup {Null}
             /\ heap'[m].string \in DOMAIN texts' \cup {Null}
             /\ heap'[m].valuestring \in DOMAIN texts' \cup {Null}
      BY ONLY <1>8, <2>1
    <2>3. held' \in Seq(DOMAIN heap' \cup {Null})
      BY ONLY <1>9, <2>1
    <2> QED BY ONLY <2>2, <2>3 DEF LinksOK
  <1> QED BY <1>11, <1>12

LEMMA AddMemberKeeps ==
  ASSUME BufferInv, NEW i \in DOMAIN held, NEW key \in Strings, NEW new \in Members,
         AddMember(i, key, new)
  PROVE  BufferInv'
  <1>1. at = "building" /\ calls' \in 0 .. MaxCalls /\ UNCHANGED <<held, printer, at>>
    BY AnswerAssumption DEF AddMember, BufferInv, ItemsOK
  <1>2. ASSUME failed' = failed \cup {"member"}, UNCHANGED <<names, heap, texts, meant>>
        PROVE  ItemsOK' /\ LinksOK'
    BY <1>1, <1>2 DEF BufferInv, ItemsOK, LinksOK, printer
  <1>3. ASSUME ~(failed' = failed \cup {"member"} /\ UNCHANGED <<names, heap, texts, meant>>)
        PROVE  ItemsOK' /\ LinksOK'
    <2> DEFINE n == names + 1
               V(copied) == IF copied THEN n + 1 ELSE n
               K(copied, keyed) == IF keyed THEN V(copied) + 1 ELSE V(copied)
               I(copied, keyed) ==
                  NewItem(new.type, IF keyed THEN K(copied, keyed) ELSE Null,
                          IF copied THEN V(copied) ELSE Null,
                          IF new.type = "scalar" THEN new.says ELSE << >>)
    <2>1. PICK copied \in {new.type = "text", FALSE},
               keyed  \in {held[i] # Null /\ meant[i].kind = "object", FALSE} :
             /\ names' = K(copied, keyed)
             /\ heap' = IF held[i] = Null THEN With(heap, n, I(copied, keyed))
                        ELSE Linked(With(heap, n, I(copied, keyed)), held[i], n)
             /\ texts' = [m \in DOMAIN texts \cup (n + 1 .. K(copied, keyed)) |->
                            IF m \in DOMAIN texts THEN texts[m]
                            ELSE IF copied /\ m = V(copied) THEN new.says ELSE key]
             /\ failed' \in {failed, failed \cup {"member"}}
      BY <1>3, Zenon DEF AddMember
    <2>2. failed' \subseteq {"container", "member", "buffer"}
      BY <2>1 DEF BufferInv, ItemsOK
    <2>3. keyed \in BOOLEAN /\ copied \in BOOLEAN /\ (copied => new.type = "text")
      OBVIOUS
    <2> DEFINE v == V(copied)
               k == K(copied, keyed)
               item == I(copied, keyed)
    <2>4. v = (IF copied THEN n + 1 ELSE n) /\ k = (IF keyed THEN v + 1 ELSE v)
      OBVIOUS
    <2>5. /\ item \in Item
          /\ item.next = Null /\ item.child = Null
          /\ item.valuestring = (IF copied THEN v ELSE Null)
          /\ item.string = (IF keyed THEN k ELSE Null)
      <3> DEFINE str == IF keyed THEN k ELSE Null
                 copy == IF copied THEN v ELSE Null
                 val == IF new.type = "scalar" THEN new.says ELSE << >>
      <3>1. str \in Nat /\ copy \in Nat
        BY DEF Null, BufferInv, ItemsOK
      <3>2. val \in Scalars \cup {<< >>}
        BY DEF Members
      <3>3. item = NewItem(new.type, str, copy, val)
        OBVIOUS
      <3>4. str = (IF keyed THEN k ELSE Null) /\ copy = (IF copied THEN v ELSE Null)
        OBVIOUS
      <3> HIDE DEF item, str, copy, val
      <3>5. /\ item \in Item /\ item.next = Null /\ item.child = Null
            /\ item.valuestring = copy /\ item.string = str
        BY <3>1, <3>2, <3>3, MemberItem
      <3> QED BY <3>4, <3>5
    <2>6. /\ names' = k
          /\ heap' = IF held[i] = Null THEN With(heap, n, item)
                     ELSE Linked(With(heap, n, item), held[i], n)
          /\ texts' = [m \in DOMAIN texts \cup (n + 1 .. k) |->
                         IF m \in DOMAIN texts THEN texts[m]
                         ELSE IF copied /\ m = v THEN new.says ELSE key]
      BY <2>1
    <2>7. n = names + 1
      OBVIOUS
    <2> HIDE DEF v, k, item, n, V, K, I
    <2> QED BY <1>1, <2>2, <2>3, <2>4, <2>5, <2>6, <2>7, MemberLinked
  <1> QED BY <1>1, <1>2, <1>3, Building

LEMMA Labelled ==
  ASSUME BufferInv, LinksOK, NEW c \in DOMAIN heap,
         NEW new, new = [heap EXCEPT ![c].string = names + 1]
  PROVE  /\ new \in ItemsOn(DOMAIN heap)
         /\ \A m \in DOMAIN heap :
               /\ new[m].next = heap[m].next /\ new[m].child = heap[m].child
               /\ new[m].valuestring = heap[m].valuestring
               /\ new[m].string \in {heap[m].string, names + 1}
  <1>1. heap[c] \in Item /\ names + 1 \in Nat
    BY DEF BufferInv, ItemsOK
  <1>2. /\ [heap[c] EXCEPT !.string = names + 1] \in Item
        /\ [heap[c] EXCEPT !.string = names + 1].next = heap[c].next
        /\ [heap[c] EXCEPT !.string = names + 1].child = heap[c].child
        /\ [heap[c] EXCEPT !.string = names + 1].valuestring = heap[c].valuestring
        /\ [heap[c] EXCEPT !.string = names + 1].string = names + 1
    BY <1>1 DEF Item
  <1>3. \A m \in DOMAIN heap :
           new[m] = IF m = c THEN [heap[c] EXCEPT !.string = names + 1] ELSE heap[m]
    OBVIOUS
  <1>4. new = [m \in DOMAIN heap |-> new[m]]
    OBVIOUS
  <1>5. \A m \in DOMAIN heap : new[m] \in Item
    BY <1>2, <1>3 DEF BufferInv, ItemsOK
  <1>6. new \in ItemsOn(DOMAIN heap)
    BY ONLY <1>4, <1>5 DEF ItemsOn
  <1> QED BY ONLY <1>2, <1>3, <1>6

LEMMA Attached ==
  ASSUME BufferInv, LinksOK, NEW c \in DOMAIN heap, NEW d \in DOMAIN heap, NEW key \in Strings,
         NEW keyed \in BOOLEAN, NEW heap1,
         heap1 = IF keyed THEN [heap EXCEPT ![c].string = names + 1] ELSE heap,
         heap' = Linked(heap1, d, c),
         names' = IF keyed THEN names + 1 ELSE names,
         texts' = IF keyed THEN With(texts, names + 1, key) ELSE texts,
         failed' \subseteq {"container", "member", "buffer"},
         UNCHANGED <<calls, printer, at>>, held' \in Seq(DOMAIN heap \cup {Null})
  PROVE  ItemsOK' /\ LinksOK'
  <1> DEFINE D == DOMAIN heap
  <1>1. /\ heap1 \in ItemsOn(D)
        /\ \A m \in D :
              /\ heap1[m].next = heap[m].next /\ heap1[m].child = heap[m].child
              /\ heap1[m].valuestring = heap[m].valuestring
              /\ heap1[m].string \in {heap[m].string} \cup (IF keyed THEN {names + 1} ELSE {})
    <2>1. CASE keyed
      <3>1. heap1 = [heap EXCEPT ![c].string = names + 1]
        BY <2>1
      <3>2. /\ heap1 \in ItemsOn(DOMAIN heap)
            /\ \A m \in DOMAIN heap :
                  /\ heap1[m].next = heap[m].next /\ heap1[m].child = heap[m].child
                  /\ heap1[m].valuestring = heap[m].valuestring
                  /\ heap1[m].string \in {heap[m].string, names + 1}
        BY <3>1, Labelled
      <3> QED BY ONLY <2>1, <3>2
    <2>2. CASE ~keyed
      BY <2>2 DEF BufferInv, ItemsOK, ItemsOn
    <2> QED BY <2>1, <2>2
  <1>2. /\ texts' \in [DOMAIN texts' -> Strings]
        /\ DOMAIN texts' = DOMAIN texts \cup (IF keyed THEN {names + 1} ELSE {})
    BY DEF With, BufferInv, ItemsOK
  <1>3. names' \in Nat /\ 1 .. names \subseteq 1 .. names' /\ (keyed => names + 1 \in 1 .. names')
    BY DEF BufferInv, ItemsOK
  <1>4. DOMAIN texts' \subseteq 1 .. names' /\ D \subseteq 1 .. names'
        /\ buffers \subseteq 1 .. names'
    <2>1. DOMAIN texts \subseteq 1 .. names /\ D \subseteq 1 .. names
          /\ buffers \subseteq 1 .. names
      BY DEF BufferInv, ItemsOK
    <2> HIDE DEF D
    <2> QED BY ONLY <1>2, <1>3, <2>1
  <1>5. D \in SUBSET Nat
    BY DEF BufferInv, ItemsOK
  <1>l. \A m \in D : /\ heap[m].next \in D \cup {Null} /\ heap[m].child \in D \cup {Null}
                     /\ heap[m].string \in DOMAIN texts \cup {Null}
                     /\ heap[m].valuestring \in DOMAIN texts \cup {Null}
    BY DEF LinksOK
  <1>c. c \in D /\ d \in D
    OBVIOUS
  <1> HIDE DEF D
  <1>6. /\ heap' \in ItemsOn(D)
        /\ \A m \in D :
              /\ heap'[m].next \in {heap1[m].next, c}
              /\ heap'[m].child \in {heap1[m].child, c}
              /\ heap'[m].string = heap1[m].string
              /\ heap'[m].valuestring = heap1[m].valuestring
    <2>1. /\ Linked(heap1, d, c) \in ItemsOn(D)
          /\ \A m \in D :
                /\ Linked(heap1, d, c)[m].next \in {heap1[m].next, c}
                /\ Linked(heap1, d, c)[m].child \in {heap1[m].child, c}
                /\ Linked(heap1, d, c)[m].string = heap1[m].string
                /\ Linked(heap1, d, c)[m].valuestring = heap1[m].valuestring
      BY ONLY <1>1, <1>5, <1>c, LinkedTypes
    <2>2. heap' = Linked(heap1, d, c)
      OBVIOUS
    <2> QED BY ONLY <2>1, <2>2
  <1>7. DOMAIN heap' = D /\ heap' \in [DOMAIN heap' -> Item]
    BY ONLY <1>6 DEF ItemsOn
  <1>d. ASSUME NEW m \in D
        PROVE  /\ heap'[m].next \in D \cup {Null} /\ heap'[m].child \in D \cup {Null}
               /\ heap'[m].string \in DOMAIN texts' \cup {Null}
               /\ heap'[m].valuestring \in DOMAIN texts' \cup {Null}
    <2>1. /\ heap1[m].next = heap[m].next /\ heap1[m].child = heap[m].child
          /\ heap1[m].valuestring = heap[m].valuestring
          /\ heap1[m].string \in {heap[m].string} \cup (IF keyed THEN {names + 1} ELSE {})
      BY <1>1
    <2>2. /\ heap'[m].next \in {heap1[m].next, c} /\ heap'[m].child \in {heap1[m].child, c}
          /\ heap'[m].string = heap1[m].string /\ heap'[m].valuestring = heap1[m].valuestring
      BY <1>6
    <2>3. /\ heap[m].next \in D \cup {Null} /\ heap[m].child \in D \cup {Null}
          /\ heap[m].string \in DOMAIN texts \cup {Null}
          /\ heap[m].valuestring \in DOMAIN texts \cup {Null}
      BY <1>l
    <2> QED BY ONLY <1>2, <1>c, <2>1, <2>2, <2>3
  <1>8. \A m \in DOMAIN heap' :
           /\ heap'[m].next \in DOMAIN heap' \cup {Null}
           /\ heap'[m].child \in DOMAIN heap' \cup {Null}
           /\ heap'[m].string \in DOMAIN texts' \cup {Null}
           /\ heap'[m].valuestring \in DOMAIN texts' \cup {Null}
    <2>1. DOMAIN heap' = D
      BY <1>7
    <2> QED BY ONLY <1>d, <2>1
  <1>9. held' \in Seq(DOMAIN heap' \cup {Null}) /\ held' \in Seq(Nat)
    <2>1. D \cup {Null} \subseteq Nat
      BY <1>5 DEF Null
    <2>2. held' \in Seq(D \cup {Null})
      BY DEF D
    <2> QED BY ONLY <1>7, <2>1, <2>2, Wider
  <1>10. ItemsOK'
    BY <1>2, <1>3, <1>4, <1>7, <1>9 DEF ItemsOK, BufferInv, printer
  <1>11. LinksOK'
    BY ONLY <1>8, <1>9 DEF LinksOK
  <1> QED BY <1>10, <1>11

LEMMA AttachKeeps ==
  ASSUME BufferInv, NEW i \in DOMAIN held, NEW j \in DOMAIN held, NEW key \in Strings,
         Attach(i, j, key)
  PROVE  BufferInv'
  <1>1. at = "building" /\ UNCHANGED <<calls, printer, at>> /\ LinksOK
    BY DEF Attach, BufferInv
  <1>2. held' \in Seq(DOMAIN heap \cup {Null}) /\ held' \in Seq(Nat)
    <2>1. held' = Without(held, i) /\ held \in Seq(Nat) /\ held \in Seq(DOMAIN heap \cup {Null})
      BY <1>1 DEF Attach, BufferInv, ItemsOK, LinksOK
    <2> QED BY <2>1, WithoutTypes
  <1>3. ASSUME UNCHANGED <<heap, texts, names, failed>>
        PROVE  ItemsOK' /\ LinksOK'
    BY <1>1, <1>2, <1>3 DEF BufferInv, ItemsOK, LinksOK, printer
  <1>4. ASSUME ~UNCHANGED <<heap, texts, names, failed>>
        PROVE  ItemsOK' /\ LinksOK'
    <2>1. held[i] \in DOMAIN heap /\ held[j] \in DOMAIN heap
      BY <1>1, <1>4 DEF Attach, LinksOK
    <2>2. PICK keyed \in {meant[j].kind = "object", FALSE} :
             /\ heap' = Linked(IF keyed THEN [heap EXCEPT ![held[i]].string = names + 1]
                               ELSE heap, held[j], held[i])
             /\ IF keyed THEN names' = names + 1 /\ texts' = With(texts, names', key)
                ELSE UNCHANGED <<names, texts>>
             /\ failed' = IF keyed \/ meant[j].kind = "array" THEN failed
                          ELSE failed \cup {"member"}
      BY <1>4 DEF Attach
    <2> DEFINE heap1 == IF keyed THEN [heap EXCEPT ![held[i]].string = names + 1] ELSE heap
    <2>3. heap' = Linked(heap1, held[j], held[i]) /\ keyed \in BOOLEAN
      BY <2>2
    <2>4. /\ names' = (IF keyed THEN names + 1 ELSE names)
          /\ texts' = (IF keyed THEN With(texts, names + 1, key) ELSE texts)
      BY <2>2
    <2>5. failed' \subseteq {"container", "member", "buffer"}
      BY <2>2 DEF BufferInv, ItemsOK
    <2>6. heap1 = IF keyed THEN [heap EXCEPT ![held[i]].string = names + 1] ELSE heap
      OBVIOUS
    <2> HIDE DEF heap1
    <2> QED BY <1>1, <1>2, <2>1, <2>3, <2>4, <2>5, <2>6, Attached
  <1> QED BY <1>1, <1>3, <1>4, Building

\* The printer leaves the tree as it is.
LEMMA SameTree ==
  ASSUME UNCHANGED tree PROVE LiveTasks' = LiveTasks /\ LinksOK' = LinksOK
  BY DEF tree, LiveTasks, LinksOK

\* What a step of the printer must do to keep the invariant.
LEMMA Printing ==
  ASSUME BufferInv, UNCHANGED tree,
         names' \in {names, names + 1}, buffers' \subseteq buffers \cup 1 .. names',
         buffer' \in Nat, length' \in Nat, written' \in Seq(Characters),
         todo' \in Seq(LiveTasks), failed' \in {failed, failed \cup {"buffer"}},
         at \in {"building", "printing"},
         at' \in {"printing", "printed"}, at' = "printed" => todo' = << >>,
         PrintsWithinBuffer'
  PROVE  BufferInv'
  <1>1. LiveTasks' = LiveTasks /\ LinksOK' = LinksOK
    BY SameTree
  <1>2. LiveTasks \subseteq Tasks
    BY DEF LiveTasks, Tasks, BufferInv, ItemsOK, Null
  <1>3. todo' \in Seq(Tasks)
    BY <1>2, Wider
  <1>4. names' \in Nat /\ 1 .. names \subseteq 1 .. names'
        /\ (names' = names + 1 => names' \in 1 .. names')
    BY DEF BufferInv, ItemsOK
  <1>5. buffers' \subseteq 1 .. names'
    BY <1>4 DEF BufferInv, ItemsOK
  <1>6. ItemsOK'
    BY <1>3, <1>4, <1>5 DEF BufferInv, ItemsOK, tree
  <1> QED BY <1>1, <1>6 DEF BufferInv

LEMMA GiveUpStays ==
  ASSUME BufferInv, GiveUp
  PROVE  /\ PrintsWithinBuffer' /\ names' = names /\ buffers' \subseteq buffers
         /\ buffer' = Null /\ length' = 0 /\ written' = << >> /\ todo' = << >>
         /\ at' = "printed"
  BY DEF GiveUp, BufferInv, PrintsWithinBuffer

LEMMA RespondKeeps == ASSUME BufferInv, Respond PROVE BufferInv'
  <1>1. /\ at = "building" /\ UNCHANGED tree /\ Len(held) = 1 /\ LinksOK
        /\ buffer = Null /\ written = << >> /\ buffers = {}
    BY DEF Respond, BufferInv, PrintsWithinBuffer
  <1>2. ASSUME names' = names + 1, buffers' = buffers \cup {names'}, buffer' = names',
               length' = InitialSize, at' = "printing", UNCHANGED <<failed, written>>,
               todo' = IF held[1] = Null THEN << >> ELSE ValueTasks(held[1]) \o <<Put(1, << >>)>>
        PROVE  BufferInv'
    <2>1. todo' \in Seq(LiveTasks)
      <3>1. CASE held[1] = Null
        BY <1>2, <3>1
      <3>2. CASE held[1] # Null
        <4>1. held[1] \in DOMAIN heap
          BY <1>1, <3>2 DEF LinksOK
        <4>2. ValueTasks(held[1]) \in Seq(LiveTasks)
          BY <1>1, <4>1, ValueTypes DEF BufferInv
        <4>3. Put(1, << >>) \in LiveTasks
          <5>1. << >> \in Seq(Characters) /\ Len(<< >>) <= 1 /\ 1 \in Nat
            OBVIOUS
          <5> QED BY <5>1, PutTypes
        <4>4. <<Put(1, << >>)>> \in Seq(LiveTasks)
          BY <4>3, One
        <4>5. todo' = ValueTasks(held[1]) \o <<Put(1, << >>)>>
          BY <1>2, <3>2
        <4> QED BY <4>2, <4>4, <4>5
      <3> QED BY <3>1, <3>2
    <2>2. names' \in Nat /\ names' # 0 /\ InitialSize \in Nat /\ InitialSize > 0
      BY <1>2, AnswerAssumption DEF BufferInv, ItemsOK
    <2>3. PrintsWithinBuffer'
      BY <1>1, <1>2, <2>2 DEF PrintsWithinBuffer, Null
    <2>4. written' \in Seq(Characters)
      BY <1>2 DEF BufferInv, ItemsOK
    <2> QED BY <1>1, <1>2, <2>1, <2>2, <2>3, <2>4, Printing
  <1>3. ASSUME failed' = failed \cup {"buffer"}, GiveUp PROVE BufferInv'
    <2>1. << >> \in Seq(Characters) /\ << >> \in Seq(LiveTasks) /\ Null \in Nat
      BY DEF Null
    <2> QED BY <1>1, <1>3, <2>1, GiveUpStays, Printing
  <1> QED BY <1>2, <1>3 DEF Respond

LEMMA Room ==
  ASSUME BufferInv, NEW need \in Nat, NEW text \in Seq(Characters), Len(text) <= need,
         Ensure(need), written' = written \o text
  PROVE  /\ PrintsWithinBuffer' /\ written' \in Seq(Characters)
         /\ names' \in {names, names + 1} /\ buffers' \subseteq buffers \cup 1 .. names'
         /\ buffer' \in Nat /\ length' \in Nat
  <1>1. /\ written \in Seq(Characters) /\ length \in Nat /\ names \in Nat /\ buffer \in Nat
        /\ buffers = {buffer} \ {Null}
    BY DEF BufferInv, ItemsOK, PrintsWithinBuffer
  <1>2. Len(written) \in Nat /\ Len(text) \in Nat
    BY <1>1
  <1>3. written' \in Seq(Characters) /\ Len(written') = Len(written) + Len(text)
    BY <1>1
  <1>4. Len(written') < Wanted(need) /\ Wanted(need) \in Nat
    BY <1>2, <1>3 DEF Wanted
  <1>5. CASE Wanted(need) <= length
    <2>1. UNCHANGED <<buffers, buffer, length, names>>
      BY <1>5 DEF Ensure
    <2>2. Len(written') < length'
      BY <1>1, <1>2, <1>3, <1>4, <1>5, <2>1
    <2> QED BY <1>1, <1>3, <2>1, <2>2 DEF PrintsWithinBuffer
  <1>6. CASE ~(Wanted(need) <= length)
    <2>1. /\ names' = names + 1 /\ buffers' = (buffers \ {buffer}) \cup {names'}
          /\ buffer' = names' /\ length' = 2 * Wanted(need)
      BY <1>6 DEF Ensure
    <2>2. Len(written') < length' /\ length' \in Nat
      BY <1>2, <1>3, <1>4, <2>1
    <2>3. buffers' = {buffer'} \ {Null} /\ buffer' \in Nat
      BY <1>1, <2>1 DEF Null
    <2>4. PrintsWithinBuffer'
      BY <2>2, <2>3 DEF PrintsWithinBuffer
    <2>5. names' \in 1 .. names' /\ buffers' \subseteq buffers \cup {names'}
      BY <1>1, <2>1
    <2> QED BY <1>3, <2>1, <2>2, <2>3, <2>4, <2>5
  <1> QED BY <1>5, <1>6

LEMMA WriteKeeps == ASSUME BufferInv, Write PROVE BufferInv'
  <1> DEFINE task == Head(todo)
  <1>1. at = "printing" /\ UNCHANGED tree /\ todo # << >> /\ task.do = "put"
        /\ todo \in Seq(LiveTasks)
    BY DEF Write, BufferInv
  <1>2. task \in LiveTasks /\ Tail(todo) \in Seq(LiveTasks)
    BY <1>1
  <1> HIDE DEF task
  <1>3. task.need \in Nat /\ task.text \in Seq(Characters) /\ Len(task.text) <= task.need
    BY <1>1, <1>2 DEF LiveTasks
  <1>4. ASSUME Ensure(task.need), written' = written \o task.text, todo' = Tail(todo),
               UNCHANGED <<failed, at>>
        PROVE  BufferInv'
    BY <1>1, <1>2, <1>3, <1>4, Room, Printing
  <1>5. ASSUME failed' = failed \cup {"buffer"}, GiveUp PROVE BufferInv'
    <2>1. << >> \in Seq(Characters) /\ << >> \in Seq(LiveTasks) /\ Null \in Nat
      BY DEF Null
    <2> QED BY <1>1, <1>5, <2>1, GiveUpStays, Printing
  <1> QED BY <1>4, <1>5 DEF Write, task

LEMMA WalkKeeps == ASSUME BufferInv, Walk PROVE BufferInv'
  <1> DEFINE task == Head(todo)
  <1>1. /\ at = "printing" /\ todo # << >> /\ task.do = "rest" /\ todo \in Seq(LiveTasks) /\ LinksOK
        /\ todo' = RestTasks(task.item, task.inObject) \o Tail(todo)
        /\ UNCHANGED <<tree, names, buffers, buffer, length, written, failed, at>>
    BY DEF Walk, BufferInv
  <1>2. task \in LiveTasks /\ Tail(todo) \in Seq(LiveTasks)
    BY <1>1
  <1> HIDE DEF task
  <1>3. task.item \in DOMAIN heap \cup {Null} /\ task.inObject \in BOOLEAN
    BY <1>1, <1>2 DEF LiveTasks
  <1>4. RestTasks(task.item, task.inObject) \in Seq(LiveTasks)
    BY <1>1, <1>3, ListTypes DEF BufferInv
  <1>5. todo' \in Seq(LiveTasks)
    BY <1>1, <1>2, <1>4
  <1>6. PrintsWithinBuffer'
    BY <1>1 DEF BufferInv, PrintsWithinBuffer
  <1>7. /\ names' \in {names, names + 1} /\ buffers' \subseteq buffers \cup 1 .. names'
        /\ buffer' \in Nat /\ length' \in Nat /\ written' \in Seq(Characters)
    BY <1>1 DEF BufferInv, ItemsOK
  <1> QED BY <1>1, <1>5, <1>6, <1>7, Printing

LEMMA EndPrintKeeps == ASSUME BufferInv, EndPrint PROVE BufferInv'
  <1>1. at = "printing" /\ todo = << >> /\ UNCHANGED <<tree, failed>>
    BY DEF EndPrint
  <1>2. << >> \in Seq(Characters) /\ << >> \in Seq(LiveTasks) /\ Null \in Nat
    BY DEF Null
  <1>3. CASE GiveUp
    BY <1>1, <1>2, <1>3, GiveUpStays, Printing
  <1>4. CASE at' = "printed" /\ UNCHANGED <<names, printer>>
    <2>1. PrintsWithinBuffer'
      BY <1>4 DEF printer, BufferInv, PrintsWithinBuffer
    <2>2. /\ names' \in {names, names + 1} /\ buffers' \subseteq buffers \cup 1 .. names'
          /\ buffer' \in Nat /\ length' \in Nat /\ written' \in Seq(Characters) /\ todo' = << >>
      BY <1>1, <1>4 DEF printer, BufferInv, ItemsOK
    <2> QED BY <1>1, <1>2, <1>4, <2>1, <2>2, Printing
  <1> QED BY <1>3, <1>4 DEF EndPrint

LEMMA DeleteKeeps == ASSUME BufferInv, DeleteTree PROVE BufferInv'
  <1> DEFINE freed == IF held[1] = Null THEN {} ELSE Below(heap, held[1])
             gone  == UNION {Owned(n) : n \in freed}
  <1>1. /\ at = "printed" /\ at' = "sending" /\ held' = << >>
        /\ heap' = [n \in DOMAIN heap \ freed |-> heap[n]]
        /\ texts' = [n \in DOMAIN texts \ gone |-> texts[n]]
        /\ UNCHANGED <<meant, calls, printer, names, failed>>
    BY DEF DeleteTree
  <1> HIDE DEF freed, gone
  <1>2. DOMAIN heap' \subseteq DOMAIN heap /\ heap' \in [DOMAIN heap' -> Item]
    BY <1>1 DEF BufferInv, ItemsOK
  <1>3. DOMAIN texts' \subseteq DOMAIN texts /\ texts' \in [DOMAIN texts' -> Strings]
    BY <1>1 DEF BufferInv, ItemsOK
  <1>4. ItemsOK'
    BY <1>1, <1>2, <1>3 DEF BufferInv, ItemsOK, printer
  <1> QED BY <1>1, <1>4 DEF BufferInv, PrintsWithinBuffer, printer

LEMMA SendKeeps == ASSUME BufferInv, Send PROVE BufferInv'
  <1>1. /\ at = "sending" /\ at' = "done" /\ buffers' = buffers \ {buffer} /\ buffer' = Null
        /\ UNCHANGED <<held, heap, texts, meant, calls, length, written, todo, names, failed>>
    BY DEF Send, tree
  <1>2. ItemsOK'
    BY <1>1 DEF BufferInv, ItemsOK, Null
  <1>3. PrintsWithinBuffer'
    BY <1>1 DEF BufferInv, PrintsWithinBuffer
  <1> QED BY <1>1, <1>2, <1>3 DEF BufferInv

\* Whatever a handler builds, whatever the strings it copies, however large
\* the answer and whichever allocation fails: the printer stays inside its
\* buffer, which ends with a byte to spare, and owns one buffer at a time.
THEOREM PrinterStaysInBuffer == Spec => []PrintsWithinBuffer
  <1>1. BufferInv /\ [Next]_vars => BufferInv'
    <2> SUFFICES ASSUME BufferInv, [Next]_vars PROVE BufferInv'
      OBVIOUS
    <2>1. ASSUME NEW kind \in Kinds, Create(kind) PROVE BufferInv'
      BY <2>1, CreateKeeps
    <2>2. ASSUME NEW i \in DOMAIN held, NEW key \in Strings, NEW new \in Members,
                 AddMember(i, key, new)
          PROVE  BufferInv'
      BY <2>2, AddMemberKeeps
    <2>3. ASSUME NEW i \in DOMAIN held, NEW j \in DOMAIN held, NEW key \in Strings,
                 Attach(i, j, key)
          PROVE  BufferInv'
      BY <2>3, AttachKeeps
    <2>4. ASSUME Respond \/ Write \/ Walk \/ EndPrint \/ DeleteTree \/ Send PROVE BufferInv'
      BY <2>4, RespondKeeps, WriteKeeps, WalkKeeps, EndPrintKeeps, DeleteKeeps, SendKeeps
    <2>5. ASSUME UNCHANGED vars PROVE BufferInv'
      <3> USE <2>5
      <3>1. UNCHANGED <<tree, buffers, buffer, length, written, todo, names, failed, at>>
        BY DEF vars, printer
      <3>2. ItemsOK' = ItemsOK /\ PrintsWithinBuffer' = PrintsWithinBuffer
        BY <3>1 DEF ItemsOK, PrintsWithinBuffer, tree
      <3> QED BY <3>1, <3>2, SameTree DEF BufferInv
    <2> QED BY <2>1, <2>2, <2>3, <2>4, <2>5 DEF Next
  <1>2. BufferInv => PrintsWithinBuffer
    BY DEF BufferInv
  <1> QED BY BufferInit, <1>1, <1>2, PTL DEF Spec

(***************************************************************************)
(* The recursive functions of the model, and what they compute.            *)
(***************************************************************************)
LEMMA LeastNumber ==
  ASSUME NEW S, S \subseteq Nat, S # {}
  PROVE  \E n \in S : \A m \in S : ~ (m < n)
  <1> DEFINE R == OpToRel(<, Nat)
  <1>1. \A m, n \in Nat : m < n => <<m, n>> \in R
    BY DEF OpToRel
  <1>2. IsWellFoundedOn(R, Nat)
    BY Zenon, NatLessThanWellFounded
  <1> HIDE DEF R
  <1>3. PICK n \in S : \A m \in S : ~ (<<m, n>> \in R)
    BY <1>2, WFMin
  <1>4. \A m \in S : ~ (m < n)
    BY <1>1, <1>3
  <1> QED BY <1>3, <1>4

\* Pieces put together from the last to the first, and what follows them.
Joined(f, L, piece, end) ==
  f = [i \in 1 .. L + 1 |-> IF i > L THEN end ELSE piece[i] \o f[i + 1]]

LEMMA JoinedExists ==
  ASSUME NEW L \in Nat, NEW S, NEW end \in Seq(S), NEW piece \in [1 .. L -> Seq(S)]
  PROVE  \E f : Joined(f, L, piece, end)
  <1> DEFINE From(k) == {f \in [L + 1 - k .. L + 1 -> Seq(S)] :
                            \A i \in L + 1 - k .. L + 1 :
                               f[i] = IF i > L THEN end ELSE piece[i] \o f[i + 1]}
             missing == {k \in 0 .. L : From(k) = {}}
  <1>1. ASSUME missing # {} PROVE FALSE
    <2>1. missing \subseteq Nat
      OBVIOUS
    <2>2. PICK k \in missing : \A l \in missing : ~ (l < k)
      BY <1>1, <2>1, LeastNumber
    <2>3. CASE k = 0
      <3>1. [i \in L + 1 - k .. L + 1 |-> end] \in From(k)
        BY <2>3
      <3> QED BY <2>2, <3>1
    <2>4. CASE k # 0
      <3>1. k - 1 \in 0 .. L /\ k - 1 < k /\ L + 1 - k \in 1 .. L
            /\ L + 1 - (k - 1) = (L + 1 - k) + 1
        BY <2>2, <2>4
      <3>2. PICK f \in From(k - 1) : TRUE
        BY <2>2, <3>1
      <3> DEFINE b == L + 1 - k
                 g == [i \in b .. L + 1 |-> IF i = b THEN piece[b] \o f[b + 1] ELSE f[i]]
      <3>3. /\ f \in [b + 1 .. L + 1 -> Seq(S)]
            /\ \A i \in b + 1 .. L + 1 : f[i] = IF i > L THEN end ELSE piece[i] \o f[i + 1]
        BY <3>1, <3>2
      <3>4. b \in 1 .. L
        BY <3>1
      <3> HIDE DEF b
      <3>5. piece[b] \in Seq(S) /\ f[b + 1] \in Seq(S)
        BY <3>3, <3>4
      <3>6. piece[b] \o f[b + 1] \in Seq(S)
        BY <3>5
      <3>7. g \in [b .. L + 1 -> Seq(S)]
        BY <3>3, <3>4, <3>6
      <3>8. ASSUME NEW i \in b .. L + 1
            PROVE  g[i] = IF i > L THEN end ELSE piece[i] \o g[i + 1]
        <4>1. CASE i = b
          <5>1. g[i] = piece[b] \o f[b + 1]
            BY <3>4, <4>1
          <5>2. g[i + 1] = f[b + 1] /\ ~(i > L)
            BY <3>4, <4>1
          <5> HIDE DEF g
          <5> QED BY <4>1, <5>1, <5>2
        <4>2. CASE i # b
          <5>1. i \in b + 1 .. L + 1 /\ g[i] = f[i]
            BY <3>4, <4>2
          <5>2. i <= L => g[i + 1] = f[i + 1]
            BY <3>4, <5>1
          <5> HIDE DEF g
          <5> QED BY <3>3, <3>4, <5>1, <5>2
        <4> QED BY <4>1, <4>2
      <3> HIDE DEF g
      <3>9. g \in From(k)
        BY <3>7, <3>8 DEF b
      <3> QED BY <2>2, <3>9
    <2> QED BY <2>3, <2>4
  <1>2. L \in 0 .. L /\ L + 1 - L = 1
    OBVIOUS
  <1>3. PICK f \in From(L) : TRUE
    BY <1>1, <1>2
  <1>4. /\ f \in [1 .. L + 1 -> Seq(S)]
        /\ \A i \in 1 .. L + 1 : f[i] = IF i > L THEN end ELSE piece[i] \o f[i + 1]
    BY <1>2, <1>3
  <1> HIDE DEF From
  <1> QED BY <1>4 DEF Joined

LEMMA JoinedTypes ==
  ASSUME NEW L \in Nat, NEW S, NEW end \in Seq(S), NEW piece \in [1 .. L -> Seq(S)],
         NEW f, Joined(f, L, piece, end)
  PROVE  \A i \in 1 .. L + 1 : f[i] \in Seq(S)
  <1> DEFINE wrong == {k \in 0 .. L : f[L + 1 - k] \notin Seq(S)}
  <1>1. wrong \subseteq Nat
    OBVIOUS
  <1>2. \A i \in 1 .. L + 1 : f[i] = IF i > L THEN end ELSE piece[i] \o f[i + 1]
    BY DEF Joined
  <1>3. ASSUME wrong # {} PROVE FALSE
    <2>1. PICK k \in wrong : \A l \in wrong : ~ (l < k)
      BY <1>1, <1>3, LeastNumber
    <2>2. CASE k = 0
      BY <1>2, <2>1, <2>2
    <2>3. CASE k # 0
      <3>1. k - 1 \in 0 .. L /\ k - 1 < k /\ L + 1 - (k - 1) = (L + 1 - k) + 1
            /\ L + 1 - k \in 1 .. L /\ f[L + 1 - k] \notin Seq(S)
        BY <2>1, <2>3
      <3>2. f[(L + 1 - k) + 1] \in Seq(S)
        BY <2>1, <3>1
      <3>3. f[L + 1 - k] = piece[L + 1 - k] \o f[(L + 1 - k) + 1]
        <4>1. L + 1 - k \in 1 .. L + 1 /\ ~(L + 1 - k > L)
          BY <3>1
        <4> HIDE DEF wrong
        <4> QED BY <1>2, <4>1
      <3>4. piece[L + 1 - k] \in Seq(S)
        BY <3>1
      <3> QED BY <3>1, <3>2, <3>3, <3>4
    <2> QED BY <2>2, <2>3
  <1>4. ASSUME NEW i \in 1 .. L + 1 PROVE f[i] \in Seq(S)
    <2>1. L + 1 - i \in 0 .. L /\ L + 1 - (L + 1 - i) = i
      OBVIOUS
    <2>2. L + 1 - i \notin wrong
      BY <1>3
    <2> QED BY <2>1, <2>2
  <1> QED BY <1>4

EscapedPieces(s) == [i \in 1 .. Len(s) |-> Escaped(s[i])]

LEMMA QuotedFrom ==
  ASSUME NEW s \in Seq({"plain", "special"})
  PROVE  /\ Len(s) \in Nat /\ <<"quote">> \in Seq(Characters)
         /\ EscapedPieces(s) \in [1 .. Len(s) -> Seq(Characters)]
         /\ \E f : /\ Joined(f, Len(s), EscapedPieces(s), <<"quote">>)
                   /\ Quoted(s) = <<"quote">> \o f[1]
  <1> DEFINE L == Len(s)
             piece == EscapedPieces(s)
             Step(f) == [i \in 1 .. Len(s) + 1 |->
                           IF i > Len(s) THEN <<"quote">> ELSE Escaped(s[i]) \o f[i + 1]]
             from == CHOOSE f : f = Step(f)
  <1>1. L \in Nat /\ <<"quote">> \in Seq(Characters)
    <2>1. L \in Nat
      OBVIOUS
    <2>2. "quote" \in Characters
      BY Punctuation
    <2> HIDE DEF L
    <2> QED BY <2>1, <2>2, One
  <1>2. ASSUME NEW i \in 1 .. L PROVE Escaped(s[i]) \in Seq(Characters)
    <2>1. s[i] \in {"plain", "special"}
      OBVIOUS
    <2>2. s[i] \in Characters
      BY <2>1 DEF Characters
    <2> QED BY <2>2, EscapedTypes
  <1>3. piece \in [1 .. L -> Seq(Characters)]
    BY <1>2 DEF EscapedPieces
  <1>4. ASSUME NEW f PROVE Joined(f, L, piece, <<"quote">>) <=> f = Step(f)
    <2>1. \A i \in 1 .. L : piece[i] = Escaped(s[i])
      BY DEF EscapedPieces
    <2>2. \A i \in 1 .. L + 1 : ~(i > L) => i \in 1 .. L
      OBVIOUS
    <2> HIDE DEF piece
    <2>3. Step(f) = [i \in 1 .. L + 1 |-> IF i > L THEN <<"quote">> ELSE piece[i] \o f[i + 1]]
      BY <2>1, <2>2
    <2> HIDE DEF Step
    <2> QED BY <2>3 DEF Joined
  <1>5. Quoted(s) = <<"quote">> \o from[1]
    BY DEF Quoted
  <1> HIDE DEF L, piece, Step
  <1>6. from = Step(from)
    BY <1>1, <1>3, <1>4, JoinedExists
  <1>7. Joined(from, L, piece, <<"quote">>)
    <2> HIDE DEF from
    <2> QED BY <1>4, <1>6
  <1> HIDE DEF from
  <1> QED BY <1>1, <1>3, <1>5, <1>7 DEF L, piece

LEMMA QuotedTypes ==
  ASSUME NEW s \in Seq({"plain", "special"}) PROVE Quoted(s) \in Seq(Characters)
  <1> DEFINE L == Len(s)
             piece == EscapedPieces(s)
             quote == <<"quote">>
  <1>1. /\ L \in Nat /\ quote \in Seq(Characters)
        /\ piece \in [1 .. L -> Seq(Characters)]
        /\ \E f : Joined(f, L, piece, quote) /\ Quoted(s) = quote \o f[1]
    BY QuotedFrom
  <1> HIDE DEF L, piece, quote
  <1>2. PICK f : Joined(f, L, piece, quote) /\ Quoted(s) = quote \o f[1]
    BY <1>1
  <1>3. \A i \in 1 .. L + 1 : f[i] \in Seq(Characters)
    BY <1>1, <1>2, JoinedTypes
  <1>4. f[1] \in Seq(Characters)
    BY <1>1, <1>3
  <1> QED BY <1>1, <1>2, <1>4

MemberPieces(members) ==
  [i \in 1 .. Len(members) |-> (IF i > 1 THEN <<",">> ELSE << >>) \o members[i]]

LEMMA SaidFrom ==
  ASSUME NEW m \in Meaning
  PROVE  /\ Len(m.members) \in Nat
         /\ <<Opening(m.kind)>> \in Seq(Characters) /\ <<Closing(m.kind)>> \in Seq(Characters)
         /\ MemberPieces(m.members) \in [1 .. Len(m.members) -> Seq(Characters)]
         /\ \E f : /\ Joined(f, Len(m.members), MemberPieces(m.members), <<Closing(m.kind)>>)
                   /\ Said(m) = <<Opening(m.kind)>> \o f[1]
  <1> DEFINE L == Len(m.members)
             end == <<Closing(m.kind)>>
             piece == MemberPieces(m.members)
             Step(f) == [i \in 1 .. Len(m.members) + 1 |->
                IF i > Len(m.members) THEN <<Closing(m.kind)>>
                ELSE (IF i > 1 THEN <<",">> ELSE << >>) \o m.members[i] \o f[i + 1]]
             from == CHOOSE f : f = Step(f)
  <1>1. m.kind \in Kinds /\ m.members \in Seq(Seq(Characters)) /\ L \in Nat
    BY DEF Meaning
  <1>2. end \in Seq(Characters) /\ <<Opening(m.kind)>> \in Seq(Characters)
    BY <1>1, Punctuation, One
  <1>3. ASSUME NEW i \in 1 .. L
        PROVE  /\ m.members[i] \in Seq(Characters)
               /\ (IF i > 1 THEN <<",">> ELSE << >>) \in Seq(Characters)
    <2>1. m.members[i] \in Seq(Characters)
      BY <1>1
    <2>2. <<",">> \in Seq(Characters) /\ << >> \in Seq(Characters)
      <3>1. "," \in Characters
        BY Punctuation
      <3>2. << >> \in Seq(Characters)
        OBVIOUS
      <3> QED BY <3>1, <3>2, One
    <2> QED BY <2>1, <2>2, Zenon
  <1>4. piece \in [1 .. L -> Seq(Characters)]
    <2>1. ASSUME NEW s \in Seq(Characters), NEW t \in Seq(Characters)
          PROVE  s \o t \in Seq(Characters)
      OBVIOUS
    <2>2. \A i \in 1 .. L :
             (IF i > 1 THEN <<",">> ELSE << >>) \o m.members[i] \in Seq(Characters)
      BY <1>3, <2>1, Zenon
    <2> QED BY <2>2, Zenon DEF MemberPieces
  <1>5. ASSUME NEW f PROVE Joined(f, L, piece, end) <=> f = Step(f)
    <2>1. \A i \in 1 .. L : piece[i] = (IF i > 1 THEN <<",">> ELSE << >>) \o m.members[i]
      BY DEF MemberPieces
    <2>2. \A i \in 1 .. L + 1 : ~(i > L) => i \in 1 .. L
      BY <1>1
    <2> HIDE DEF piece
    <2>3. Step(f) = [i \in 1 .. L + 1 |-> IF i > L THEN end ELSE piece[i] \o f[i + 1]]
      BY <2>1, <2>2
    <2> HIDE DEF Step
    <2> QED BY <2>3 DEF Joined
  <1>6. Said(m) = <<Opening(m.kind)>> \o from[1]
    BY DEF Said
  <1> HIDE DEF L, piece, Step, end
  <1>7. from = Step(from)
    BY <1>1, <1>2, <1>4, <1>5, JoinedExists
  <1>8. Joined(from, L, piece, end)
    <2> HIDE DEF from
    <2> QED BY <1>5, <1>7
  <1> HIDE DEF from
  <1> QED BY <1>1, <1>2, <1>4, <1>6, <1>8 DEF L, piece, end

LEMMA MembersSaid ==
  ASSUME NEW m \in Meaning PROVE Said(m) \in Seq(Characters)
  <1> DEFINE L == Len(m.members)
             end == <<Closing(m.kind)>>
             open == <<Opening(m.kind)>>
             piece == MemberPieces(m.members)
  <1>1. /\ L \in Nat /\ open \in Seq(Characters) /\ end \in Seq(Characters)
        /\ piece \in [1 .. L -> Seq(Characters)]
        /\ \E f : Joined(f, L, piece, end) /\ Said(m) = open \o f[1]
    BY SaidFrom
  <1> HIDE DEF L, piece, end, open
  <1>2. PICK f : Joined(f, L, piece, end) /\ Said(m) = open \o f[1]
    BY <1>1
  <1>3. \A i \in 1 .. L + 1 : f[i] \in Seq(Characters)
    BY <1>1, <1>2, JoinedTypes
  <1>4. f[1] \in Seq(Characters)
    BY <1>1, <1>3
  <1> QED BY <1>1, <1>2, <1>4

LEMMA SayingTypes ==
  ASSUME NEW m \in Meaning, NEW key \in Seq({"plain", "special"}), NEW value \in Seq(Characters)
  PROVE  Saying(m, key, value) \in Meaning
  <1> DEFINE label == IF m.kind = "object" THEN Quoted(key) \o <<":">> ELSE << >>
  <1>1. label \in Seq(Characters)
    <2>1. Quoted(key) \in Seq(Characters)
      BY QuotedTypes
    <2>2. <<":">> \in Seq(Characters)
      BY Punctuation, One
    <2> QED BY <2>1, <2>2
  <1>2. Saying(m, key, value) = [m EXCEPT !.members = Append(@, label \o value)]
    BY DEF Saying
  <1> HIDE DEF label
  <1>3. m.members \in Seq(Seq(Characters)) /\ label \o value \in Seq(Characters)
    BY <1>1 DEF Meaning
  <1>4. Append(m.members, label \o value) \in Seq(Seq(Characters))
    BY <1>3
  <1> QED BY <1>2, <1>4 DEF Meaning

(***************************************************************************)
(* Appending to a list.                                                    *)
(***************************************************************************)
\* No list runs in a circle.
Ended(items) ==
  \A S \in SUBSET DOMAIN items : S # {} => \E n \in S : items[n].next \notin S

NextStays(items, S) == \A n \in S : items[n].next \in S \cup {Null}

Closed(items, S) == \A n \in S : {items[n].next, items[n].child} \subseteq S \cup {Null}

IsLinked(items, n) == \E m \in DOMAIN items : n \in {items[m].next, items[m].child}

\* An item hangs on one other item at most, by one of its links.
Sole(items) ==
  \A m, k \in DOMAIN items :
     /\ items[m].next # Null /\ items[m].next = items[k].next => m = k
     /\ items[m].child # Null /\ items[m].child = items[k].child => m = k
     /\ items[m].next # Null => items[m].next # items[k].child

\* What follows m in its list, with m.
Following(items, m) ==
  {k \in DOMAIN items :
      \A S \in SUBSET DOMAIN items : m \in S /\ NextStays(items, S) => k \in S}

LEMMA FollowingStays ==
  ASSUME NEW D \in SUBSET (Nat \ {Null}), NEW items \in ItemsOn(D),
         NextStays(items, D), NEW m \in D
  PROVE  /\ Following(items, m) \subseteq D /\ m \in Following(items, m)
         /\ NextStays(items, Following(items, m))
  <1> D = DOMAIN items
    BY DEF ItemsOn
  <1>1. Following(items, m) \subseteq D /\ m \in Following(items, m)
    BY DEF Following
  <1>2. ASSUME NEW n \in Following(items, m), items[n].next # Null
        PROVE  items[n].next \in Following(items, m)
    <2>1. items[n].next \in D
      BY <1>1, <1>2 DEF NextStays
    <2>2. ASSUME NEW S \in SUBSET DOMAIN items, m \in S, NextStays(items, S)
          PROVE  items[n].next \in S
      <3>1. n \in S
        BY <2>2 DEF Following
      <3> QED BY <1>2, <2>2, <3>1 DEF NextStays
    <2> QED BY <2>1, <2>2 DEF Following
  <1> QED BY <1>1, <1>2 DEF NextStays

\* The end of a list, found by going from item to item, ...
LastFrom(items, f) ==
  f = [m \in DOMAIN items |-> IF items[m].next = Null THEN m ELSE f[items[m].next]]

LEMMA LastExists ==
  ASSUME NEW D \in SUBSET (Nat \ {Null}), NEW items \in ItemsOn(D),
         NextStays(items, D), Ended(items)
  PROVE  \E f : LastFrom(items, f)
  <1> DEFINE Ends(m) == {k \in Following(items, m) : items[k].next = Null}
             end(m) == CHOOSE k \in Ends(m) : TRUE
             f == [m \in DOMAIN items |-> end(m)]
  <1>d. D = DOMAIN items
    BY DEF ItemsOn
  <1>1. ASSUME NEW m \in D, items[m].next = Null PROVE Ends(m) = {m}
    <2>1. {m} \in SUBSET DOMAIN items /\ NextStays(items, {m})
      BY <1>1, <1>d DEF NextStays
    <2>2. Following(items, m) \subseteq {m}
      BY <2>1 DEF Following
    <2>3. m \in Following(items, m)
      BY FollowingStays
    <2> QED BY <1>1, <2>2, <2>3
  <1>2. ASSUME NEW m \in D, items[m].next # Null
        PROVE  items[m].next \in D /\ Ends(m) = Ends(items[m].next)
    <2> DEFINE n == items[m].next
    <2>1. n \in D
      BY <1>2 DEF NextStays
    <2>2. /\ Following(items, n) \subseteq D /\ n \in Following(items, n)
          /\ NextStays(items, Following(items, n))
      BY <2>1, FollowingStays
    <2>3. /\ Following(items, m) \subseteq D /\ m \in Following(items, m)
          /\ NextStays(items, Following(items, m))
      BY FollowingStays
    <2>4. Following(items, m) \subseteq Following(items, n) \cup {m}
      <3>1. NextStays(items, Following(items, n) \cup {m})
        BY <2>2 DEF NextStays
      <3> HIDE DEF n
      <3> QED BY <1>d, <2>2, <3>1 DEF Following
    <2>5. Following(items, n) \subseteq Following(items, m)
      <3>1. n \in Following(items, m)
        BY <1>2, <2>3 DEF NextStays
      <3> HIDE DEF n
      <3> QED BY <1>d, <2>3, <3>1 DEF Following
    <2> HIDE DEF n
    <2>6. n = items[m].next
      BY DEF n
    <2> QED BY <1>2, <2>1, <2>4, <2>5, <2>6
  <1>3. ASSUME NEW m \in D
        PROVE  f[m] = IF items[m].next = Null THEN m ELSE f[items[m].next]
    <2>1. f[m] = CHOOSE k \in Ends(m) : TRUE
      BY <1>d
    <2>2. CASE items[m].next = Null
      <3>1. Ends(m) = {m}
        BY <1>1, <2>2
      <3> HIDE DEF Ends, f
      <3> QED BY <2>1, <2>2, <3>1
    <2>3. CASE items[m].next # Null
      <3>1. items[m].next \in D /\ Ends(m) = Ends(items[m].next)
        BY <1>2, <2>3
      <3>2. f[items[m].next] = CHOOSE k \in Ends(items[m].next) : TRUE
        BY <1>d, <3>1
      <3> HIDE DEF Ends, f
      <3> QED BY <2>1, <2>3, <3>1, <3>2
    <2> QED BY <2>2, <2>3
  <1>4. f = [m \in DOMAIN items |-> f[m]]
    <2> HIDE DEF end
    <2> QED OBVIOUS
  <1> HIDE DEF f
  <1>5. f = [m \in DOMAIN items |-> IF items[m].next = Null THEN m ELSE f[items[m].next]]
    BY ONLY <1>d, <1>3, <1>4
  <1> QED BY <1>5 DEF LastFrom

\* ... is an end, and part of whatever holds the start and what follows.
LEMMA LastEnds ==
  ASSUME NEW D \in SUBSET (Nat \ {Null}), NEW items \in ItemsOn(D),
         NextStays(items, D), Ended(items), NEW f, LastFrom(items, f), NEW m \in D
  PROVE  /\ f[m] \in D /\ items[f[m]].next = Null
         /\ \A S \in SUBSET D : m \in S /\ NextStays(items, S) => f[m] \in S
  <1> DEFINE Good(n) ==
                /\ f[n] \in D /\ items[f[n]].next = Null
                /\ \A S \in SUBSET D : n \in S /\ NextStays(items, S) => f[n] \in S
             bad == {n \in D : ~Good(n)}
  <1>d. D = DOMAIN items
    BY DEF ItemsOn
  <1>1. \A n \in D : f[n] = IF items[n].next = Null THEN n ELSE f[items[n].next]
    BY <1>d DEF LastFrom
  <1>2. ASSUME bad # {} PROVE FALSE
    <2>1. PICK n \in bad : items[n].next \notin bad
      BY <1>d, <1>2 DEF Ended
    <2>2. n \in D /\ ~Good(n)
      BY <2>1
    <2>3. CASE items[n].next = Null
      <3>1. f[n] = n
        BY <1>1, <2>2, <2>3
      <3>2. Good(n)
        BY <2>2, <2>3, <3>1
      <3> QED BY <2>2, <3>2
    <2>4. CASE items[n].next # Null
      <3>1. items[n].next \in D /\ f[n] = f[items[n].next]
        BY <1>1, <2>2, <2>4 DEF NextStays
      <3>2. Good(items[n].next)
        BY <2>1, <3>1
      <3>3. \A S \in SUBSET D : n \in S /\ NextStays(items, S) => items[n].next \in S
        BY <2>4 DEF NextStays
      <3>4. Good(n)
        BY <3>1, <3>2, <3>3
      <3> QED BY <2>2, <3>4
    <2> QED BY <2>3, <2>4
  <1> QED BY <1>2

\* The items when x is followed by n.
NextSet(items, x, n) == [items EXCEPT ![x].next = n]

\* What cJSON_AddItemToArray overwrites is the end of a list that is not `n`.
LEMMA LinkedAt ==
  ASSUME NEW D \in SUBSET (Nat \ {Null}), NEW items \in ItemsOn(D),
         NextStays(items, D), Ended(items), NEW c \in D, NEW n, items[c].child # Null,
         items[c].child \in D
  PROVE  \E x \in D :
            /\ Linked(items, c, n) = NextSet(items, x, n)
            /\ items[x].next = Null
            /\ \A S \in SUBSET D :
                  items[c].child \in S /\ NextStays(items, S) => x \in S
  <1> DEFINE last == CHOOSE last : last = [m \in DOMAIN items |->
                        IF items[m].next = Null THEN m ELSE last[items[m].next]]
             m == items[c].child
             x == last[m]
  <1>1. Linked(items, c, n) = NextSet(items, x, n)
    BY DEF Linked, NextSet
  <1>2. LastFrom(items, last)
    BY LastExists DEF LastFrom
  <1>3. m \in D /\ m = items[c].child
    OBVIOUS
  <1> HIDE DEF last, m
  <1>4. /\ x \in D /\ items[x].next = Null
        /\ \A S \in SUBSET D : m \in S /\ NextStays(items, S) => x \in S
    BY <1>2, <1>3, LastEnds
  <1> HIDE DEF x
  <1> QED BY <1>1, <1>3, <1>4

LEMMA AppendedOn ==
  ASSUME NEW D \in SUBSET (Nat \ {Null}), NEW items \in ItemsOn(D),
         Closed(items, D), Ended(items), NEW c \in D, NEW n \in D,
         Sole(items), items[n].next = Null, ~IsLinked(items, n), n # c,
         NEW new, new = Linked(items, c, n)
  PROVE  /\ Ended(new) /\ Sole(new)
         /\ \A S \in SUBSET D : c \in S /\ Closed(new, S) => n \in S /\ Closed(items, S)
         /\ \A m \in D : ~IsLinked(items, m) => new[m].next = items[m].next
         /\ \A m \in D : ~IsLinked(items, m) /\ m # n => ~IsLinked(new, m)
  <1>d. /\ D = DOMAIN items /\ D \in SUBSET Nat /\ Null \notin D
        /\ DOMAIN new = D
    BY LinkedTypes DEF ItemsOn
  <1>n. NextStays(items, D)
    BY DEF Closed, NextStays
  <1>4. \A m \in D : ~IsLinked(items, m) /\ m # n => ~IsLinked(new, m)
    <2>1. \A m \in D : /\ new[m].next \in {items[m].next, n}
                       /\ new[m].child \in {items[m].child, n}
      BY <1>d, LinkedTypes
    <2> QED BY <1>d, <2>1 DEF IsLinked
  <1>1. CASE items[c].child = Null
    <2>1. new = [items EXCEPT ![c].child = n]
      BY <1>1 DEF Linked
    <2>2. /\ \A m \in D : new[m].next = items[m].next
          /\ \A m \in D : m # c => new[m].child = items[m].child
          /\ new[c].child = n
      BY <2>1 DEF ItemsOn, Item
    <2>3. Ended(new)
      BY <1>d, <2>2 DEF Ended
    <2>5. Sole(new)
      <3>1. \A m \in D : items[m].next # n /\ items[m].child # n
        BY <1>d DEF IsLinked
      <3> QED BY <1>d, <2>2, <3>1 DEF Sole
    <2>4. ASSUME NEW S \in SUBSET D, c \in S, Closed(new, S)
          PROVE  n \in S /\ Closed(items, S)
      BY <1>1, <1>d, <2>2, <2>4 DEF Closed
    <2> QED BY <1>4, <2>2, <2>3, <2>4, <2>5
  <1>2. CASE items[c].child # Null
    <2>1. items[c].child \in D
      BY <1>2 DEF Closed
    <2>2. PICK x \in D :
            /\ Linked(items, c, n) = NextSet(items, x, n)
            /\ items[x].next = Null
            /\ \A S \in SUBSET D :
                  items[c].child \in S /\ NextStays(items, S) => x \in S
      <3>1. /\ D \in SUBSET (Nat \ {Null}) /\ items \in ItemsOn(D) /\ NextStays(items, D)
            /\ Ended(items) /\ c \in D /\ items[c].child # Null /\ items[c].child \in D
        BY <1>2, <1>n, <2>1
      <3> QED BY ONLY <3>1, LinkedAt
    <2>3. /\ \A m \in D : new[m].child = items[m].child
          /\ \A m \in D : m # x => new[m].next = items[m].next
          /\ new[x].next = n
      BY <2>2 DEF ItemsOn, Item, NextSet
    <2>4. IsLinked(items, x)
      <3> DEFINE S == {m \in D : IsLinked(items, m)}
      <3>1. items[c].child \in S
        BY <1>d, <2>1 DEF IsLinked
      <3>2. NextStays(items, S)
        BY <1>d, <1>n DEF NextStays, IsLinked
      <3>3. x \in S
        BY <2>2, <3>1, <3>2
      <3> QED BY <3>3
    <2>5. x # n
      BY <2>4
    <2>6. ASSUME NEW S \in SUBSET DOMAIN new, S # {} PROVE \E m \in S : new[m].next \notin S
      <3>1. PICK m \in S : items[m].next \notin S
        BY <1>d, <2>6 DEF Ended
      <3>2. CASE m # x
        BY <1>d, <2>3, <3>1, <3>2
      <3>3. CASE m = x /\ n \notin S
        BY <2>3, <3>3
      <3>4. CASE n \in S
        <4>1. new[n].next = Null /\ Null \notin S
          BY <1>d, <2>3, <2>5
        <4> QED BY <3>4, <4>1
      <3> QED BY <3>2, <3>3, <3>4
    <2>7. ASSUME NEW S \in SUBSET D, c \in S, Closed(new, S)
          PROVE  n \in S /\ Closed(items, S)
      <3>1. Closed(items, S)
        BY <2>2, <2>3, <2>7 DEF Closed
      <3>2. items[c].child \in S /\ NextStays(items, S)
        BY <1>2, <2>7, <3>1 DEF Closed, NextStays
      <3>3. x \in S
        BY <2>2, <3>2
      <3>4. n \in S
        BY <1>d, <2>3, <2>7, <3>3 DEF Closed
      <3> QED BY <3>1, <3>4
    <2>8. Sole(new)
      <3>1. \A m \in D : items[m].next # n /\ items[m].child # n
        BY <1>d DEF IsLinked
      <3> QED BY <1>d, <2>3, <3>1 DEF Sole
    <2> QED BY <1>4, <2>3, <2>4, <2>6, <2>7, <2>8 DEF Ended
  <1> QED BY <1>1, <1>2

ListsOK(items) ==
  /\ DOMAIN items \in SUBSET (Nat \ {Null}) /\ items \in ItemsOn(DOMAIN items)
  /\ Closed(items, DOMAIN items) /\ Ended(items) /\ Sole(items)

LEMMA Appended ==
  ASSUME NEW items, ListsOK(items), NEW c \in DOMAIN items, NEW n \in DOMAIN items,
         items[n].next = Null, ~IsLinked(items, n), n # c
  PROVE  /\ ListsOK(Linked(items, c, n)) /\ DOMAIN Linked(items, c, n) = DOMAIN items
         /\ \A S \in SUBSET DOMAIN items :
               c \in S /\ Closed(Linked(items, c, n), S) => n \in S /\ Closed(items, S)
         /\ \A m \in DOMAIN items :
               /\ Linked(items, c, n)[m].string = items[m].string
               /\ Linked(items, c, n)[m].valuestring = items[m].valuestring
               /\ ~IsLinked(items, m) => Linked(items, c, n)[m].next = items[m].next
               /\ ~IsLinked(items, m) /\ m # n => ~IsLinked(Linked(items, c, n), m)
  <1> DEFINE D == DOMAIN items
             new == Linked(items, c, n)
  <1>0. D \in SUBSET (Nat \ {Null}) /\ Closed(items, D) /\ Ended(items) /\ Sole(items)
    BY DEF ListsOK
  <1>n. D \in SUBSET Nat
    BY DEF ListsOK
  <1>1. items \in ItemsOn(D) /\ c \in D /\ n \in D
    BY DEF ListsOK
  <1>2. new = Linked(items, c, n) /\ items[n].next = Null /\ ~IsLinked(items, n) /\ n # c
    OBVIOUS
  <1> HIDE DEF D, new
  <1>3. /\ Ended(new) /\ Sole(new)
        /\ \A S \in SUBSET D : c \in S /\ Closed(new, S) => n \in S /\ Closed(items, S)
        /\ \A m \in D : ~IsLinked(items, m) => new[m].next = items[m].next
        /\ \A m \in D : ~IsLinked(items, m) /\ m # n => ~IsLinked(new, m)
    <2>1. \A x : x = Linked(items, c, n) =>
            /\ Ended(x) /\ Sole(x)
            /\ \A S \in SUBSET D : c \in S /\ Closed(x, S) => n \in S /\ Closed(items, S)
            /\ \A m \in D : ~IsLinked(items, m) => x[m].next = items[m].next
            /\ \A m \in D : ~IsLinked(items, m) /\ m # n => ~IsLinked(x, m)
      BY ONLY <1>0, <1>1, <1>2, AppendedOn
    <2> QED BY <1>2, <2>1
  <1>4. /\ new \in ItemsOn(D)
        /\ \A m \in D : /\ new[m].next \in {items[m].next, n}
                        /\ new[m].child \in {items[m].child, n}
                        /\ new[m].string = items[m].string
                        /\ new[m].valuestring = items[m].valuestring
    <2>1. /\ Linked(items, c, n) \in ItemsOn(D)
          /\ \A m \in D : /\ Linked(items, c, n)[m].next \in {items[m].next, n}
                          /\ Linked(items, c, n)[m].child \in {items[m].child, n}
                          /\ Linked(items, c, n)[m].string = items[m].string
                          /\ Linked(items, c, n)[m].valuestring = items[m].valuestring
      BY ONLY <1>1, <1>n, LinkedTypes
    <2> QED BY ONLY <1>2, <2>1
  <1>5. DOMAIN new = D
    BY <1>4 DEF ItemsOn
  <1>6. Closed(new, D)
    BY <1>0, <1>1, <1>4 DEF Closed
  <1>7. ListsOK(new)
    BY <1>0, <1>1, <1>3, <1>4, <1>5, <1>6 DEF ListsOK
  <1> QED BY <1>3, <1>4, <1>5, <1>7 DEF D, new

\* A new item that nothing hangs on and that hangs on nothing.
LEMMA ItemAlone ==
  ASSUME NEW items, ListsOK(items), NEW n \in Nat \ {Null}, n \notin DOMAIN items,
         NEW item \in Item, item.next = Null, item.child = Null
  PROVE  /\ ListsOK(With(items, n, item)) /\ ~IsLinked(With(items, n, item), n)
         /\ DOMAIN With(items, n, item) = DOMAIN items \cup {n}
         /\ With(items, n, item)[n] = item
         /\ \A m \in DOMAIN items :
               /\ With(items, n, item)[m] = items[m]
               /\ ~IsLinked(items, m) => ~IsLinked(With(items, n, item), m)
         /\ \A S \in SUBSET (DOMAIN items \cup {n}) :
               Closed(With(items, n, item), S) => Closed(items, S \ {n})
  <1> DEFINE D == DOMAIN items
             new == With(items, n, item)
  <1>0. /\ D \in SUBSET (Nat \ {Null}) /\ items \in ItemsOn(D) /\ Closed(items, D)
        /\ Ended(items) /\ Sole(items)
    BY DEF ListsOK
  <1>1. /\ DOMAIN items = D /\ DOMAIN new = D \cup {n} /\ new[n] = item
        /\ \A m \in D : new[m] = items[m]
    BY DEF ItemsOn, With
  <1>2. new \in ItemsOn(D \cup {n})
    BY <1>0 DEF ItemsOn, With
  <1> HIDE DEF new, D
  <1>3. \A m \in D : {items[m].next, items[m].child} \subseteq D \cup {Null}
    BY <1>0 DEF Closed
  <1>n. n \notin D
    BY DEF D
  <1>4. Closed(new, D \cup {n})
    BY <1>1, <1>3 DEF Closed
  <1>5. ~IsLinked(new, n)
    <2>1. ASSUME NEW m \in D \cup {n} PROVE new[m].next # n /\ new[m].child # n
      <3>1. CASE m = n
        BY <1>1, <3>1
      <3>2. CASE m \in D
        BY <1>1, <1>3, <1>n, <3>2
      <3> QED BY <3>1, <3>2
    <2> QED BY ONLY <1>1, <2>1 DEF IsLinked
  <1>6. ASSUME NEW S \in SUBSET DOMAIN new, S # {}
        PROVE  \E m \in S : new[m].next \notin S
    <2>1. CASE n \in S
      BY <1>0, <1>1, <2>1
    <2>2. CASE n \notin S
      BY <1>0, <1>1, <1>6, <2>2 DEF Ended
    <2> QED BY <2>1, <2>2
  <1>7. Sole(new)
    BY <1>0, <1>1, <1>3 DEF Sole
  <1>8. ASSUME NEW k \in D, ~IsLinked(items, k) PROVE ~IsLinked(new, k)
    <2>1. ASSUME NEW m \in D \cup {n} PROVE new[m].next # k /\ new[m].child # k
      <3>1. CASE m = n
        BY <1>0, <1>1, <3>1
      <3>2. CASE m \in D
        BY <1>1, <1>8, <3>2 DEF IsLinked
      <3> QED BY <3>1, <3>2
    <2> QED BY ONLY <1>1, <2>1 DEF IsLinked
  <1>9. \A S \in SUBSET (D \cup {n}) : Closed(new, S) => Closed(items, S \ {n})
    BY <1>1, <1>3, <1>n DEF Closed
  <1>10. ListsOK(new)
    BY <1>0, <1>1, <1>2, <1>4, <1>6, <1>7 DEF ListsOK, Ended
  <1> QED BY <1>1, <1>5, <1>8, <1>9, <1>10 DEF D, new

(***************************************************************************)
(* Everything hangs on what is held.                                       *)
(***************************************************************************)
RootsOK ==
  \A i \in DOMAIN held : held[i] # Null =>
     /\ heap[held[i]].next = Null /\ heap[held[i]].string = Null
     /\ ~IsLinked(heap, held[i])
     /\ \A j \in DOMAIN held : held[i] = held[j] => i = j

Reached ==
  \A S \in SUBSET DOMAIN heap :
     Closed(heap, S) /\ (\A i \in DOMAIN held : held[i] \in S \cup {Null}) => S = DOMAIN heap

TextsOwned == \A t \in DOMAIN texts : \E n \in DOMAIN heap : t \in Owned(n)

TreeOK ==
  /\ RootsOK /\ ListsOK(heap) /\ TextsOwned
  /\ "container" \notin failed => Reached /\ \A i \in DOMAIN held : held[i] # Null

FreedInv ==
  /\ BufferInv
  /\ meant \in Seq(Meaning)
  /\ at = "building" => Len(meant) = Len(held)
  /\ at \in {"building", "printing", "printed"} => TreeOK
  /\ at \in {"printing", "printed"} => Len(held) = 1
  /\ at \in {"sending", "done"} /\ "container" \notin failed => heap = << >> /\ texts = << >>
  /\ at = "done" => buffer = Null

LEMMA FreedInit == Init => FreedInv
  <1> SUFFICES ASSUME Init PROVE FreedInv
    OBVIOUS
  <1>1. BufferInv
    BY BufferInit
  <1>2. /\ at = "building" /\ held = << >> /\ DOMAIN heap = {} /\ DOMAIN texts = {}
        /\ meant = << >>
    BY DEF Init
  <1>3. DOMAIN held = {}
    BY <1>2
  <1>4. RootsOK /\ TextsOwned /\ Reached
    BY <1>2, <1>3 DEF RootsOK, TextsOwned, Reached
  <1>l. ListsOK(heap)
    BY <1>1, <1>2 DEF ListsOK, ItemsOn, Closed, Ended, Sole, BufferInv, ItemsOK
  <1>5. meant \in Seq(Meaning) /\ Len(meant) = Len(held)
    BY <1>2
  <1> QED BY <1>1, <1>2, <1>3, <1>4, <1>5, <1>l DEF FreedInv, TreeOK

\* While the tree is built its links stay inside it.
LEMMA HeapFacts ==
  ASSUME BufferInv, LinksOK
  PROVE  /\ \A i \in DOMAIN held : held[i] \in DOMAIN heap \cup {Null}
         /\ names + 1 \notin DOMAIN heap /\ Null \notin DOMAIN heap
         /\ names \in Nat /\ names + 1 # Null
         /\ DOMAIN texts \subseteq 1 .. names /\ Null \notin DOMAIN texts
  BY DEF BufferInv, ItemsOK, LinksOK, Null

\* What an item owns does not depend on its links.
LEMMA FreedCreate ==
  ASSUME FreedInv, NEW kind \in Kinds, Create(kind) PROVE FreedInv'
  <1>1. BufferInv /\ BufferInv' /\ at = "building" /\ TreeOK /\ LinksOK
        /\ UNCHANGED <<texts, printer, at>>
    BY CreateKeeps DEF FreedInv, BufferInv, Create
  <1>2. ASSUME NEW made \in BOOLEAN,
               meant' = Append(meant, [kind |-> kind, made |-> made, members |-> << >>]),
               NEW x, held' = Append(held, x)
        PROVE  meant' \in Seq(Meaning) /\ Len(meant') = Len(held')
    <2>1. [kind |-> kind, made |-> made, members |-> << >>] \in Meaning
      <3>1. << >> \in Seq(Seq(Characters))
        OBVIOUS
      <3> QED BY <3>1 DEF Meaning
    <2>2. meant \in Seq(Meaning) /\ Len(meant) = Len(held) /\ held \in Seq(Nat)
      BY <1>1 DEF FreedInv, BufferInv, ItemsOK
    <2>3. Len(Append(held, x)) = Len(held) + 1
      BY <2>2
    <2> QED BY <1>2, <2>1, <2>2, <2>3
  <1>3. ASSUME names' = names + 1, heap' = With(heap, names', NewItem(kind, Null, Null, << >>)),
               held' = Append(held, names'), UNCHANGED failed
        PROVE  TreeOK'
    <2> DEFINE D == DOMAIN heap
               n == names + 1
               item == NewItem(kind, Null, Null, << >>)
    <2>1. item \in Item /\ item.next = Null /\ item.child = Null /\ item.string = Null
      BY NewTypes DEF NewItem
    <2>2. /\ n \notin D /\ n \in Nat \ {Null} /\ Null \notin D
          /\ \A i \in DOMAIN held : held[i] \in D \cup {Null}
      BY <1>1, HeapFacts
    <2>3. heap' = With(heap, n, item) /\ ListsOK(heap) /\ D = DOMAIN heap
      BY <1>1, <1>3 DEF TreeOK
    <2>4. /\ DOMAIN held' = DOMAIN held \cup {Len(held) + 1} /\ held'[Len(held) + 1] = n
          /\ \A i \in DOMAIN held : held'[i] = held[i]
          /\ Len(held) + 1 \notin DOMAIN held
      BY <1>1, <1>3 DEF BufferInv, ItemsOK
    <2> HIDE DEF item, n, D
    <2>5. /\ ListsOK(heap') /\ ~IsLinked(heap', n)
          /\ DOMAIN heap' = D \cup {n} /\ heap'[n] = item
          /\ \A m \in D : /\ heap'[m] = heap[m]
                          /\ ~IsLinked(heap, m) => ~IsLinked(heap', m)
          /\ \A S \in SUBSET (D \cup {n}) : Closed(heap', S) => Closed(heap, S \ {n})
      <3>1. /\ ListsOK(heap) /\ n \in Nat \ {Null} /\ n \notin DOMAIN heap
            /\ item \in Item /\ item.next = Null /\ item.child = Null
        BY <2>1, <2>2, <2>3
      <3>2. /\ ListsOK(With(heap, n, item)) /\ ~IsLinked(With(heap, n, item), n)
            /\ DOMAIN With(heap, n, item) = DOMAIN heap \cup {n}
            /\ With(heap, n, item)[n] = item
            /\ \A m \in DOMAIN heap :
                  /\ With(heap, n, item)[m] = heap[m]
                  /\ ~IsLinked(heap, m) => ~IsLinked(With(heap, n, item), m)
            /\ \A S \in SUBSET (DOMAIN heap \cup {n}) :
                  Closed(With(heap, n, item), S) => Closed(heap, S \ {n})
        BY ONLY <3>1, ItemAlone
      <3>3. heap' = With(heap, n, item) /\ D = DOMAIN heap
        BY <2>3
      <3> QED BY ONLY <3>2, <3>3
    <2>6. DOMAIN heap' = D \cup {n} /\ DOMAIN heap = D
      BY <2>5 DEF D
    <2>7. RootsOK'
      BY <1>1, <2>1, <2>2, <2>4, <2>5 DEF RootsOK, TreeOK
    <2>8. TextsOwned'
      <3>1. \A m \in D : Owned(m)' = Owned(m)
        BY <2>5 DEF Owned
      <3> QED BY <1>1, <2>6, <3>1 DEF TextsOwned, TreeOK
    <2>9. ASSUME "container" \notin failed'
          PROVE  Reached' /\ \A i \in DOMAIN held' : held'[i] # Null
      <3>1. Reached /\ \A i \in DOMAIN held : held[i] # Null
        BY <1>1, <1>3, <2>9 DEF TreeOK
      <3>2. ASSUME NEW S \in SUBSET DOMAIN heap', Closed(heap', S),
                   \A i \in DOMAIN held' : held'[i] \in S \cup {Null}
            PROVE  S = DOMAIN heap'
        <4>1. n \in S
          BY <2>2, <2>4, <3>2
        <4>2. Closed(heap, S \ {n}) /\ S \ {n} \in SUBSET D
          BY <2>5, <2>6, <3>2
        <4>3. \A i \in DOMAIN held : held[i] \in (S \ {n}) \cup {Null}
          BY <2>2, <2>4, <3>2
        <4>4. S \ {n} = D
          BY <2>6, <3>1, <4>2, <4>3 DEF Reached
        <4> QED BY <2>6, <4>1, <4>4
      <3> QED BY <2>2, <2>4, <3>1, <3>2 DEF Reached
    <2> QED BY <2>5, <2>7, <2>8, <2>9 DEF TreeOK
  <1>4. ASSUME held' = Append(held, Null), failed' = failed \cup {"container"},
               UNCHANGED <<names, heap>>
        PROVE  TreeOK'
    <2>1. /\ DOMAIN held' = DOMAIN held \cup {Len(held) + 1} /\ held'[Len(held) + 1] = Null
          /\ \A i \in DOMAIN held : held'[i] = held[i]
      BY <1>1, <1>4 DEF BufferInv, ItemsOK
    <2>2. RootsOK'
      BY <1>1, <1>4, <2>1 DEF RootsOK, TreeOK
    <2>3. TextsOwned' /\ ListsOK(heap')
      BY <1>1, <1>4 DEF TextsOwned, TreeOK, Owned
    <2> QED BY <1>4, <2>2, <2>3 DEF TreeOK
  <1> QED BY <1>1, <1>2, <1>3, <1>4 DEF FreedInv, Create

\* What hangs below an item of which the links were not changed is still there.
LEMMA MemberHung ==
  ASSUME FreedInv, at = "building", NEW i \in DOMAIN held, NEW n, n = names + 1,
         NEW item \in Item, item.next = Null, item.child = Null,
         heap' = IF held[i] = Null THEN With(heap, n, item)
                 ELSE Linked(With(heap, n, item), held[i], n),
         DOMAIN texts' \subseteq DOMAIN texts \cup {item.string, item.valuestring},
         failed \subseteq failed', held' = held
  PROVE  TreeOK'
  <1> DEFINE D == DOMAIN heap
             heap1 == With(heap, n, item)
  <1>1. BufferInv /\ LinksOK /\ TreeOK
    BY DEF FreedInv, BufferInv
  <1>2. /\ n \notin D /\ n \in Nat \ {Null} /\ Null \notin D /\ ListsOK(heap)
        /\ \A k \in DOMAIN held : held[k] \in D \cup {Null}
    BY <1>1, HeapFacts DEF TreeOK
  <1>d. D = DOMAIN heap
    OBVIOUS
  <1>3. /\ ListsOK(heap1) /\ ~IsLinked(heap1, n)
        /\ DOMAIN heap1 = D \cup {n} /\ heap1[n] = item
        /\ \A m \in D : heap1[m] = heap[m] /\ (~IsLinked(heap, m) => ~IsLinked(heap1, m))
        /\ \A S \in SUBSET (D \cup {n}) : Closed(heap1, S) => Closed(heap, S \ {n})
    <2>1. /\ ListsOK(heap) /\ n \in Nat \ {Null} /\ n \notin DOMAIN heap
          /\ item \in Item /\ item.next = Null /\ item.child = Null
      BY <1>2
    <2> QED BY ONLY <2>1, ItemAlone
  <1> HIDE DEF heap1, D
  <1>4. /\ ListsOK(heap') /\ DOMAIN heap' = D \cup {n}
        /\ \A m \in D \cup {n} :
              heap'[m].string = heap1[m].string /\ heap'[m].valuestring = heap1[m].valuestring
        /\ \A k \in DOMAIN held : held[k] # Null =>
              heap'[held[k]].next = heap1[held[k]].next /\ ~IsLinked(heap', held[k])
        /\ held[i] # Null => \A S \in SUBSET (D \cup {n}) :
              held[i] \in S /\ Closed(heap', S) => n \in S /\ Closed(heap1, S)
    <2>1. \A k \in DOMAIN held : held[k] # Null => held[k] \in D /\ ~IsLinked(heap1, held[k])
      BY <1>1, <1>2, <1>3 DEF TreeOK, RootsOK
    <2>2. CASE held[i] = Null
      <3>1. heap' = heap1
        BY <2>2 DEF heap1
      <3> QED BY <1>3, <2>1, <2>2, <3>1
    <2>3. CASE held[i] # Null
      <3>1. heap' = Linked(heap1, held[i], n)
        BY <2>3 DEF heap1
      <3>2. /\ held[i] \in DOMAIN heap1 /\ n \in DOMAIN heap1 /\ heap1[n].next = Null
            /\ n # held[i]
        BY <1>2, <1>3, <2>1, <2>3
      <3>3. /\ ListsOK(heap') /\ DOMAIN heap' = DOMAIN heap1
            /\ \A S \in SUBSET DOMAIN heap1 :
                  held[i] \in S /\ Closed(heap', S) => n \in S /\ Closed(heap1, S)
            /\ \A m \in DOMAIN heap1 :
                  /\ heap'[m].string = heap1[m].string
                  /\ heap'[m].valuestring = heap1[m].valuestring
                  /\ ~IsLinked(heap1, m) => heap'[m].next = heap1[m].next
                  /\ ~IsLinked(heap1, m) /\ m # n => ~IsLinked(heap', m)
        BY <1>3, <3>1, <3>2, Appended
      <3> QED BY <1>2, <1>3, <2>1, <3>3
    <2> QED BY <2>2, <2>3
  <1>5. RootsOK'
    BY <1>1, <1>2, <1>3, <1>4 DEF RootsOK, TreeOK
  <1>6. TextsOwned'
    <2>1. \A m \in D : Owned(m)' = Owned(m)
      BY <1>3, <1>4 DEF Owned
    <2>2. Owned(n)' = {item.string, item.valuestring}
      BY <1>3, <1>4 DEF Owned
    <2>3. ASSUME NEW t \in DOMAIN texts' PROVE \E m \in DOMAIN heap' : t \in Owned(m)'
      <3>1. CASE t \in DOMAIN texts
        <4>1. PICK m \in D : t \in Owned(m)
          BY <1>1, <3>1 DEF TreeOK, TextsOwned, D
        <4> QED BY <1>4, <2>1, <4>1
      <3>2. CASE t \in {item.string, item.valuestring}
        BY <1>4, <2>2, <3>2
      <3> QED BY <3>1, <3>2
    <2> QED BY <2>3 DEF TextsOwned
  <1>7. ASSUME "container" \notin failed' PROVE Reached' /\ \A k \in DOMAIN held' : held'[k] # Null
    <2>1. Reached /\ \A k \in DOMAIN held : held[k] # Null
      BY <1>1, <1>7 DEF TreeOK
    <2>2. ASSUME NEW S \in SUBSET DOMAIN heap', Closed(heap', S),
                 \A k \in DOMAIN held' : held'[k] \in S \cup {Null}
          PROVE  S = DOMAIN heap'
      <3>1. held[i] \in S
        BY <2>1, <2>2
      <3>2. n \in S /\ Closed(heap1, S)
        BY <1>4, <2>1, <2>2, <3>1
      <3>3. Closed(heap, S \ {n}) /\ S \ {n} \in SUBSET D
        BY <1>3, <1>4, <2>2, <3>2
      <3>4. \A k \in DOMAIN held : held[k] \in (S \ {n}) \cup {Null}
        BY <1>2, <2>2
      <3>5. S \ {n} = D
        BY <2>1, <3>3, <3>4 DEF Reached, D
      <3> QED BY <1>4, <3>2, <3>5
    <2> QED BY <2>1, <2>2 DEF Reached
  <1> QED BY <1>4, <1>5, <1>6, <1>7 DEF TreeOK

LEMMA FreedAddMember ==
  ASSUME FreedInv, NEW i \in DOMAIN held, NEW key \in Strings, NEW new \in Members,
         AddMember(i, key, new)
  PROVE  FreedInv'
  <1>1. /\ BufferInv /\ BufferInv' /\ at = "building" /\ at' = "building"
        /\ TreeOK /\ UNCHANGED <<held, printer>>
        /\ meant \in Seq(Meaning) /\ Len(meant) = Len(held) /\ failed \subseteq failed'
    BY AddMemberKeeps DEF FreedInv, AddMember
  <1>s. i \in DOMAIN meant /\ held \in Seq(Nat) /\ names \in Nat
    BY <1>1 DEF BufferInv, ItemsOK
  <1>2. CASE UNCHANGED <<names, heap, texts, meant>>
    <2>1. TreeOK'
      BY <1>1, <1>2 DEF TreeOK, RootsOK, TextsOwned, Reached, Owned
    <2> QED BY <1>1, <1>2, <2>1 DEF FreedInv
  <1>3. CASE ~UNCHANGED <<names, heap, texts, meant>>
    <2> DEFINE n == names + 1
               V(copied) == IF copied THEN n + 1 ELSE n
               K(copied, keyed) == IF keyed THEN V(copied) + 1 ELSE V(copied)
               val == IF new.type = "scalar" THEN new.says ELSE << >>
               I(copied, keyed) ==
                  NewItem(new.type, IF keyed THEN K(copied, keyed) ELSE Null,
                          IF copied THEN V(copied) ELSE Null, val)
               value(copied) == IF new.type = "scalar" THEN new.says
                                ELSE Quoted(IF copied THEN new.says ELSE << >>)
    <2>1. PICK copied \in {new.type = "text", FALSE},
               keyed  \in {held[i] # Null /\ meant[i].kind = "object", FALSE} :
             /\ heap' = IF held[i] = Null THEN With(heap, n, I(copied, keyed))
                        ELSE Linked(With(heap, n, I(copied, keyed)), held[i], n)
             /\ texts' = [m \in DOMAIN texts \cup (n + 1 .. K(copied, keyed)) |->
                            IF m \in DOMAIN texts THEN texts[m]
                            ELSE IF copied /\ m = V(copied) THEN new.says ELSE key]
             /\ meant' = IF held[i] = Null THEN meant
                         ELSE [meant EXCEPT ![i] =
                                 Saying(@, IF keyed THEN key ELSE << >>, value(copied))]
      BY <1>3, Zenon DEF AddMember
    <2>2. keyed \in BOOLEAN /\ copied \in BOOLEAN /\ (copied => new.type = "text")
      OBVIOUS
    <2> DEFINE item == I(copied, keyed)
               str == IF keyed THEN K(copied, keyed) ELSE Null
               copy == IF copied THEN V(copied) ELSE Null
    <2>3. str \in Nat /\ copy \in Nat
      BY <1>s DEF Null
    <2>4. val \in Scalars \cup {<< >>}
      BY DEF Members
    <2>5. item = NewItem(new.type, str, copy, val)
      OBVIOUS
    <2>6. DOMAIN texts' \subseteq DOMAIN texts \cup {str, copy}
      <3>1. n + 1 .. K(copied, keyed) \subseteq {str, copy}
        BY <1>s, <2>2
      <3>2. DOMAIN texts' = DOMAIN texts \cup (n + 1 .. K(copied, keyed))
        BY <2>1
      <3> HIDE DEF K, V, str, copy
      <3> QED BY <3>1, <3>2
    <2>7. /\ heap' = IF held[i] = Null THEN With(heap, n, item)
                     ELSE Linked(With(heap, n, item), held[i], n)
          /\ n = names + 1
      BY <2>1
    <2> HIDE DEF item, str, copy, val, I, n, V, K
    <2>8. /\ item \in Item /\ item.next = Null /\ item.child = Null
          /\ item.string = str /\ item.valuestring = copy
      <3>1. /\ NewItem(new.type, str, copy, val) \in Item
            /\ NewItem(new.type, str, copy, val).next = Null
            /\ NewItem(new.type, str, copy, val).child = Null
            /\ NewItem(new.type, str, copy, val).valuestring = copy
            /\ NewItem(new.type, str, copy, val).string = str
        BY <2>3, <2>4, MemberItem
      <3> QED BY ONLY <2>5, <3>1
    <2>9. TreeOK'
      BY <1>1, <2>6, <2>7, <2>8, MemberHung
    <2>10. meant' \in Seq(Meaning) /\ Len(meant') = Len(meant)
      <3> DEFINE said == IF keyed THEN key ELSE << >>
      <3>1. said \in Seq({"plain", "special"})
        BY AnswerAssumption
      <3>2. value(copied) \in Seq(Characters)
        <4>1. CASE new.type = "scalar"
          <5>1. new.says \in Seq({"digit"})
            BY <4>1, AnswerAssumption DEF Members
          <5>2. {"digit"} \subseteq Characters
            BY DEF Characters
          <5> QED BY <4>1, <5>1, <5>2, Wider
        <4>2. CASE new.type # "scalar"
          <5>1. (IF copied THEN new.says ELSE << >>) \in Seq({"plain", "special"})
            BY <4>2, AnswerAssumption DEF Members
          <5> HIDE DEF V
          <5> QED BY <4>2, <5>1, QuotedTypes
        <4> QED BY <4>1, <4>2
      <3>3. /\ meant[i] \in Meaning
            /\ meant' = IF held[i] = Null THEN meant
                        ELSE [meant EXCEPT ![i] = Saying(meant[i], said, value(copied))]
        BY <1>1, <1>s, <2>1
      <3> HIDE DEF said, value
      <3>4. Saying(meant[i], said, value(copied)) \in Meaning
        BY <3>1, <3>2, <3>3, SayingTypes
      <3> QED BY <1>1, <1>s, <3>3, <3>4
    <2> QED BY <1>1, <2>9, <2>10 DEF FreedInv
  <1> QED BY <1>2, <1>3

LEMMA WithoutEntries ==
  ASSUME NEW S, NEW s \in Seq(S), NEW i \in DOMAIN s
  PROVE  /\ Len(Without(s, i)) = Len(s) - 1
         /\ \A k \in DOMAIN Without(s, i) :
               /\ (IF k < i THEN k ELSE k + 1) \in DOMAIN s \ {i}
               /\ Without(s, i)[k] = s[IF k < i THEN k ELSE k + 1]
         /\ \A k \in DOMAIN s \ {i} : \E l \in DOMAIN Without(s, i) : s[k] = Without(s, i)[l]
  <1> DEFINE a == SubSeq(s, 1, i - 1)
             b == SubSeq(s, i + 1, Len(s))
  <1>1. /\ i \in Nat /\ 1 <= i /\ i <= Len(s) /\ Len(s) \in Nat
        /\ a \in Seq(S) /\ Len(a) = i - 1 /\ \A k \in 1 .. i - 1 : a[k] = s[k]
        /\ b \in Seq(S) /\ Len(b) = Len(s) - i
        /\ \A k \in 1 .. Len(s) - i : b[k] = s[i + k]
    OBVIOUS
  <1>2. Without(s, i) = a \o b
    BY DEF Without
  <1> HIDE DEF a, b
  <1>3. /\ DOMAIN Without(s, i) = 1 .. Len(s) - 1 /\ Len(Without(s, i)) = Len(s) - 1
        /\ DOMAIN s = 1 .. Len(s)
    BY <1>1, <1>2
  <1>4. ASSUME NEW k \in 1 .. Len(s) - 1
        PROVE  /\ (IF k < i THEN k ELSE k + 1) \in DOMAIN s \ {i}
               /\ Without(s, i)[k] = s[IF k < i THEN k ELSE k + 1]
    <2>1. CASE k < i
      BY <1>1, <1>2, <1>3, <2>1
    <2>2. CASE ~(k < i)
      <3>1. Without(s, i)[k] = b[k - (i - 1)]
        BY SMTT(30), <1>1, <1>2, <2>2
      <3>2. b[k - (i - 1)] = s[i + (k - (i - 1))] /\ i + (k - (i - 1)) = k + 1
        BY <1>1, <2>2
      <3> QED BY <1>1, <1>3, <2>2, <3>1, <3>2
    <2> QED BY <2>1, <2>2
  <1>5. ASSUME NEW k \in DOMAIN s \ {i}
        PROVE  \E l \in 1 .. Len(s) - 1 : s[k] = Without(s, i)[l]
    <2> DEFINE l == IF k < i THEN k ELSE k - 1
    <2>1. l \in 1 .. Len(s) - 1 /\ k = IF l < i THEN l ELSE l + 1
      BY <1>1, <1>3
    <2> QED BY <1>4, <2>1
  <1> QED BY <1>3, <1>4, <1>5

\* The pointers of the handler after one of them is gone.
LEMMA FewerRoots ==
  ASSUME FreedInv, at = "building", NEW i \in DOMAIN held, held' = Without(held, i)
  PROVE  /\ Len(held') = Len(held) - 1
         /\ \A k \in DOMAIN held' : \E l \in DOMAIN held \ {i} : held'[k] = held[l]
         /\ \A k \in DOMAIN held \ {i} : \E l \in DOMAIN held' : held[k] = held'[l]
         /\ \A k, l \in DOMAIN held' : held'[k] # Null /\ held'[k] = held'[l] => k = l
  <1> DEFINE from(k) == IF k < i THEN k ELSE k + 1
  <1>1. RootsOK /\ held \in Seq(Nat)
    BY DEF FreedInv, TreeOK, BufferInv, ItemsOK
  <1>2. /\ Len(held') = Len(held) - 1
        /\ \A k \in DOMAIN held' : from(k) \in DOMAIN held \ {i} /\ held'[k] = held[from(k)]
        /\ \A k \in DOMAIN held \ {i} : \E l \in DOMAIN held' : held[k] = held'[l]
    BY <1>1, WithoutEntries
  <1>3. ASSUME NEW k \in DOMAIN held', NEW l \in DOMAIN held', held'[k] # Null,
               held'[k] = held'[l]
        PROVE  k = l
    <2>1. from(k) = from(l)
      <3> HIDE DEF from
      <3> QED BY <1>1, <1>2, <1>3 DEF RootsOK
    <2>2. k \in Nat /\ l \in Nat
      <3>1. DOMAIN held' = 1 .. Len(held')
        <4>1. held' \in Seq(Nat)
          BY <1>1, WithoutTypes
        <4> QED BY <4>1
      <3> QED BY <1>1, <1>2, <3>1
    <2>3. i \in Nat
      BY <1>1
    <2> QED BY <2>1, <2>2, <2>3
  <1> HIDE DEF from
  <1> QED BY <1>2, <1>3

LEMMA TreeAttached ==
  ASSUME FreedInv, at = "building", NEW i \in DOMAIN held, NEW j \in DOMAIN held, i # j,
         held' = Without(held, i), held[i] # Null, held[j] # Null, NEW keyed \in BOOLEAN,
         NEW heap1, heap1 = IF keyed THEN [heap EXCEPT ![held[i]].string = names + 1] ELSE heap,
         heap' = Linked(heap1, held[j], held[i]),
         DOMAIN texts' = DOMAIN texts \cup (IF keyed THEN {names + 1} ELSE {}),
         failed \subseteq failed'
  PROVE  TreeOK'
  <1> DEFINE D == DOMAIN heap
             n == held[i]
             c == held[j]
  <1>1. BufferInv /\ LinksOK /\ TreeOK /\ RootsOK /\ ListsOK(heap)
    BY DEF FreedInv, BufferInv, TreeOK
  <1>2. /\ n \in D /\ c \in D /\ n # c /\ heap[n].next = Null /\ heap[n].string = Null
        /\ ~IsLinked(heap, n)
        /\ \A k \in DOMAIN held : held[k] \in D \cup {Null}
        /\ \A k \in DOMAIN held \ {i} : held[k] # n
        /\ Null \notin DOMAIN texts
    BY <1>1, HeapFacts DEF RootsOK
  <1>3. /\ DOMAIN heap1 = D
        /\ \A m \in D : /\ heap1[m].next = heap[m].next /\ heap1[m].child = heap[m].child
                        /\ heap1[m].valuestring = heap[m].valuestring
                        /\ m # n => heap1[m].string = heap[m].string
        /\ heap1[n].string = IF keyed THEN names + 1 ELSE Null
        /\ heap1 \in ItemsOn(D)
    <2>1. CASE keyed
      <3>1. heap1 = [heap EXCEPT ![n].string = names + 1]
        BY <2>1
      <3>2. heap[n] \in Item /\ heap \in [D -> Item]
        BY <1>1, <1>2 DEF BufferInv, ItemsOK
      <3>3. /\ heap1[n].next = heap[n].next /\ heap1[n].child = heap[n].child
            /\ heap1[n].valuestring = heap[n].valuestring /\ heap1[n].string = names + 1
            /\ \A m \in D : m # n => heap1[m] = heap[m]
        BY <1>2, <3>1, <3>2 DEF Item
      <3>4. heap1 \in ItemsOn(D)
        BY <1>1, <1>2, <3>1, Labelled
      <3>5. DOMAIN heap1 = D
        BY <3>1
      <3> QED BY <2>1, <3>3, <3>4, <3>5
    <2>2. CASE ~keyed
      BY <1>1, <1>2, <2>2 DEF ListsOK
    <2> QED BY <2>1, <2>2
  <1> HIDE DEF D
  <1>d. D = DOMAIN heap
    BY DEF D
  <1>4. ListsOK(heap1)
    BY <1>1, <1>3, <1>d DEF ListsOK, Closed, Ended, Sole
  <1>5. /\ \A m : IsLinked(heap1, m) <=> IsLinked(heap, m)
        /\ \A S \in SUBSET D : Closed(heap1, S) <=> Closed(heap, S)
    BY <1>3, <1>d DEF IsLinked, Closed
  <1>6. /\ ListsOK(heap') /\ DOMAIN heap' = D
        /\ \A S \in SUBSET D : c \in S /\ Closed(heap', S) => n \in S /\ Closed(heap1, S)
        /\ \A m \in D :
              /\ heap'[m].string = heap1[m].string
              /\ heap'[m].valuestring = heap1[m].valuestring
              /\ ~IsLinked(heap1, m) => heap'[m].next = heap1[m].next
              /\ ~IsLinked(heap1, m) /\ m # n => ~IsLinked(heap', m)
    <2>1. /\ ListsOK(heap1) /\ c \in DOMAIN heap1 /\ n \in DOMAIN heap1
          /\ heap1[n].next = Null /\ ~IsLinked(heap1, n) /\ n # c
      BY <1>2, <1>3, <1>4, <1>5
    <2>2. heap' = Linked(heap1, c, n)
      OBVIOUS
    <2> HIDE DEF c, n
    <2> QED BY ONLY <1>3, <2>1, <2>2, Appended
  <1>7. /\ \A k \in DOMAIN held' : \E l \in DOMAIN held \ {i} : held'[k] = held[l]
        /\ \A k \in DOMAIN held \ {i} : \E l \in DOMAIN held' : held[k] = held'[l]
        /\ \A k, l \in DOMAIN held' : held'[k] # Null /\ held'[k] = held'[l] => k = l
    BY FewerRoots
  <1>8. RootsOK'
    <2>1. ASSUME NEW k \in DOMAIN held', held'[k] # Null
          PROVE  /\ heap'[held'[k]].next = Null /\ heap'[held'[k]].string = Null
                 /\ ~IsLinked(heap', held'[k])
      <3>1. PICK l \in DOMAIN held \ {i} : held'[k] = held[l]
        BY <1>7
      <3> DEFINE r == held[l]
      <3>2. r \in D /\ r # n /\ heap[r].next = Null /\ heap[r].string = Null /\ ~IsLinked(heap, r)
        BY <1>1, <1>2, <2>1, <3>1 DEF RootsOK
      <3> HIDE DEF r
      <3>3. heap'[r].next = Null /\ heap'[r].string = Null /\ ~IsLinked(heap', r)
        BY <1>3, <1>5, <1>6, <3>2
      <3> QED BY <3>1, <3>3 DEF r
    <2> QED BY <1>7, <2>1 DEF RootsOK
  <1>9. TextsOwned'
    <2>1. ASSUME NEW t \in DOMAIN texts' PROVE \E m \in DOMAIN heap' : t \in Owned(m)'
      <3>1. CASE t \in DOMAIN texts
        <4>1. PICK m \in D : t \in Owned(m)
          BY <1>1, <1>d, <3>1 DEF TreeOK, TextsOwned
        <4>2. t # Null
          BY <1>2, <3>1
        <4>3. t \in Owned(m)'
          BY ZenonT(40), <1>2, <1>3, <1>6, <4>1, <4>2 DEF Owned
        <4> QED BY <1>6, <4>3
      <3>2. CASE keyed /\ t = names + 1
        <4>1. ASSUME NEW m \in D, m = n PROVE t \in Owned(m)'
          <5>1. heap'[m].string = names + 1
            BY <1>3, <1>6, <3>2, <4>1
          <5> QED BY <3>2, <5>1 DEF Owned
        <4> QED BY <1>2, <1>6, <4>1
      <3> QED BY <3>1, <3>2
    <2> QED BY <2>1 DEF TextsOwned
  <1>10. ASSUME "container" \notin failed' PROVE Reached' /\ \A k \in DOMAIN held' : held'[k] # Null
    <2>1. Reached /\ \A k \in DOMAIN held : held[k] # Null
      BY <1>1, <1>10 DEF TreeOK
    <2>2. ASSUME NEW S \in SUBSET DOMAIN heap', Closed(heap', S),
                 \A k \in DOMAIN held' : held'[k] \in S \cup {Null}
          PROVE  S = DOMAIN heap'
      <3>1. \A k \in DOMAIN held \ {i} : held[k] \in S
        BY <1>7, <2>1, <2>2
      <3>2. c \in S
        BY <3>1
      <3>3. n \in S /\ Closed(heap, S)
        BY <1>5, <1>6, <2>2, <3>2
      <3>4. \A k \in DOMAIN held : held[k] \in S \cup {Null}
        BY <3>1, <3>3
      <3> QED BY <1>6, <1>d, <2>1, <2>2, <3>3, <3>4 DEF Reached
    <2>3. \A k \in DOMAIN held' : held'[k] # Null
      BY <1>7, <2>1
    <2> QED BY <2>2, <2>3 DEF Reached
  <1> QED BY <1>6, <1>8, <1>9, <1>10 DEF TreeOK

LEMMA FreedAttach ==
  ASSUME FreedInv, NEW i \in DOMAIN held, NEW j \in DOMAIN held, NEW key \in Strings,
         Attach(i, j, key)
  PROVE  FreedInv'
  <1>1. /\ BufferInv /\ BufferInv' /\ at = "building" /\ at' = "building" /\ i # j
        /\ TreeOK /\ RootsOK /\ held' = Without(held, i) /\ UNCHANGED <<calls, printer>>
        /\ meant \in Seq(Meaning) /\ Len(meant) = Len(held) /\ failed \subseteq failed'
    BY AttachKeeps DEF FreedInv, Attach, TreeOK
  <1>2. /\ i \in DOMAIN meant /\ j \in DOMAIN meant /\ held \in Seq(Nat) /\ names \in Nat
        /\ DOMAIN meant = DOMAIN held
    BY <1>1 DEF BufferInv, ItemsOK
  <1>3. ASSUME NEW new \in Seq(Meaning), Len(new) = Len(meant), meant' = Without(new, i)
        PROVE  meant' \in Seq(Meaning) /\ Len(meant') = Len(held')
    <2>1. i \in DOMAIN new
      BY <1>2, <1>3
    <2>2. Len(held') = Len(held) - 1
      BY <1>1, <1>2, WithoutEntries
    <2>3. Len(meant') = Len(new) - 1 /\ meant' \in Seq(Meaning)
      BY <1>3, <2>1, WithoutEntries, WithoutTypes
    <2> QED BY <1>1, <1>3, <2>2, <2>3
  <1>4. CASE Null \in {held[i], held[j]} /\ meant' = Without(meant, i)
             /\ UNCHANGED <<heap, texts, names, failed>>
    <2>1. "container" \in failed
      BY <1>1, <1>4 DEF TreeOK
    <2>2. RootsOK'
      <3>1. /\ \A k \in DOMAIN held' : \E l \in DOMAIN held \ {i} : held'[k] = held[l]
            /\ \A k, l \in DOMAIN held' : held'[k] # Null /\ held'[k] = held'[l] => k = l
        BY <1>1, FewerRoots
      <3> QED BY <1>1, <1>4, <3>1 DEF RootsOK
    <2>3. TextsOwned' /\ ListsOK(heap')
      BY <1>1, <1>4 DEF TextsOwned, TreeOK, Owned
    <2>4. TreeOK'
      BY <1>4, <2>1, <2>2, <2>3 DEF TreeOK
    <2> QED BY <1>1, <1>3, <1>4, <2>4 DEF FreedInv
  <1>5. CASE Null \notin {held[i], held[j]}
    <2>1. PICK keyed \in {meant[j].kind = "object", FALSE} :
             LET heap1 == IF keyed THEN [heap EXCEPT ![held[i]].string = names + 1] ELSE heap
             IN  /\ heap' = Linked(heap1, held[j], held[i])
                 /\ meant' = Without([meant EXCEPT ![j] =
                                Saying(@, IF keyed THEN key ELSE << >>, Said(meant[i]))], i)
                 /\ IF keyed
                    THEN names' = names + 1 /\ texts' = With(texts, names', key)
                    ELSE UNCHANGED <<names, texts>>
      BY <1>5 DEF Attach
    <2>2. keyed \in BOOLEAN
      OBVIOUS
    <2> DEFINE heap1 == IF keyed THEN [heap EXCEPT ![held[i]].string = names + 1] ELSE heap
               said == IF keyed THEN key ELSE << >>
               new == [meant EXCEPT ![j] = Saying(@, said, Said(meant[i]))]
    <2>3. /\ heap' = Linked(heap1, held[j], held[i]) /\ meant' = Without(new, i)
          /\ DOMAIN texts' = DOMAIN texts \cup (IF keyed THEN {names + 1} ELSE {})
      BY <2>1 DEF With
    <2>4. heap1 = IF keyed THEN [heap EXCEPT ![held[i]].string = names + 1] ELSE heap
      OBVIOUS
    <2>5. new \in Seq(Meaning) /\ Len(new) = Len(meant)
      <3>1. said \in Seq({"plain", "special"})
        BY AnswerAssumption
      <3>2. meant[i] \in Meaning /\ meant[j] \in Meaning
        BY <1>1, <1>2
      <3> HIDE DEF said
      <3>3. Saying(meant[j], said, Said(meant[i])) \in Meaning
        BY <3>1, <3>2, MembersSaid, SayingTypes
      <3> QED BY <1>1, <1>2, <3>3
    <2> HIDE DEF heap1, new
    <2>6. TreeOK'
      BY <1>1, <1>5, <2>2, <2>3, <2>4, TreeAttached
    <2> QED BY <1>1, <1>3, <2>3, <2>5, <2>6 DEF FreedInv
  <1> QED BY <1>4, <1>5 DEF Attach

\* The printer neither allocates nor loses an item.
LEMMA FreedPrinting ==
  ASSUME FreedInv, BufferInv', UNCHANGED tree, failed \subseteq failed',
         failed' \subseteq failed \cup {"buffer"},
         at \in {"building", "printing"}, at' \in {"printing", "printed"}, Len(held) = 1
  PROVE  FreedInv'
  <1>1. TreeOK /\ meant \in Seq(Meaning)
    BY DEF FreedInv
  <1>2. UNCHANGED <<held, heap, texts, meant>>
    BY DEF tree
  <1>3. TreeOK'
    BY <1>1, <1>2 DEF TreeOK, RootsOK, TextsOwned, Reached, Owned
  <1> QED BY <1>1, <1>2, <1>3 DEF FreedInv

LEMMA FreedPrinter ==
  ASSUME FreedInv, Respond \/ Write \/ Walk \/ EndPrint PROVE FreedInv'
  <1>1. BufferInv
    BY DEF FreedInv
  <1>2. BufferInv'
    BY <1>1, RespondKeeps, WriteKeeps, WalkKeeps, EndPrintKeeps
  <1>3. /\ UNCHANGED tree /\ failed \subseteq failed' /\ failed' \subseteq failed \cup {"buffer"}
        /\ at \in {"building", "printing"} /\ at' \in {"printing", "printed"}
    BY DEF Respond, Write, Walk, EndPrint, GiveUp
  <1>4. Len(held) = 1
    <2>1. Respond => Len(held) = 1
      BY DEF Respond
    <2>2. Write \/ Walk \/ EndPrint => at = "printing"
      BY DEF Write, Walk, EndPrint
    <2> QED BY <2>1, <2>2 DEF FreedInv
  <1> QED BY <1>2, <1>3, <1>4, FreedPrinting

\* A function without arguments is the empty sequence.
LEMMA NoArguments ==
  ASSUME NEW f, DOMAIN f = {}, f = [x \in DOMAIN f |-> f[x]] PROVE f = << >>
  OBVIOUS

LEMMA FreedDelete == ASSUME FreedInv, DeleteTree PROVE FreedInv'
  <1> DEFINE freed == IF held[1] = Null THEN {} ELSE Below(heap, held[1])
             gone  == UNION {Owned(n) : n \in freed}
  <1>1. /\ BufferInv /\ BufferInv' /\ at = "printed" /\ at' = "sending" /\ TreeOK
        /\ Len(held) = 1 /\ meant \in Seq(Meaning)
        /\ UNCHANGED <<meant, failed>>
    BY DeleteKeeps DEF FreedInv, DeleteTree
  <1>2. /\ heap' = [n \in DOMAIN heap \ freed |-> heap[n]]
        /\ texts' = [n \in DOMAIN texts \ gone |-> texts[n]]
    BY DEF DeleteTree
  <1>3. ASSUME "container" \notin failed PROVE heap' = << >> /\ texts' = << >>
    <2>1. Reached /\ DOMAIN held = {1} /\ held[1] # Null /\ TextsOwned
      <3>1. held \in Seq(Nat)
        BY <1>1 DEF BufferInv, ItemsOK
      <3> QED BY <1>1, <1>3, <3>1 DEF TreeOK
    <2>2. freed = DOMAIN heap
      <3>1. ASSUME NEW S \in SUBSET DOMAIN heap, held[1] \in S, Closed(heap, S)
            PROVE  S = DOMAIN heap
        BY <2>1, <3>1 DEF Reached
      <3>2. Below(heap, held[1]) = DOMAIN heap
        BY <3>1 DEF Below, Closed
      <3> QED BY <2>1, <3>2
    <2>3. DOMAIN texts \subseteq gone
      BY <2>1, <2>2 DEF TextsOwned
    <2> HIDE DEF freed, gone
    <2>4. DOMAIN heap' = {} /\ DOMAIN texts' = {}
      BY <1>2, <2>2, <2>3
    <2>5. heap' = [n \in DOMAIN heap' |-> heap'[n]] /\ texts' = [n \in DOMAIN texts' |-> texts'[n]]
      BY <1>2
    <2> QED BY <2>4, <2>5, NoArguments
  <1> QED BY <1>1, <1>3 DEF FreedInv

LEMMA FreedSend == ASSUME FreedInv, Send PROVE FreedInv'
  <1>1. /\ BufferInv /\ BufferInv' /\ at = "sending" /\ at' = "done" /\ buffer' = Null
        /\ UNCHANGED <<heap, texts, meant, failed>>
    BY SendKeeps DEF FreedInv, Send, tree
  <1> QED BY <1>1 DEF FreedInv

LEMMA FreedStutters == ASSUME FreedInv, UNCHANGED vars PROVE FreedInv'
  <1>1. UNCHANGED <<held, heap, texts, meant, calls, buffers, buffer, length, written, todo,
                    names, failed, at>>
    BY DEF vars, tree, printer
  <1>2. TreeOK' = TreeOK
    BY <1>1 DEF TreeOK, RootsOK, TextsOwned, Reached, Owned
  <1>3. BufferInv'
    <2>1. ItemsOK' = ItemsOK /\ PrintsWithinBuffer' = PrintsWithinBuffer
      BY <1>1 DEF ItemsOK, PrintsWithinBuffer
    <2> QED BY <1>1, <2>1, SameTree DEF FreedInv, BufferInv, tree
  <1> QED BY <1>1, <1>2, <1>3 DEF FreedInv

\* The items a handler builds hang on its containers by one link each, in lists
\* that end, and every copied string on an item; unless a container is missing
\* they all hang on what the handler still holds.  So when it has responded,
\* deleting the one it responds with deletes everything.
THEOREM TreeHangsTogether == Spec => []FreedInv
  <1>1. FreedInv /\ [Next]_vars => FreedInv'
    <2> SUFFICES ASSUME FreedInv, [Next]_vars PROVE FreedInv'
      OBVIOUS
    <2>1. ASSUME NEW kind \in Kinds, Create(kind) PROVE FreedInv'
      BY <2>1, FreedCreate
    <2>2. ASSUME NEW i \in DOMAIN held, NEW key \in Strings, NEW new \in Members,
                 AddMember(i, key, new)
          PROVE  FreedInv'
      BY <2>2, FreedAddMember
    <2>3. ASSUME NEW i \in DOMAIN held, NEW j \in DOMAIN held, NEW key \in Strings,
                 Attach(i, j, key)
          PROVE  FreedInv'
      BY <2>3, FreedAttach
    <2>4. CASE Respond \/ Write \/ Walk \/ EndPrint
      BY <2>4, FreedPrinter
    <2>5. CASE DeleteTree
      BY <2>5, FreedDelete
    <2>6. CASE Send
      BY <2>6, FreedSend
    <2>7. CASE UNCHANGED vars
      BY <2>7, FreedStutters
    <2> QED BY <2>1, <2>2, <2>3, <2>4, <2>5, <2>6, <2>7 DEF Next
  <1> QED BY FreedInit, <1>1, PTL DEF Spec

\* Whatever a handler builds and whichever allocation fails: when its answer
\* has been sent no buffer is left and, unless a container could not be
\* allocated, no item and no string.
THEOREM AnswersAreFreed == Spec => []AnswerIsFreed
  <1>1. FreedInv => AnswerIsFreed
    <2> SUFFICES ASSUME FreedInv PROVE AnswerIsFreed
      OBVIOUS
    <2>1. TypeOK
      BY DEF FreedInv, BufferInv, TypeOK
    <2>2. at = "done" => buffers = {}
      BY DEF FreedInv, BufferInv, PrintsWithinBuffer
    <2> QED BY <2>1, <2>2 DEF FreedInv, AnswerIsFreed
  <1> QED BY TreeHangsTogether, <1>1, PTL

(***************************************************************************)
(* Texts put together from pieces.                                         *)
(***************************************************************************)
LEMMA Associative ==
  ASSUME NEW S, NEW a \in Seq(S), NEW b \in Seq(S), NEW c \in Seq(S)
  PROVE  (a \o b) \o c = a \o (b \o c) /\ a \o b \in Seq(S) /\ b \o c \in Seq(S)
  OBVIOUS

LEMMA Empty ==
  ASSUME NEW S, NEW a \in Seq(S)
  PROVE  << >> \o a = a /\ a \o << >> = a /\ << >> \in Seq(S)
  OBVIOUS

LEMMA JoinedUnique ==
  ASSUME NEW L \in Nat, NEW piece, NEW end, NEW f, NEW g,
         Joined(f, L, piece, end), Joined(g, L, piece, end)
  PROVE  f[1] = g[1]
  <1> DEFINE wrong == {k \in 0 .. L : f[L + 1 - k] # g[L + 1 - k]}
  <1>1. wrong \subseteq Nat
    OBVIOUS
  <1>2. \A i \in 1 .. L + 1 : /\ f[i] = IF i > L THEN end ELSE piece[i] \o f[i + 1]
                              /\ g[i] = IF i > L THEN end ELSE piece[i] \o g[i + 1]
    BY DEF Joined
  <1>3. ASSUME wrong # {} PROVE FALSE
    <2>1. PICK k \in wrong : \A l \in wrong : ~ (l < k)
      BY <1>1, <1>3, LeastNumber
    <2>2. CASE k = 0
      BY <1>2, <2>1, <2>2
    <2>3. CASE k # 0
      <3>1. k - 1 \in 0 .. L /\ k - 1 < k /\ L + 1 - (k - 1) = (L + 1 - k) + 1
            /\ L + 1 - k \in 1 .. L /\ f[L + 1 - k] # g[L + 1 - k]
        BY <2>1, <2>3
      <3>2. f[(L + 1 - k) + 1] = g[(L + 1 - k) + 1]
        BY <2>1, <3>1
      <3>3. L + 1 - k \in 1 .. L + 1 /\ ~(L + 1 - k > L)
        BY <3>1
      <3> HIDE DEF wrong
      <3> QED BY <1>2, <3>1, <3>2, <3>3
    <2> QED BY <2>2, <2>3
  <1>4. L \in 0 .. L /\ L + 1 - L = 1
    OBVIOUS
  <1> QED BY <1>3, <1>4

\* All pieces, from the first to the last.
Flat(pieces) == (CHOOSE f : Joined(f, Len(pieces), pieces, << >>))[1]

Pieces == Seq(Seq(Characters))

LEMMA Flattened ==
  ASSUME NEW p \in Pieces
  PROVE  /\ Flat(p) \in Seq(Characters)
         /\ \A f : Joined(f, Len(p), p, << >>) => f[1] = Flat(p)
  <1> DEFINE g == CHOOSE f : Joined(f, Len(p), p, << >>)
  <1>1. Len(p) \in Nat /\ << >> \in Seq(Characters) /\ p \in [1 .. Len(p) -> Seq(Characters)]
    BY DEF Pieces
  <1>2. Joined(g, Len(p), p, << >>)
    BY <1>1, JoinedExists
  <1> HIDE DEF g
  <1>3. g[1] \in Seq(Characters)
    <2>1. \A i \in 1 .. Len(p) + 1 : g[i] \in Seq(Characters)
      BY <1>1, <1>2, JoinedTypes
    <2> QED BY <1>1, <2>1
  <1>4. \A f : Joined(f, Len(p), p, << >>) => f[1] = g[1]
    BY <1>1, <1>2, JoinedUnique
  <1> QED BY <1>3, <1>4 DEF Flat, g

LEMMA FlatEmpty == << >> \in Pieces /\ Flat(<< >>) = << >>
  <1>1. << >> \in Pieces /\ Len(<< >>) = 0
    BY DEF Pieces
  <1> DEFINE f == [i \in 1 .. 0 + 1 |-> << >>]
  <1>2. Joined(f, Len(<< >>), << >>, << >>)
    BY <1>1 DEF Joined
  <1>3. f[1] = << >>
    OBVIOUS
  <1> HIDE DEF f
  <1> QED BY <1>1, <1>2, <1>3, Flattened

LEMMA FlatCons ==
  ASSUME NEW x \in Seq(Characters), NEW p \in Pieces
  PROVE  <<x>> \o p \in Pieces /\ Flat(<<x>> \o p) = x \o Flat(p)
  <1> DEFINE q == <<x>> \o p
             L == Len(p)
             e == CHOOSE f : Joined(f, L, p, << >>)
             g == [i \in 1 .. (L + 1) + 1 |-> IF i = 1 THEN x \o e[1] ELSE e[i - 1]]
  <1>1. /\ L \in Nat /\ p \in [1 .. L -> Seq(Characters)] /\ << >> \in Seq(Characters)
        /\ q \in Pieces /\ Len(q) = L + 1 /\ q[1] = x
        /\ \A i \in 2 .. L + 1 : q[i] = p[i - 1]
    BY DEF Pieces
  <1>2. Joined(e, L, p, << >>)
    BY <1>1, JoinedExists
  <1>3. Flat(p) = e[1]
    BY DEF Flat
  <1> HIDE DEF e, q
  <1>4. \A i \in 1 .. L + 1 : e[i] = IF i > L THEN << >> ELSE p[i] \o e[i + 1]
    BY <1>2 DEF Joined
  <1>5. ASSUME NEW i \in 1 .. (L + 1) + 1
        PROVE  g[i] = IF i > L + 1 THEN << >> ELSE q[i] \o g[i + 1]
    <2>1. CASE i = 1
      <3>1. g[i] = x \o e[1] /\ g[i + 1] = e[1] /\ ~(i > L + 1)
        BY <1>1, <2>1
      <3> HIDE DEF g
      <3> QED BY <1>1, <2>1, <3>1
    <2>2. CASE i # 1
      <3>1. /\ i - 1 \in 1 .. L + 1 /\ g[i] = e[i - 1] /\ (i > L + 1 <=> i - 1 > L)
            /\ i <= L + 1 => g[i + 1] = e[(i - 1) + 1] /\ i \in 2 .. L + 1
        BY <1>1, <2>2
      <3> HIDE DEF g, L
      <3> QED BY <1>1, <1>4, <3>1
    <2> QED BY <2>1, <2>2
  <1>6. g = [i \in 1 .. (L + 1) + 1 |-> IF i > L + 1 THEN << >> ELSE q[i] \o g[i + 1]]
    <2> DEFINE h == [i \in 1 .. (L + 1) + 1 |-> IF i > L + 1 THEN << >> ELSE q[i] \o g[i + 1]]
    <2>1. \A i \in 1 .. (L + 1) + 1 : g[i] = h[i]
      BY <1>5
    <2>2. g = [i \in 1 .. (L + 1) + 1 |-> g[i]] /\ h = [i \in 1 .. (L + 1) + 1 |-> h[i]]
      OBVIOUS
    <2> HIDE DEF g, h, L
    <2>3. g = h
      BY <2>1, <2>2
    <2> QED BY <2>3 DEF h
  <1>7. Joined(g, Len(q), q, << >>)
    <2> HIDE DEF g
    <2> QED BY <1>1, <1>6 DEF Joined
  <1>8. g[1] = x \o e[1]
    BY <1>1
  <1> HIDE DEF g
  <1>9. g[1] = Flat(q)
    BY <1>1, <1>7, Flattened
  <1> QED BY <1>1, <1>3, <1>8, <1>9 DEF q

LEMMA FlatOne ==
  ASSUME NEW x \in Seq(Characters) PROVE <<x>> \in Pieces /\ Flat(<<x>>) = x
  <1>1. <<x>> \o << >> = <<x>>
    OBVIOUS
  <1> QED BY <1>1, FlatCons, FlatEmpty, Empty

LEMMA FlatBoth ==
  ASSUME NEW p \in Pieces, NEW q \in Pieces
  PROVE  p \o q \in Pieces /\ Flat(p \o q) = Flat(p) \o Flat(q)
  <1> DEFINE wrong == {n \in Nat : \E r \in Pieces : Len(r) = n /\
                                                       Flat(r \o q) # Flat(r) \o Flat(q)}
  <1>1. wrong \subseteq Nat
    OBVIOUS
  <1>2. ASSUME wrong # {} PROVE FALSE
    <2>1. PICK n \in wrong : \A l \in wrong : ~ (l < n)
      BY <1>1, <1>2, LeastNumber
    <2>2. PICK r \in Pieces : Len(r) = n /\ Flat(r \o q) # Flat(r) \o Flat(q)
      BY <2>1
    <2>3. CASE r = << >>
      <3>1. Flat(q) \in Seq(Characters) /\ << >> \o q = q
        BY Flattened DEF Pieces
      <3> QED BY <2>2, <2>3, <3>1, FlatEmpty, Empty
    <2>4. CASE r # << >>
      <3> DEFINE x == Head(r)
                 t == Tail(r)
      <3>1. /\ x \in Seq(Characters) /\ t \in Pieces /\ Len(t) = n - 1 /\ n - 1 \in Nat
            /\ r = <<x>> \o t /\ r \o q = <<x>> \o (t \o q)
        BY <2>2, <2>4 DEF Pieces
      <3> HIDE DEF x, t
      <3>2. n - 1 \notin wrong
        BY <2>1, <3>1
      <3>3. Flat(t \o q) = Flat(t) \o Flat(q)
        BY <3>1, <3>2
      <3>4. t \o q \in Pieces
        BY <3>1 DEF Pieces
      <3>5. Flat(r \o q) = x \o (Flat(t) \o Flat(q))
        BY <3>1, <3>3, <3>4, FlatCons
      <3>6. Flat(r) = x \o Flat(t)
        BY <3>1, FlatCons
      <3>7. Flat(t) \in Seq(Characters) /\ Flat(q) \in Seq(Characters)
        BY <3>1, Flattened
      <3>8. x \o (Flat(t) \o Flat(q)) = (x \o Flat(t)) \o Flat(q)
        BY <3>1, <3>7, Associative
      <3> QED BY ONLY <2>2, <3>5, <3>6, <3>8
    <2> QED BY <2>3, <2>4
  <1>3. Len(p) \in Nat /\ p \o q \in Pieces
    BY DEF Pieces
  <1> QED BY <1>2, <1>3

\* What follows the pieces can be put at their end.
LEMMA JoinedFlat ==
  ASSUME NEW p \in Pieces, NEW end \in Seq(Characters), NEW f, Joined(f, Len(p), p, end)
  PROVE  f[1] = Flat(p) \o end
  <1> DEFINE L == Len(p)
             e == CHOOSE e : Joined(e, L, p, << >>)
             g == [i \in 1 .. L + 1 |-> e[i] \o end]
  <1>1. L \in Nat /\ p \in [1 .. L -> Seq(Characters)] /\ << >> \in Seq(Characters)
    BY DEF Pieces
  <1>2. Joined(e, L, p, << >>)
    BY <1>1, JoinedExists
  <1>3. Flat(p) = e[1]
    BY DEF Flat
  <1> HIDE DEF e
  <1>4. \A i \in 1 .. L + 1 : e[i] = IF i > L THEN << >> ELSE p[i] \o e[i + 1]
    BY <1>2 DEF Joined
  <1>5. \A i \in 1 .. L + 1 : e[i] \in Seq(Characters)
    BY <1>1, <1>2, JoinedTypes
  <1>6. ASSUME NEW i \in 1 .. L + 1
        PROVE  g[i] = IF i > L THEN end ELSE p[i] \o g[i + 1]
    <2>1. CASE i > L
      <3>1. e[i] = << >> /\ g[i] = e[i] \o end
        BY <1>4, <2>1
      <3> HIDE DEF g
      <3> QED BY <2>1, <3>1, Empty
    <2>2. CASE i <= L
      <3>1. i \in 1 .. L /\ i + 1 \in 1 .. L + 1 /\ ~(i > L)
        BY <1>1, <2>2
      <3>2. g[i] = e[i] \o end /\ g[i + 1] = e[i + 1] \o end
        BY <3>1
      <3> HIDE DEF g, L
      <3>3. /\ p[i] \in Seq(Characters) /\ e[i + 1] \in Seq(Characters)
            /\ end \in Seq(Characters)
        BY <1>1, <1>5, <3>1
      <3>4. (p[i] \o e[i + 1]) \o end = p[i] \o (e[i + 1] \o end)
        <4>1. \A a, b, c \in Seq(Characters) : (a \o b) \o c = a \o (b \o c)
          BY ONLY Associative
        <4> QED BY ONLY <3>3, <4>1
      <3>5. e[i] = p[i] \o e[i + 1]
        BY <1>4, <3>1
      <3> QED BY ONLY <3>1, <3>2, <3>4, <3>5
    <2>3. i > L \/ i <= L
      BY <1>1
    <2> QED BY <2>1, <2>2, <2>3
  <1>7. Joined(g, L, p, end)
    <2> DEFINE h == [i \in 1 .. L + 1 |-> IF i > L THEN end ELSE p[i] \o g[i + 1]]
    <2>1. g = [i \in 1 .. L + 1 |-> g[i]] /\ h = [i \in 1 .. L + 1 |-> h[i]]
      OBVIOUS
    <2>2. \A i \in 1 .. L + 1 : g[i] = h[i]
      BY <1>6
    <2> HIDE DEF g, h, L
    <2>3. g = h
      BY <2>1, <2>2
    <2> QED BY <2>3 DEF h, Joined
  <1>8. g[1] = e[1] \o end
    BY <1>1
  <1> HIDE DEF g
  <1> QED BY <1>1, <1>3, <1>7, <1>8, JoinedUnique

LEMMA QuotedFlat ==
  ASSUME NEW s \in Seq({"plain", "special"})
  PROVE  /\ EscapedPieces(s) \in Pieces
         /\ Quoted(s) = <<"quote">> \o (Flat(EscapedPieces(s)) \o <<"quote">>)
  <1> DEFINE L == Len(s)
             p == EscapedPieces(s)
             quote == <<"quote">>
  <1>1. /\ L \in Nat /\ quote \in Seq(Characters)
        /\ p \in [1 .. L -> Seq(Characters)]
        /\ \E f : Joined(f, L, p, quote) /\ Quoted(s) = quote \o f[1]
    BY QuotedFrom
  <1> HIDE DEF L, p, quote
  <1>2. PICK f : Joined(f, L, p, quote) /\ Quoted(s) = quote \o f[1]
    BY <1>1
  <1>3. p \in Pieces /\ Len(p) = L
    BY <1>1 DEF Pieces
  <1>4. f[1] = Flat(p) \o quote
    BY <1>1, <1>2, <1>3, JoinedFlat
  <1> QED BY <1>2, <1>3, <1>4 DEF p, quote

\* What the members of a container say.
Body(members) == Flat(MemberPieces(members))

LEMMA SaidFlat ==
  ASSUME NEW m \in Meaning
  PROVE  /\ MemberPieces(m.members) \in Pieces /\ Body(m.members) \in Seq(Characters)
         /\ Said(m) = <<Opening(m.kind)>> \o (Body(m.members) \o <<Closing(m.kind)>>)
  <1> DEFINE L == Len(m.members)
             end == <<Closing(m.kind)>>
             open == <<Opening(m.kind)>>
             p == MemberPieces(m.members)
  <1>1. /\ L \in Nat /\ open \in Seq(Characters) /\ end \in Seq(Characters)
        /\ p \in [1 .. L -> Seq(Characters)]
        /\ \E f : Joined(f, L, p, end) /\ Said(m) = open \o f[1]
    BY SaidFrom
  <1> HIDE DEF L, p, end, open
  <1>2. PICK f : Joined(f, L, p, end) /\ Said(m) = open \o f[1]
    BY <1>1
  <1>3. p \in Pieces /\ Len(p) = L
    BY <1>1 DEF Pieces
  <1>4. f[1] = Flat(p) \o end /\ Flat(p) \in Seq(Characters)
    BY <1>1, <1>2, <1>3, JoinedFlat, Flattened
  <1> QED BY <1>2, <1>3, <1>4 DEF p, end, open, Body

LEMMA BodyEmpty == Body(<< >>) = << >>
  <1>1. MemberPieces(<< >>) = << >>
    BY DEF MemberPieces
  <1> QED BY <1>1, FlatEmpty DEF Body

LEMMA BodyGrows ==
  ASSUME NEW members \in Seq(Seq(Characters)), NEW x \in Seq(Characters),
         MemberPieces(members) \in Pieces
  PROVE  Body(Append(members, x)) =
            Body(members) \o ((IF members = << >> THEN << >> ELSE <<",">>) \o x)
  <1> DEFINE sep == IF members = << >> THEN << >> ELSE <<",">>
             y == sep \o x
             p == MemberPieces(members)
             q == MemberPieces(Append(members, x))
             L == Len(members)
  <1>1. /\ L \in Nat /\ Len(Append(members, x)) = L + 1
        /\ \A i \in 1 .. L : Append(members, x)[i] = members[i]
        /\ Append(members, x)[L + 1] = x
        /\ members = << >> <=> L = 0
    OBVIOUS
  <1>2. y \in Seq(Characters)
    <2>1. <<",">> \in Seq(Characters) /\ << >> \in Seq(Characters)
      <3>1. "," \in Characters
        BY Punctuation
      <3>2. << >> \in Seq(Characters)
        OBVIOUS
      <3> QED BY <3>1, <3>2, One
    <2>2. sep \in Seq(Characters)
      BY <2>1, Zenon
    <2> HIDE DEF sep
    <2> QED BY <2>2
  <1>3. q = p \o <<y>>
    <2>1. /\ p = [i \in 1 .. L |-> (IF i > 1 THEN <<",">> ELSE << >>) \o members[i]]
          /\ q = [i \in 1 .. L + 1 |-> (IF i > 1 THEN <<",">> ELSE << >>)
                                       \o Append(members, x)[i]]
      BY <1>1 DEF MemberPieces
    <2>p. p \in Seq(Seq(Characters))
      BY DEF Pieces
    <2>s. sep = IF L + 1 > 1 THEN <<",">> ELSE << >>
      <3>1. members = << >> <=> ~(L + 1 > 1)
        <4>1. L \in Nat /\ (members = << >> <=> L = 0)
          BY <1>1
        <4> HIDE DEF L
        <4> QED BY ONLY <4>1
      <3> HIDE DEF L
      <3> QED BY ONLY <3>1
    <2> HIDE DEF q, p, sep
    <2>2. /\ DOMAIN q = 1 .. L + 1 /\ \A i \in 1 .. L : q[i] = p[i]
          /\ q[L + 1] = y
      <3> HIDE DEF L
      <3>1. \A i \in 1 .. L : i \in 1 .. L + 1
        BY <1>1
      <3>2. L + 1 \in 1 .. L + 1
        BY <1>1
      <3>3. q[L + 1] = (IF L + 1 > 1 THEN <<",">> ELSE << >>) \o x
        BY <1>1, <2>1, <3>2
      <3>4. q[L + 1] = y
        BY ONLY <2>s, <3>3 DEF y
      <3>5. ASSUME NEW i \in 1 .. L PROVE q[i] = p[i]
        BY <1>1, <2>1, <3>1, <3>5
      <3> QED BY <2>1, <3>4, <3>5
    <2>3. DOMAIN p = 1 .. L /\ Len(p) = L
      <3>1. DOMAIN p = 1 .. L
        BY <2>1
      <3>2. DOMAIN p = 1 .. Len(p) /\ Len(p) \in Nat
        BY <2>p
      <3>3. \A a, b \in Nat : 1 .. a = 1 .. b => a = b
        OBVIOUS
      <3> HIDE DEF L
      <3> QED BY <1>1, <3>1, <3>2, <3>3
    <2>4. q = [i \in 1 .. L + 1 |-> q[i]]
      BY <2>1, <2>2
    <2> HIDE DEF L, y
    <2>5. /\ \A i \in 1 .. L : (p \o <<y>>)[i] = p[i]
          /\ (p \o <<y>>)[L + 1] = y
          /\ p \o <<y>> = [i \in 1 .. L + 1 |-> (p \o <<y>>)[i]]
      <3>1. L \in Nat
        BY <1>1
      <3> QED BY ONLY <1>2, <2>3, <2>p, <3>1
    <2>6. \A i \in 1 .. L + 1 : q[i] = (p \o <<y>>)[i]
      <3>1. \A i \in 1 .. L + 1 : i \in 1 .. L \/ i = L + 1
        BY <1>1
      <3> QED BY <2>2, <2>5, <3>1
    <2> QED BY ONLY <2>4, <2>5, <2>6
  <1> HIDE DEF y, p, q
  <1>4. p \in Pieces
    BY DEF p
  <1>5. Flat(q) = Flat(p) \o y
    BY ZenonT(40), <1>2, <1>3, <1>4, FlatOne, FlatBoth
  <1> QED BY <1>5 DEF Body, y, p, q

(***************************************************************************)
(* What an item says.                                                      *)
(***************************************************************************)
TextOf(t, p) == IF p = Null THEN <<"quote", "quote">> ELSE Quoted(t[p])

\* What the list that starts with n says, when f says it of every item: with
\* keys in an object, without in an array.
List(f, n, inObject) == IF n = Null THEN << >> ELSE f[n][inObject]

Value(items, t, f, n) ==
  CASE items[n].type = "scalar" -> items[n].value
    [] items[n].type = "text"   -> TextOf(t, items[n].valuestring)
    [] OTHER -> <<Opening(items[n].type)>>
                \o (List(f, items[n].child, items[n].type = "object")
                    \o <<Closing(items[n].type)>>)

Entry(items, t, f, n, inObject) ==
  (IF inObject THEN TextOf(t, items[n].string) \o <<":">> ELSE << >>) \o Value(items, t, f, n)

Describes(items, t, f) ==
  /\ f \in [DOMAIN items -> [BOOLEAN -> Seq(Characters)]]
  /\ \A n \in DOMAIN items, o \in BOOLEAN :
        f[n][o] = Entry(items, t, f, n, o)
                  \o (IF items[n].next = Null THEN << >> ELSE <<",">> \o f[items[n].next][o])

\* Items, and strings, that are allocated.
ItemsFit(items, t) ==
  /\ ListsOK(items)
  /\ t \in [DOMAIN t -> Strings] /\ Null \notin DOMAIN t
  /\ \A n \in DOMAIN items : /\ items[n].string \in DOMAIN t \cup {Null}
                             /\ items[n].valuestring \in DOMAIN t \cup {Null}

LEMMA Marks ==
  /\ <<",">> \in Seq(Characters) /\ <<":">> \in Seq(Characters) /\ << >> \in Seq(Characters)
  /\ <<"quote">> \in Seq(Characters) /\ <<"quote", "quote">> \in Seq(Characters)
  /\ \A kind \in Kinds : /\ <<Opening(kind)>> \in Seq(Characters)
                         /\ <<Closing(kind)>> \in Seq(Characters)
  <1>1. << >> \in Seq(Characters)
    OBVIOUS
  <1> QED BY <1>1, Punctuation, One, TwoCharacters

LEMMA TextOfTypes ==
  ASSUME NEW t, NEW p \in DOMAIN t \cup {Null}, t \in [DOMAIN t -> Strings]
  PROVE  TextOf(t, p) \in Seq(Characters)
  <1>1. CASE p = Null
    BY <1>1, Marks DEF TextOf
  <1>2. CASE p # Null
    <2>1. t[p] \in Seq({"plain", "special"})
      BY <1>2, AnswerAssumption
    <2> QED BY <1>2, <2>1, QuotedTypes DEF TextOf
  <1> QED BY <1>1, <1>2

LEMMA ScalarIsDigits ==
  ASSUME NEW x \in Scalars \cup {<< >>} PROVE x \in Seq(Characters)
  <1>1. CASE x \in Scalars
    <2>1. {"digit"} \subseteq Characters
      BY DEF Characters
    <2> QED BY <1>1, <2>1, AnswerAssumption, Wider
  <1>2. CASE x = << >>
    BY <1>2
  <1> QED BY <1>1, <1>2

LEMMA SaysTypes ==
  ASSUME NEW items, NEW t, ItemsFit(items, t), NEW n \in DOMAIN items,
         NEW f, List(f, items[n].child, items[n].type = "object") \in Seq(Characters)
  PROVE  /\ Value(items, t, f, n) \in Seq(Characters)
         /\ \A o \in BOOLEAN : Entry(items, t, f, n, o) \in Seq(Characters)
  <1>1. /\ items[n] \in Item /\ t \in [DOMAIN t -> Strings]
        /\ items[n].string \in DOMAIN t \cup {Null}
        /\ items[n].valuestring \in DOMAIN t \cup {Null}
    BY DEF ItemsFit, ListsOK, ItemsOn
  <1>2. /\ TextOf(t, items[n].string) \in Seq(Characters)
        /\ TextOf(t, items[n].valuestring) \in Seq(Characters)
    BY <1>1, TextOfTypes
  <1>3. items[n].value \in Seq(Characters) /\ items[n].type \in Kinds \cup {"text", "scalar"}
    BY <1>1, ScalarIsDigits DEF Item
  <1>v. Value(items, t, f, n) \in Seq(Characters)
    <2>1. CASE items[n].type = "scalar"
      BY <1>3, <2>1 DEF Value
    <2>2. CASE items[n].type = "text"
      BY <1>2, <2>2 DEF Value
    <2>3. CASE items[n].type \in Kinds
      <3> DEFINE open == <<Opening(items[n].type)>>
                 end == <<Closing(items[n].type)>>
                 list == List(f, items[n].child, items[n].type = "object")
      <3>1. Value(items, t, f, n) = open \o (list \o end)
        BY <2>3 DEF Value, Kinds
      <3>2. open \in Seq(Characters) /\ end \in Seq(Characters) /\ list \in Seq(Characters)
        BY <2>3, Marks
      <3> HIDE DEF open, end, list
      <3> QED BY <3>1, <3>2
    <2> QED BY <1>3, <2>1, <2>2, <2>3
  <1>4. ASSUME NEW o \in BOOLEAN PROVE Entry(items, t, f, n, o) \in Seq(Characters)
    <2> DEFINE label == IF o THEN TextOf(t, items[n].string) \o <<":">> ELSE << >>
    <2>1. label \in Seq(Characters)
      <3>1. TextOf(t, items[n].string) \o <<":">> \in Seq(Characters)
        <4>1. <<":">> \in Seq(Characters)
          BY Marks
        <4>2. \A a, b \in Seq(Characters) : a \o b \in Seq(Characters)
          OBVIOUS
        <4> QED BY ONLY <1>2, <4>1, <4>2
      <3>2. << >> \in Seq(Characters)
        OBVIOUS
      <3> QED BY <3>1, <3>2, Zenon
    <2>2. Entry(items, t, f, n, o) = label \o Value(items, t, f, n)
      BY DEF Entry
    <2> HIDE DEF label
    <2> QED BY <1>v, <2>1, <2>2
  <1> QED BY <1>v, <1>4

(***************************************************************************)
(* What the tasks of the printer say.                                      *)
(***************************************************************************)
TaskText(f, task) ==
  IF task.do = "put" THEN task.text ELSE List(f, task.item, task.inObject)

TaskTexts(f, tasks) == [k \in 1 .. Len(tasks) |-> TaskText(f, tasks[k])]

Say(f, tasks) == Flat(TaskTexts(f, tasks))

\* f says something of every item of the tree.
Speaks(f) == f \in [DOMAIN heap -> [BOOLEAN -> Seq(Characters)]]

LEMMA ListSays ==
  ASSUME NEW f, Speaks(f), NEW n \in DOMAIN heap \cup {Null}, NEW o \in BOOLEAN
  PROVE  List(f, n, o) \in Seq(Characters)
  <1>1. CASE n = Null
    BY <1>1, Marks DEF List
  <1>2. CASE n # Null
    <2>1. f[n] \in [BOOLEAN -> Seq(Characters)]
      BY <1>2 DEF Speaks
    <2> QED BY <1>2, <2>1 DEF List
  <1> QED BY <1>1, <1>2

LEMMA TaskSays ==
  ASSUME NEW f, Speaks(f), NEW task \in LiveTasks PROVE TaskText(f, task) \in Seq(Characters)
  <1>1. CASE task.do = "put"
    BY <1>1 DEF TaskText, LiveTasks
  <1>2. CASE task.do # "put"
    <2>1. task.item \in DOMAIN heap \cup {Null} /\ task.inObject \in BOOLEAN
      BY <1>2 DEF LiveTasks
    <2> QED BY <1>2, <2>1, ListSays DEF TaskText
  <1> QED BY <1>1, <1>2

LEMMA TasksSay ==
  ASSUME NEW f, Speaks(f), NEW tasks \in Seq(LiveTasks)
  PROVE  TaskTexts(f, tasks) \in Pieces /\ Say(f, tasks) \in Seq(Characters)
  <1>1. \A k \in 1 .. Len(tasks) : TaskText(f, tasks[k]) \in Seq(Characters)
    BY TaskSays
  <1>2. Len(tasks) \in Nat
    OBVIOUS
  <1>3. TaskTexts(f, tasks) \in Pieces
    BY <1>1, <1>2 DEF TaskTexts, Pieces
  <1> QED BY <1>3, Flattened DEF Say

LEMMA SayNothing == ASSUME NEW f PROVE Say(f, << >>) = << >>
  <1>1. TaskTexts(f, << >>) = << >>
    BY DEF TaskTexts
  <1> QED BY <1>1, FlatEmpty DEF Say

LEMMA SayOne ==
  ASSUME NEW f, Speaks(f), NEW task \in LiveTasks
  PROVE  <<task>> \in Seq(LiveTasks) /\ Say(f, <<task>>) = TaskText(f, task)
  <1>1. TaskTexts(f, <<task>>) = <<TaskText(f, task)>>
    BY DEF TaskTexts
  <1> QED BY <1>1, One, TaskSays, FlatOne DEF Say

LEMMA Together ==
  ASSUME NEW S, NEW x \in Seq(S), NEW y \in Seq(S)
  PROVE  /\ Len(x) \in Nat /\ Len(y) \in Nat
         /\ x \o y \in Seq(S) /\ Len(x \o y) = Len(x) + Len(y)
         /\ x \o y = [k \in 1 .. Len(x) + Len(y) |-> (x \o y)[k]]
         /\ \A k \in 1 .. Len(x) : (x \o y)[k] = x[k]
         /\ \A k \in 1 .. Len(y) : (x \o y)[Len(x) + k] = y[k]
  <1>1. x \o y \in Seq(S) /\ Len(x \o y) = Len(x) + Len(y) /\ Len(x) \in Nat /\ Len(y) \in Nat
    OBVIOUS
  <1>2. \A s \in Seq(S) : s = [k \in 1 .. Len(s) |-> s[k]]
    OBVIOUS
  <1>3. x \o y = [k \in 1 .. Len(x) + Len(y) |-> (x \o y)[k]]
    BY ONLY <1>1, <1>2
  <1>4. \A k \in 1 .. Len(x) : (x \o y)[k] = x[k]
    OBVIOUS
  <1>5. \A k \in 1 .. Len(y) : (x \o y)[Len(x) + k] = y[k]
    OBVIOUS
  <1> QED BY <1>1, <1>3, <1>4, <1>5

LEMMA SayBoth ==
  ASSUME NEW f, Speaks(f), NEW a \in Seq(LiveTasks), NEW b \in Seq(LiveTasks)
  PROVE  a \o b \in Seq(LiveTasks) /\ Say(f, a \o b) = Say(f, a) \o Say(f, b)
  <1> DEFINE p == TaskTexts(f, a)
             q == TaskTexts(f, b)
             r == TaskTexts(f, a \o b)
  <1>1. /\ Len(a) \in Nat /\ Len(b) \in Nat /\ a \o b \in Seq(LiveTasks)
        /\ Len(a \o b) = Len(a) + Len(b)
        /\ \A k \in 1 .. Len(a) : (a \o b)[k] = a[k]
        /\ \A k \in 1 .. Len(b) : (a \o b)[Len(a) + k] = b[k]
    OBVIOUS
  <1>2. p \in Pieces /\ q \in Pieces /\ r \in Pieces
    BY <1>1, TasksSay
  <1>3. p = [k \in 1 .. Len(a) |-> TaskText(f, a[k])]
    BY DEF TaskTexts
  <1>4. q = [k \in 1 .. Len(b) |-> TaskText(f, b[k])]
    BY DEF TaskTexts
  <1>5. r = [k \in 1 .. Len(a) + Len(b) |-> TaskText(f, (a \o b)[k])]
    BY <1>1 DEF TaskTexts
  <1> HIDE DEF p, q, r
  <1>6. Len(p) = Len(a) /\ Len(q) = Len(b)
    <2>1. \A s \in Pieces : DOMAIN s = 1 .. Len(s) /\ Len(s) \in Nat
      BY DEF Pieces
    <2>2. DOMAIN p = 1 .. Len(a) /\ DOMAIN q = 1 .. Len(b)
      BY <1>3, <1>4
    <2>3. \A x, y \in Nat : 1 .. x = 1 .. y => x = y
      OBVIOUS
    <2> QED BY ONLY <1>1, <1>2, <2>1, <2>2, <2>3
  <1>7. r = p \o q
    <2>1. /\ Len(p) \in Nat /\ Len(q) \in Nat
          /\ p \o q = [k \in 1 .. Len(p) + Len(q) |-> (p \o q)[k]]
          /\ \A k \in 1 .. Len(p) : (p \o q)[k] = p[k]
          /\ \A k \in 1 .. Len(q) : (p \o q)[Len(p) + k] = q[k]
      BY ONLY <1>2, Together DEF Pieces
    <2>2. ASSUME NEW k \in 1 .. Len(a) + Len(b) PROVE r[k] = (p \o q)[k]
      <3>1. CASE k \in 1 .. Len(a)
        BY <1>1, <1>3, <1>5, <1>6, <2>1, <3>1
      <3>2. CASE k \notin 1 .. Len(a)
        <4>1. PICK l \in 1 .. Len(b) : k = Len(a) + l
          <5>1. k - Len(a) \in 1 .. Len(b) /\ k = Len(a) + (k - Len(a))
            BY <1>1, <3>2
          <5> QED BY <5>1
        <4> QED BY <1>1, <1>4, <1>5, <1>6, <2>1, <4>1
      <3> QED BY <3>1, <3>2
    <2>3. r = [k \in 1 .. Len(a) + Len(b) |-> r[k]]
      BY <1>5
    <2> QED BY ONLY <1>6, <2>1, <2>2, <2>3
  <1>8. Flat(r) = Flat(p) \o Flat(q)
    BY <1>2, <1>7, FlatBoth
  <1> QED BY <1>1, <1>8 DEF Say, p, q, r

\* The same for any two lists of tasks, and what they are known to say.
LEMMA SayTwo ==
  ASSUME NEW f, Speaks(f)
  PROVE  \A a, b \in Seq(LiveTasks) :
            a \o b \in Seq(LiveTasks) /\ Say(f, a \o b) = Say(f, a) \o Say(f, b)
  BY SayBoth

LEMMA Three ==
  ASSUME NEW S, NEW a \in S, NEW b \in S, NEW c \in S
  PROVE  <<a, b, c>> = <<a>> \o (<<b>> \o <<c>>)
  <1> DEFINE x == <<a>>
             s == <<b>> \o <<c>>
             t == x \o s
  <1>1. /\ <<a>> \in Seq(S) /\ <<b>> \in Seq(S) /\ <<c>> \in Seq(S)
        /\ Len(<<a>>) = 1 /\ Len(<<b>>) = 1 /\ Len(<<c>>) = 1
    OBVIOUS
  <1>2. s \in Seq(S) /\ Len(s) = 2
    BY <1>1
  <1>3. s[1] = b /\ s[2] = c
    OBVIOUS
  <1>x. x \in Seq(S) /\ Len(x) = 1 /\ x[1] = a
    BY <1>1
  <1> HIDE DEF s, x
  <1>4. t \in Seq(S) /\ Len(t) = 3 /\ t[1] = a /\ t[2] = s[1] /\ t[3] = s[2]
    <2>2. /\ t \in Seq(S) /\ Len(t) = Len(x) + Len(s)
          /\ \A k \in 1 .. Len(x) : t[k] = x[k]
          /\ \A k \in 1 .. Len(s) : t[Len(x) + k] = s[k]
      BY ONLY SMTT(30), <1>2, <1>x, Together
    <2> HIDE DEF t
    <2>3. t[1] = a
      BY <1>x, <2>2
    <2>4. t[1 + 1] = s[1] /\ t[1 + 2] = s[2]
      BY <1>2, <1>x, <2>2
    <2> QED BY <1>2, <1>x, <2>2, <2>3, <2>4
  <1> HIDE DEF t
  <1>5. t = <<a, b, c>>
    BY <1>3, <1>4
  <1> QED BY <1>5 DEF t, s, x

LEMMA PutSays == ASSUME NEW f, NEW need, NEW text PROVE TaskText(f, Put(need, text)) = text
  BY DEF TaskText, Put

LEMMA RestSays ==
  ASSUME NEW f, NEW n, NEW o PROVE TaskText(f, Rest(n, o)) = List(f, n, o)
  BY DEF TaskText, Rest

LEMMA StringSays ==
  ASSUME NEW f, Speaks(f), NEW s \in Strings PROVE Say(f, StringTasks(s)) = Quoted(s)
  <1> DEFINE first == Put(Len(s) + 2 + StringSlack, <<"quote">>)
             middle == [i \in 1 .. Len(s) |-> Put(Len(Escaped(s[i])), Escaped(s[i]))]
             last == Put(1, <<"quote">>)
  <1>s. s \in Seq({"plain", "special"}) /\ Len(s) \in Nat
    BY AnswerAssumption
  <1>1. first \in LiveTasks /\ last \in LiveTasks
    <2>1. <<"quote">> \in Seq(Characters) /\ Len(<<"quote">>) = 1 /\ "quote" \in Characters
      BY Punctuation, OneCharacter
    <2>2. Len(s) + 2 + StringSlack \in Nat /\ 1 <= Len(s) + 2 + StringSlack
      BY <1>s, AnswerAssumption
    <2> QED BY <2>1, <2>2, PutTypes, PutOne
  <1>2. middle \in Seq(LiveTasks)
    <2>1. ASSUME NEW i \in 1 .. Len(s)
          PROVE  Put(Len(Escaped(s[i])), Escaped(s[i])) \in LiveTasks
      <3> s[i] \in {"plain", "special"}
        BY <1>s
      <3>1. s[i] \in Characters
        BY DEF Characters
      <3>2. Escaped(s[i]) \in Seq(Characters)
        BY <3>1, EscapedTypes
      <3>3. Len(Escaped(s[i])) \in Nat
        BY <3>2
      <3> QED BY <3>2, <3>3, PutTypes
    <2> QED BY <1>s, <2>1
  <1>3. TaskTexts(f, middle) = EscapedPieces(s)
    <2>1. Len(middle) = Len(s)
      <3>1. DOMAIN middle = 1 .. Len(s)
        OBVIOUS
      <3> HIDE DEF middle
      <3>2. DOMAIN middle = 1 .. Len(middle) /\ Len(middle) \in Nat
        BY <1>2
      <3>3. \A x, y \in Nat : 1 .. x = 1 .. y => x = y
        OBVIOUS
      <3> QED BY ONLY <1>s, <3>1, <3>2, <3>3
    <2>2. \A i \in 1 .. Len(s) : middle[i] = Put(Len(Escaped(s[i])), Escaped(s[i]))
      OBVIOUS
    <2> HIDE DEF middle
    <2>3. \A i \in 1 .. Len(s) : TaskText(f, middle[i]) = Escaped(s[i])
      BY <2>2, PutSays
    <2> QED BY <2>1, <2>3 DEF TaskTexts, EscapedPieces
  <1>4. StringTasks(s) = (<<first>> \o middle) \o <<last>>
    BY DEF StringTasks
  <1> DEFINE quote == <<"quote">>
  <1>5. /\ <<first>> \in Seq(LiveTasks) /\ <<last>> \in Seq(LiveTasks)
        /\ Say(f, <<first>>) = quote /\ Say(f, <<last>>) = quote
    BY <1>1, SayOne, PutSays
  <1> HIDE DEF first, middle, last, quote
  <1>6. Say(f, middle) = Flat(EscapedPieces(s))
    BY <1>3 DEF Say
  <1>t. \A x, y \in Seq(LiveTasks) :
           x \o y \in Seq(LiveTasks) /\ Say(f, x \o y) = Say(f, x) \o Say(f, y)
    BY SayTwo
  <1>7. /\ <<first>> \o middle \in Seq(LiveTasks)
        /\ Say(f, <<first>> \o middle) = quote \o Flat(EscapedPieces(s))
    BY ONLY <1>2, <1>5, <1>6, <1>t
  <1>8. Say(f, StringTasks(s)) = (quote \o Flat(EscapedPieces(s))) \o quote
    BY ONLY <1>4, <1>5, <1>7, <1>t
  <1>9. quote \in Seq(Characters) /\ Flat(EscapedPieces(s)) \in Seq(Characters)
    BY <1>s, Marks, QuotedFlat, Flattened DEF quote
  <1>10. Quoted(s) = quote \o (Flat(EscapedPieces(s)) \o quote)
    BY <1>s, QuotedFlat DEF quote
  <1>11. \A a, b, c \in Seq(Characters) : (a \o b) \o c = a \o (b \o c)
    BY ONLY Associative
  <1> QED BY ONLY <1>8, <1>9, <1>10, <1>11

LEMMA TextSays ==
  ASSUME NEW f, Speaks(f), ItemsOK, NEW p \in DOMAIN texts \cup {Null}
  PROVE  TextTasks(p) \in Seq(LiveTasks) /\ Say(f, TextTasks(p)) = TextOf(texts, p)
  <1>1. CASE p = Null
    <2>1. Put(2, <<"quote", "quote">>) \in LiveTasks
      <3>1. "quote" \in Characters
        BY Punctuation
      <3>2. <<"quote", "quote">> \in Seq(Characters) /\ Len(<<"quote", "quote">>) <= 2 /\ 2 \in Nat
        BY <3>1, TwoCharacters
      <3> QED BY <3>2, PutTypes
    <2> QED BY <1>1, <2>1, SayOne, PutSays DEF TextTasks, TextOf
  <1>2. CASE p # Null
    <2>1. texts[p] \in Strings
      BY <1>2 DEF ItemsOK
    <2> QED BY <1>2, <2>1, StringSays, StringTypes DEF TextTasks, TextOf
  <1> QED BY <1>1, <1>2

LEMMA ValueSays ==
  ASSUME NEW f, Speaks(f), ItemsOK, LinksOK, NEW n \in DOMAIN heap
  PROVE  Say(f, ValueTasks(n)) = Value(heap, texts, f, n)
  <1>1. heap[n] \in Item
    BY DEF ItemsOK
  <1>2. CASE heap[n].type = "scalar"
    <2>1. heap[n].value \in Seq(Characters)
      BY <1>1, ScalarIsDigits DEF Item
    <2>2. Len(heap[n].value) \in Nat /\ Len(heap[n].value) <= Len(heap[n].value)
      BY <2>1
    <2>3. Put(Len(heap[n].value), heap[n].value) \in LiveTasks
      BY <2>1, <2>2, PutTypes
    <2> QED BY <1>2, <2>3, SayOne, PutSays DEF ValueTasks, Value
  <1>3. CASE heap[n].type = "text"
    <2>1. heap[n].valuestring \in DOMAIN texts \cup {Null}
      BY DEF LinksOK
    <2>2. ValueTasks(n) = TextTasks(heap[n].valuestring)
      BY <1>3 DEF ValueTasks
    <2>3. Value(heap, texts, f, n) = TextOf(texts, heap[n].valuestring)
      BY <1>3 DEF Value
    <2> QED BY <2>1, <2>2, <2>3, TextSays
  <1>4. CASE heap[n].type \in Kinds
    <2> DEFINE b == Put(1, <<Opening(heap[n].type)>>)
               m == Rest(heap[n].child, heap[n].type = "object")
               e == Put(1, <<Closing(heap[n].type)>>)
               open == <<Opening(heap[n].type)>>
               end == <<Closing(heap[n].type)>>
               list == List(f, heap[n].child, heap[n].type = "object")
    <2>1. b \in LiveTasks /\ e \in LiveTasks
      BY <1>4, Punctuation, PutOne
    <2>2. m \in LiveTasks /\ list \in Seq(Characters)
      <3>1. heap[n].child \in DOMAIN heap \cup {Null} /\ (heap[n].type = "object") \in BOOLEAN
        BY DEF LinksOK
      <3> QED BY <3>1, RestTypes, ListSays
    <2>3. ValueTasks(n) = <<b, m, e>>
      BY <1>4 DEF ValueTasks, Kinds
    <2>4. TaskText(f, b) = open /\ TaskText(f, m) = list /\ TaskText(f, e) = end
      BY PutSays, RestSays
    <2>5. Value(heap, texts, f, n) = open \o (list \o end)
      BY <1>4 DEF Value, Kinds
    <2> HIDE DEF b, m, e, open, end, list
    <2>6. <<b, m, e>> = <<b>> \o (<<m>> \o <<e>>)
      BY ONLY <2>1, <2>2, Three
    <2>t. \A x, y \in Seq(LiveTasks) :
             x \o y \in Seq(LiveTasks) /\ Say(f, x \o y) = Say(f, x) \o Say(f, y)
      BY SayTwo
    <2>7. /\ <<b>> \in Seq(LiveTasks) /\ Say(f, <<b>>) = open
          /\ <<m>> \in Seq(LiveTasks) /\ Say(f, <<m>>) = list
          /\ <<e>> \in Seq(LiveTasks) /\ Say(f, <<e>>) = end
      BY <2>1, <2>2, <2>4, SayOne
    <2>8. <<m>> \o <<e>> \in Seq(LiveTasks) /\ Say(f, <<m>> \o <<e>>) = list \o end
      BY ONLY <2>7, <2>t
    <2>9. Say(f, <<b>> \o (<<m>> \o <<e>>)) = open \o (list \o end)
      BY ONLY ZenonT(40), <2>7, <2>8, <2>t
    <2> QED BY <2>3, <2>5, <2>6, <2>9
  <1> QED BY <1>1, <1>2, <1>3, <1>4 DEF Item

LEMMA RestTasksSay ==
  ASSUME NEW f, Describes(heap, texts, f), ItemsOK, LinksOK,
         NEW n \in DOMAIN heap \cup {Null}, NEW o \in BOOLEAN
  PROVE  Say(f, RestTasks(n, o)) = List(f, n, o)
  <1>s. Speaks(f)
    BY DEF Describes, Speaks
  <1>1. CASE n = Null
    BY <1>1, SayNothing DEF RestTasks, List
  <1>2. CASE n # Null
    <2> DEFINE label == IF o THEN TextTasks(heap[n].string) \o <<Put(1, <<":">>)>> ELSE << >>
               comma == IF heap[n].next = Null THEN << >> ELSE <<Put(1, <<",">>)>>
               rest  == <<Rest(heap[n].next, o)>>
               labelText == IF o THEN TextOf(texts, heap[n].string) \o <<":">> ELSE << >>
               value == ValueTasks(n)
               valueText == Value(heap, texts, f, n)
               after == IF heap[n].next = Null THEN << >> ELSE <<",">> \o f[heap[n].next][o]
    <2>0. n \in DOMAIN heap
      BY <1>2
    <2>t. \A a, b \in Seq(LiveTasks) :
             a \o b \in Seq(LiveTasks) /\ Say(f, a \o b) = Say(f, a) \o Say(f, b)
      BY <1>s, SayTwo
    <2>p. \A text \in Seq(Characters) : Len(text) = 1 =>
             /\ <<Put(1, text)>> \in Seq(LiveTasks) /\ Say(f, <<Put(1, text)>>) = text
      <3> SUFFICES ASSUME NEW text \in Seq(Characters), Len(text) = 1
                   PROVE  /\ <<Put(1, text)>> \in Seq(LiveTasks)
                          /\ Say(f, <<Put(1, text)>>) = text
        OBVIOUS
      <3>0. 1 \in Nat /\ Len(text) <= 1
        OBVIOUS
      <3>1. Put(1, text) \in LiveTasks
        BY <3>0, PutTypes
      <3> QED BY <1>s, <3>1, SayOne, PutSays
    <2>n. Say(f, << >>) = << >> /\ << >> \in Seq(LiveTasks) /\ << >> \in Seq(Characters)
      BY SayNothing
    <2>1. label \in Seq(LiveTasks) /\ Say(f, label) = labelText /\ labelText \in Seq(Characters)
      <3>1. /\ TextTasks(heap[n].string) \in Seq(LiveTasks)
            /\ Say(f, TextTasks(heap[n].string)) = TextOf(texts, heap[n].string)
        BY <1>s, <2>0, TextSays DEF LinksOK
      <3>2. <<Put(1, <<":">>)>> \in Seq(LiveTasks) /\ Say(f, <<Put(1, <<":">>)>>) = <<":">>
        <4>1. Put(1, <<":">>) \in LiveTasks
          BY Punctuation, PutOne
        <4> QED BY <1>s, <4>1, SayOne, PutSays
      <3>3. CASE o
        <4>1. label = TextTasks(heap[n].string) \o <<Put(1, <<":">>)>>
              /\ labelText = TextOf(texts, heap[n].string) \o <<":">>
          BY <3>3
        <4> HIDE DEF label, labelText
        <4>2. label \in Seq(LiveTasks) /\ Say(f, label) = labelText
          BY ONLY <2>t, <3>1, <3>2, <4>1
        <4> QED BY <1>s, <4>2, TasksSay
      <3>4. CASE ~o
        <4>1. label = << >> /\ labelText = << >>
          BY <3>4
        <4> HIDE DEF label, labelText
        <4> QED BY <2>n, <4>1
      <3> QED BY <3>3, <3>4
    <2>3. rest \in Seq(LiveTasks) /\ Say(f, rest) = List(f, heap[n].next, o)
      <3>1. Rest(heap[n].next, o) \in LiveTasks
        BY <2>0, RestTypes DEF LinksOK
      <3> QED BY <1>s, <3>1, SayOne, RestSays
    <2>2. comma \in Seq(LiveTasks) /\ Say(f, comma) \o Say(f, rest) = after
          /\ after \in Seq(Characters) /\ Say(f, comma) \in Seq(Characters)
      <3>0. Say(f, rest) \in Seq(Characters)
        BY <1>s, <2>3, TasksSay
      <3>1. CASE heap[n].next = Null
        <4>1. comma = << >> /\ after = << >> /\ Say(f, rest) = << >>
          BY <2>3, <3>1 DEF List
        <4> HIDE DEF comma, after, rest
        <4> QED BY <2>n, <4>1, Empty
      <3>2. CASE heap[n].next # Null
        <4>1. /\ comma = <<Put(1, <<",">>)>> /\ after = <<",">> \o f[heap[n].next][o]
              /\ Say(f, rest) = f[heap[n].next][o]
          BY <2>3, <3>2 DEF List
        <4>2. <<",">> \in Seq(Characters) /\ Len(<<",">>) = 1
          BY Punctuation, OneCharacter
        <4> HIDE DEF comma, after, rest
        <4>3. comma \in Seq(LiveTasks) /\ Say(f, comma) = <<",">>
          BY ONLY <2>p, <4>1, <4>2
        <4>4. <<",">> \in Seq(Characters)
          BY Marks
        <4>5. \A a, b \in Seq(Characters) : a \o b \in Seq(Characters)
          OBVIOUS
        <4>6. Say(f, comma) \o Say(f, rest) = after
          BY ONLY <4>1, <4>3
        <4>7. Say(f, comma) \in Seq(Characters)
          BY ONLY <4>3, <4>4
        <4> QED BY ONLY <3>0, <4>3, <4>5, <4>6, <4>7
      <3> QED BY <3>1, <3>2
    <2>4. value \in Seq(LiveTasks) /\ Say(f, value) = valueText /\ valueText \in Seq(Characters)
      <3>1. value \in Seq(LiveTasks) /\ Say(f, value) = valueText
        BY <1>s, <2>0, ValueTypes, ValueSays
      <3> HIDE DEF value, valueText
      <3> QED BY <1>s, <3>1, TasksSay
    <2>5. RestTasks(n, o) = ((label \o value) \o comma) \o rest
      BY <1>2 DEF RestTasks
    <2>6. f[n][o] = (labelText \o valueText) \o after
      BY <2>0 DEF Describes, Entry
    <2> HIDE DEF label, comma, rest, labelText, value, valueText, after
    <2>7. label \o value \in Seq(LiveTasks) /\ Say(f, label \o value) = labelText \o valueText
      BY ONLY <2>1, <2>4, <2>t
    <2>8. /\ (label \o value) \o comma \in Seq(LiveTasks)
          /\ Say(f, (label \o value) \o comma) = (labelText \o valueText) \o Say(f, comma)
      BY ONLY <2>2, <2>7, <2>t
    <2>9. Say(f, RestTasks(n, o)) = ((labelText \o valueText) \o Say(f, comma)) \o Say(f, rest)
      BY ONLY <2>3, <2>5, <2>8, <2>t
    <2>10. /\ labelText \o valueText \in Seq(Characters) /\ Say(f, comma) \in Seq(Characters)
           /\ Say(f, rest) \in Seq(Characters)
      BY <1>s, <2>1, <2>2, <2>3, <2>4, TasksSay
    <2>11. \A a, b, c \in Seq(Characters) : (a \o b) \o c = a \o (b \o c)
      BY ONLY Associative
    <2>12. Say(f, RestTasks(n, o)) = f[n][o]
      BY ONLY <2>2, <2>6, <2>9, <2>10, <2>11
    <2> QED BY <1>2, <2>12 DEF List
  <1> QED BY <1>1, <1>2

(***************************************************************************)
(* Changing the tree, and what it says.                                    *)
(***************************************************************************)
LEMMA EntrySame ==
  ASSUME NEW items, NEW t, NEW f, NEW items2, NEW t2, NEW g, NEW n,
         items2[n].type = items[n].type, items2[n].value = items[n].value,
         TextOf(t2, items2[n].string) = TextOf(t, items[n].string),
         TextOf(t2, items2[n].valuestring) = TextOf(t, items[n].valuestring),
         List(g, items2[n].child, items2[n].type = "object")
            = List(f, items[n].child, items[n].type = "object")
  PROVE  /\ Value(items2, t2, g, n) = Value(items, t, f, n)
         /\ \A o : Entry(items2, t2, g, n, o) = Entry(items, t, f, n, o)
  <1>1. Value(items2, t2, g, n) = Value(items, t, f, n)
    BY DEF Value
  <1> QED BY <1>1 DEF Entry

\* New texts, and a root that is new or says something else.
LEMMA Replaced ==
  ASSUME NEW items, NEW t, ItemsFit(items, t), NEW f, Describes(items, t, f),
         NEW items2, NEW t2, ItemsFit(items2, t2), \A p \in DOMAIN t : t2[p] = t[p],
         NEW n, DOMAIN items2 = DOMAIN items \cup {n},
         \A m \in DOMAIN items \ {n} : items2[m] = items[m],
         ~IsLinked(items, n), items2[n].next = Null,
         items2[n].child \in (DOMAIN items \ {n}) \cup {Null}
  PROVE  \E g : /\ Describes(items2, t2, g)
                /\ \A m \in DOMAIN items \ {n} : g[m] = f[m]
                /\ \A o \in BOOLEAN : g[n][o] = Entry(items2, t2, f, n, o)
  <1> DEFINE D == DOMAIN items
             g == [m \in D \cup {n} |-> IF m = n THEN [o \in BOOLEAN |-> Entry(items2, t2, f, n, o)]
                                        ELSE f[m]]
  <1>1. /\ Null \notin D /\ Null \notin D \cup {n}
        /\ \A m \in D : /\ items[m].next \in D \cup {Null} /\ items[m].child \in D \cup {Null}
                        /\ items[m].next # n /\ items[m].child # n
                        /\ items[m].type \in Kinds \cup {"text", "scalar"}
                        /\ items[m].string \in DOMAIN t \cup {Null}
                        /\ items[m].valuestring \in DOMAIN t \cup {Null}
        /\ items2[n].type \in Kinds \cup {"text", "scalar"}
    BY DEF ItemsFit, ListsOK, Closed, IsLinked, ItemsOn, Item
  <1>2. /\ f \in [D -> [BOOLEAN -> Seq(Characters)]]
        /\ \A m \in D, o \in BOOLEAN :
              f[m][o] = Entry(items, t, f, m, o)
                        \o (IF items[m].next = Null THEN << >> ELSE <<",">> \o f[items[m].next][o])
    BY DEF Describes
  <1>3. /\ \A m \in D \ {n} : g[m] = f[m]
        /\ \A o \in BOOLEAN : g[n][o] = Entry(items2, t2, f, n, o)
        /\ DOMAIN g = D \cup {n}
    OBVIOUS
  <1>l. ASSUME NEW m \in (D \ {n}) \cup {Null}, NEW o \in BOOLEAN
        PROVE List(g, m, o) = List(f, m, o)
    BY <1>1, <1>3, <1>l DEF List
  <1>4. \A o \in BOOLEAN : Entry(items2, t2, f, n, o) \in Seq(Characters)
    <2>1. items2[n].child \in D \cup {Null} /\ (items2[n].type = "object") \in BOOLEAN
      OBVIOUS
    <2>2. List(f, items2[n].child, items2[n].type = "object") \in Seq(Characters)
      <3>1. CASE items2[n].child = Null
        BY <3>1, Marks DEF List
      <3>2. CASE items2[n].child # Null
        <4>1. f[items2[n].child] \in [BOOLEAN -> Seq(Characters)]
          BY <1>2, <2>1, <3>2
        <4> QED BY <2>1, <3>2, <4>1 DEF List
      <3> QED BY <3>1, <3>2
    <2>3. n \in DOMAIN items2
      OBVIOUS
    <2> QED BY <2>2, <2>3, SaysTypes
  <1>5. g \in [DOMAIN items2 -> [BOOLEAN -> Seq(Characters)]]
    <2>1. [o \in BOOLEAN |-> Entry(items2, t2, f, n, o)] \in [BOOLEAN -> Seq(Characters)]
      BY <1>4
    <2>2. \A m \in D : f[m] \in [BOOLEAN -> Seq(Characters)]
      BY <1>2
    <2> QED BY <2>1, <2>2
  <1>6. ASSUME NEW o \in BOOLEAN PROVE Entry(items2, t2, g, n, o) = Entry(items2, t2, f, n, o)
    <2>1. List(g, items2[n].child, items2[n].type = "object")
            = List(f, items2[n].child, items2[n].type = "object")
      BY <1>l
    <2> HIDE DEF g
    <2> QED BY <2>1, EntrySame
  <1>7. ASSUME NEW m \in D \ {n}
        PROVE  \A o \in BOOLEAN : Entry(items2, t2, g, m, o) = Entry(items, t, f, m, o)
    <2>1. items2[m] = items[m]
      OBVIOUS
    <2>2. List(g, items[m].child, items[m].type = "object")
            = List(f, items[m].child, items[m].type = "object")
      <3>1. items[m].child \in (D \ {n}) \cup {Null} /\ (items[m].type = "object") \in BOOLEAN
        BY <1>1
      <3> HIDE DEF g, D
      <3> QED BY <1>l, <3>1
    <2>3. ASSUME NEW p \in DOMAIN t \cup {Null} PROVE TextOf(t2, p) = TextOf(t, p)
      BY <2>3 DEF TextOf
    <2>4. /\ TextOf(t2, items[m].string) = TextOf(t, items[m].string)
          /\ TextOf(t2, items[m].valuestring) = TextOf(t, items[m].valuestring)
      BY <1>1, <2>3
    <2> HIDE DEF g
    <2> QED BY <2>1, <2>2, <2>4, EntrySame
  <1> HIDE DEF g
  <1>8. ASSUME NEW m \in DOMAIN items2, NEW o \in BOOLEAN
        PROVE  g[m][o] = Entry(items2, t2, g, m, o)
                  \o (IF items2[m].next = Null THEN << >> ELSE <<",">> \o g[items2[m].next][o])
    <2>1. CASE m = n
      <3>1. g[m][o] = Entry(items2, t2, g, m, o) /\ g[m][o] \in Seq(Characters)
            /\ items2[m].next = Null
        BY <1>3, <1>4, <1>6, <2>1
      <3> QED BY <3>1, Empty
    <2>2. CASE m # n
      <3>1. /\ m \in D \ {n} /\ items2[m] = items[m] /\ g[m] = f[m]
            /\ items[m].next # Null => g[items[m].next] = f[items[m].next]
        BY <1>1, <1>3, <2>2
      <3>2. Entry(items2, t2, g, m, o) = Entry(items, t, f, m, o)
        BY <1>7, <3>1
      <3>3. f[m][o] = Entry(items, t, f, m, o)
              \o (IF items[m].next = Null THEN << >> ELSE <<",">> \o f[items[m].next][o])
        BY <1>2, <3>1
      <3>4. CASE items[m].next = Null
        BY ONLY <3>1, <3>2, <3>3, <3>4
      <3>5. CASE items[m].next # Null
        BY ONLY <3>1, <3>2, <3>3, <3>5
      <3> QED BY <3>4, <3>5
    <2> QED BY <2>1, <2>2
  <1> QED BY <1>3, <1>5, <1>8 DEF Describes

\* The hypotheses of Replaced, and what it shows.
ReplacedBy(items, t, f, items2, t2, n) ==
  /\ ItemsFit(items, t) /\ Describes(items, t, f)
  /\ ItemsFit(items2, t2) /\ \A p \in DOMAIN t : t2[p] = t[p]
  /\ DOMAIN items2 = DOMAIN items \cup {n}
  /\ \A m \in DOMAIN items \ {n} : items2[m] = items[m]
  /\ ~IsLinked(items, n) /\ items2[n].next = Null
  /\ items2[n].child \in (DOMAIN items \ {n}) \cup {Null}

ReplacedSays(items, t, f, items2, t2, n) ==
  \E g : /\ Describes(items2, t2, g)
         /\ \A m \in DOMAIN items \ {n} : g[m] = f[m]
         /\ \A o \in BOOLEAN : g[n][o] = Entry(items2, t2, f, n, o)

LEMMA ReplacedWell ==
  ASSUME NEW items, NEW t, NEW f, NEW items2, NEW t2, NEW n,
         ReplacedBy(items, t, f, items2, t2, n)
  PROVE  ReplacedSays(items, t, f, items2, t2, n)
  BY Replaced DEF ReplacedBy, ReplacedSays

(***************************************************************************)
(* The children of an item.                                                *)
(***************************************************************************)
LEMMA FollowingNext ==
  ASSUME NEW items, ListsOK(items), NEW m \in DOMAIN items
  PROVE  /\ items[m].next = Null => Following(items, m) = {m}
         /\ items[m].next # Null =>
               Following(items, m) \subseteq {m} \cup Following(items, items[m].next)
  <1> DEFINE D == DOMAIN items
  <1>1. D \in SUBSET (Nat \ {Null}) /\ items \in ItemsOn(D) /\ NextStays(items, D)
    BY DEF ListsOK, Closed, NextStays
  <1>2. m \in Following(items, m)
    BY DEF Following
  <1>3. ASSUME items[m].next = Null PROVE Following(items, m) = {m}
    <2>1. {m} \in SUBSET DOMAIN items /\ NextStays(items, {m})
      BY <1>3 DEF NextStays
    <2> QED BY <1>2, <2>1 DEF Following
  <1>4. ASSUME NEW n, n = items[m].next, n # Null
        PROVE  Following(items, m) \subseteq {m} \cup Following(items, n)
    <2>1. n \in D
      BY <1>1, <1>4 DEF NextStays
    <2>2. /\ Following(items, n) \subseteq D /\ n \in Following(items, n)
          /\ NextStays(items, Following(items, n))
      BY <1>1, <2>1, FollowingStays
    <2>3. NextStays(items, {m} \cup Following(items, n))
      BY <1>4, <2>2 DEF NextStays
    <2>4. {m} \cup Following(items, n) \in SUBSET DOMAIN items
      BY <2>2
    <2> QED BY <2>3, <2>4 DEF Following
  <1> QED BY <1>3, <1>4

\* They are linked from one another and from the item, and from nowhere else,
\* and there is one last of them, to which cJSON_AddItemToArray links.
Children(items, c, F) ==
  /\ F \in SUBSET DOMAIN items /\ items[c].child \in F
  /\ \A m \in F : items[m].next \in F \cup {Null} /\ IsLinked(items, m)
  /\ \A m \in DOMAIN items : /\ items[m].next \in F => m \in F
                             /\ items[m].child \in F => m = c

LEMMA ChildrenOf ==
  ASSUME NEW items, ListsOK(items), NEW c \in DOMAIN items, items[c].child # Null, NEW n
  PROVE  \E F : /\ Children(items, c, F)
                /\ \E x \in F :
                      /\ Linked(items, c, n) = NextSet(items, x, n)
                      /\ \A m \in F : items[m].next = Null <=> m = x
  <1> DEFINE D == DOMAIN items
             h == items[c].child
             F == Following(items, h)
  <1>1. /\ D \in SUBSET (Nat \ {Null}) /\ items \in ItemsOn(D) /\ NextStays(items, D)
        /\ Ended(items) /\ Sole(items) /\ h \in D /\ D = DOMAIN items
    BY DEF ListsOK, Closed, NextStays
  <1>h. h = items[c].child /\ h # Null
    OBVIOUS
  <1> HIDE DEF h
  <1>2. F \subseteq D /\ h \in F /\ NextStays(items, F)
    BY <1>1, FollowingStays
  <1>3. \A S \in SUBSET D : h \in S /\ NextStays(items, S) => F \subseteq S
    BY DEF Following
  <1> HIDE DEF F, D
  <1>4. ASSUME NEW k \in F PROVE k = h \/ \E m \in F : items[m].next = k
    <2> DEFINE S == {h} \cup {l \in F : \E m \in F : items[m].next = l}
    <2>1. S \in SUBSET D /\ h \in S
      BY <1>2
    <2>2. NextStays(items, S)
      BY <1>2 DEF NextStays
    <2>3. F \subseteq S
      BY <1>3, <2>1, <2>2
    <2> QED BY <2>3
  <1>5. Children(items, c, F)
    <2>1. ASSUME NEW m \in F PROVE items[m].next \in F \cup {Null} /\ IsLinked(items, m)
      BY <1>1, <1>2, <1>4, <1>h DEF NextStays, IsLinked
    <2>2. ASSUME NEW m \in D, items[m].next \in F PROVE m \in F
      <3>1. items[m].next # Null
        BY <1>1, <1>2, <2>2
      <3>2. items[m].next # h
        BY <1>1, <1>h, <3>1 DEF Sole
      <3>3. PICK k \in F : items[k].next = items[m].next
        BY <1>4, <2>2, <3>2
      <3> QED BY <1>1, <1>2, <3>1, <3>3 DEF Sole
    <2>3. ASSUME NEW m \in D, items[m].child \in F PROVE m = c
      <3>1. items[m].child # Null
        BY <1>1, <1>2, <2>3
      <3>2. CASE items[m].child = h
        BY <1>1, <1>h, <3>1, <3>2 DEF Sole
      <3>3. CASE items[m].child # h
        <4>1. PICK k \in F : items[k].next = items[m].child
          BY <1>4, <2>3, <3>3
        <4> QED BY <1>1, <1>2, <3>1, <4>1 DEF Sole
      <3> QED BY <3>2, <3>3
    <2> QED BY <1>1, <1>2, <1>h, <2>1, <2>2, <2>3 DEF Children
  <1>6. PICK x \in D :
            /\ Linked(items, c, n) = NextSet(items, x, n)
            /\ items[x].next = Null
            /\ \A S \in SUBSET D : h \in S /\ NextStays(items, S) => x \in S
    <2>1. /\ D \in SUBSET (Nat \ {Null}) /\ items \in ItemsOn(D) /\ NextStays(items, D)
          /\ Ended(items) /\ c \in D /\ items[c].child # Null /\ items[c].child \in D
      BY <1>1, <1>h
    <2>2. \E x \in D :
            /\ Linked(items, c, n) = NextSet(items, x, n)
            /\ items[x].next = Null
            /\ \A S \in SUBSET D :
                  items[c].child \in S /\ NextStays(items, S) => x \in S
      BY ONLY <2>1, LinkedAt
    <2> QED BY ONLY <1>h, <2>2
  <1>7. x \in F
    BY <1>2, <1>6
  <1>8. ASSUME NEW m \in F, items[m].next = Null PROVE m = x
    <2> DEFINE S == {k \in F : x \in Following(items, k)}
    <2>1. S \in SUBSET D
      BY <1>2
    <2>2. h \in S
      <3>1. x \in Following(items, h)
        BY <1>7 DEF F
      <3> QED BY <1>2, <3>1
    <2>3. NextStays(items, S)
      <3>1. ASSUME NEW k \in S, items[k].next # Null PROVE items[k].next \in S
        <4>1. k \in F /\ k \in DOMAIN items /\ x \in Following(items, k)
          BY <1>1, <1>2
        <4>2. x \in {k} \cup Following(items, items[k].next)
          BY <3>1, <4>1, FollowingNext
        <4>3. x # k
          BY <1>6, <3>1
        <4>4. items[k].next \in F
          BY <1>2, <3>1, <4>1 DEF NextStays
        <4> QED BY <4>2, <4>3, <4>4
      <3> QED BY <3>1 DEF NextStays
    <2>4. m \in S
      BY <1>3, <2>1, <2>2, <2>3
    <2>5. x \in Following(items, m) /\ m \in DOMAIN items
      BY <1>1, <1>2, <2>4
    <2> QED BY <1>8, <2>5, FollowingNext
  <1>9. \A m \in F : items[m].next = Null <=> m = x
    BY <1>6, <1>8
  <1> QED BY ONLY <1>5, <1>6, <1>7, <1>9

\* The item that follows, with the comma before it.
After(items, f, n, o) ==
  IF items[n].next = Null THEN << >> ELSE <<",">> \o f[items[n].next][o]

LEMMA Described ==
  ASSUME NEW items, NEW t, NEW f
  PROVE  Describes(items, t, f) <=>
           /\ f \in [DOMAIN items -> [BOOLEAN -> Seq(Characters)]]
           /\ \A n \in DOMAIN items, o \in BOOLEAN :
                 f[n][o] = Entry(items, t, f, n, o) \o After(items, f, n, o)
  BY DEF Describes, After

LEMMA EntryTypes ==
  ASSUME NEW items, NEW t, ItemsFit(items, t), NEW f, Describes(items, t, f)
  PROVE  \A n \in DOMAIN items, o \in BOOLEAN :
            /\ Entry(items, t, f, n, o) \in Seq(Characters)
            /\ After(items, f, n, o) \in Seq(Characters)
            /\ f[n][o] \in Seq(Characters)
            /\ List(f, items[n].child, o) \in Seq(Characters)
  <1> SUFFICES ASSUME NEW n \in DOMAIN items, NEW o \in BOOLEAN
               PROVE  /\ Entry(items, t, f, n, o) \in Seq(Characters)
                      /\ After(items, f, n, o) \in Seq(Characters)
                      /\ f[n][o] \in Seq(Characters)
                      /\ List(f, items[n].child, o) \in Seq(Characters)
    OBVIOUS
  <1>1. f \in [DOMAIN items -> [BOOLEAN -> Seq(Characters)]]
    BY DEF Describes
  <1>2. /\ items[n].child \in DOMAIN items \cup {Null} /\ items[n].next \in DOMAIN items \cup {Null}
        /\ (items[n].type = "object") \in BOOLEAN
    BY DEF ItemsFit, ListsOK, Closed
  <1>3. ASSUME NEW p \in BOOLEAN PROVE List(f, items[n].child, p) \in Seq(Characters)
    <2>1. CASE items[n].child = Null
      BY <2>1, Marks DEF List
    <2>2. CASE items[n].child # Null
      <3>1. f[items[n].child] \in [BOOLEAN -> Seq(Characters)]
        BY <1>1, <1>2, <2>2
      <3> QED BY <2>2, <3>1 DEF List
    <2> QED BY <2>1, <2>2
  <1>4. \A p \in BOOLEAN : Entry(items, t, f, n, p) \in Seq(Characters)
    BY <1>2, <1>3, SaysTypes
  <1>5. After(items, f, n, o) \in Seq(Characters)
    <2>1. CASE items[n].next = Null
      BY <2>1, Marks DEF After
    <2>2. CASE items[n].next # Null
      <3>1. f[items[n].next][o] \in Seq(Characters)
        BY <1>1, <1>2, <2>2
      <3>2. <<",">> \in Seq(Characters)
        BY Marks
      <3>3. \A a, b \in Seq(Characters) : a \o b \in Seq(Characters)
        OBVIOUS
      <3>4. After(items, f, n, o) = <<",">> \o f[items[n].next][o]
        BY <2>2 DEF After
      <3> QED BY ONLY <3>1, <3>2, <3>3, <3>4
    <2> QED BY <2>1, <2>2
  <1> QED BY <1>1, <1>3, <1>4, <1>5

\* cJSON_AddItemToArray adds what n says to what the list of c says, with a
\* comma between unless the list was empty.
Added(items, f, c, n, o) ==
  IF items[c].child = Null THEN f[n][o]
  ELSE f[items[c].child][o] \o (<<",">> \o f[n][o])

\* To a list with the children F, the last of them x.
LEMMA FollowedBy ==
  ASSUME NEW items, NEW t, ItemsFit(items, t), NEW f, Describes(items, t, f),
         NEW c \in DOMAIN items, NEW n \in DOMAIN items, n # c,
         items[n].next = Null, items[c].next = Null,
         ~IsLinked(items, n), ~IsLinked(items, c), items[c].child # Null,
         NEW F, Children(items, c, F), NEW x \in F,
         \A m \in F : items[m].next = Null <=> m = x
  PROVE  \E g : /\ Describes(NextSet(items, x, n), t, g)
                /\ \A o \in BOOLEAN : g[items[c].child][o] = Added(items, f, c, n, o)
                /\ \A m \in DOMAIN items \ F : m # c => g[m] = f[m]
  <1> DEFINE D == DOMAIN items
             new == NextSet(items, x, n)
             tail(o) == <<",">> \o f[n][o]
             longer == [m \in D |-> IF m \in F THEN [o \in BOOLEAN |-> f[m][o] \o tail(o)]
                                    ELSE f[m]]
             g == [m \in D |-> IF m = c THEN [o \in BOOLEAN |-> Entry(new, t, longer, c, o)]
                               ELSE longer[m]]
  <1>1. /\ Null \notin D /\ items[c].child \in F /\ x \in D /\ x # c /\ x # n /\ c \notin F /\ n \notin F
        /\ F \subseteq D
        /\ \A m \in D : /\ items[m].next \in D \cup {Null} /\ items[m].child \in D \cup {Null}
                        /\ items[m].next # n /\ items[m].child # n
                        /\ items[m].next # c /\ items[m].child # c
                        /\ items[m].next \in F => m \in F
                        /\ items[m].child \in F => m = c
        /\ \A m \in F : items[m].next \in F \cup {Null}
    BY DEF ItemsFit, ListsOK, Closed, IsLinked, Children
  <1>2. /\ f \in [D -> [BOOLEAN -> Seq(Characters)]]
        /\ \A m \in D, o \in BOOLEAN : f[m][o] = Entry(items, t, f, m, o) \o After(items, f, m, o)
        /\ \A m \in D, o \in BOOLEAN : /\ Entry(items, t, f, m, o) \in Seq(Characters)
                                       /\ After(items, f, m, o) \in Seq(Characters)
                                       /\ f[m][o] \in Seq(Characters)
    BY Described, EntryTypes
  <1>3. /\ DOMAIN new = D
        /\ \A m \in D : /\ new[m].type = items[m].type /\ new[m].value = items[m].value
                        /\ new[m].string = items[m].string
                        /\ new[m].valuestring = items[m].valuestring
                        /\ new[m].child = items[m].child
                        /\ m # x => new[m].next = items[m].next
        /\ new[x].next = n
    <2>1. items \in [D -> Item]
      BY DEF ItemsFit, ListsOK, ItemsOn
    <2> QED BY <1>1, <2>1 DEF NextSet, Item
  <1> HIDE DEF new, D
  <1>4. \A o \in BOOLEAN : tail(o) \in Seq(Characters) /\ f[n][o] \in Seq(Characters)
    <2>1. <<",">> \in Seq(Characters)
      BY Marks
    <2>2. \A a, b \in Seq(Characters) : a \o b \in Seq(Characters)
      OBVIOUS
    <2>3. \A o \in BOOLEAN : f[n][o] \in Seq(Characters)
      BY <1>2 DEF D
    <2> QED BY ONLY <2>1, <2>2, <2>3
  <1> HIDE DEF tail
  <1>5. /\ longer \in [D -> [BOOLEAN -> Seq(Characters)]]
        /\ \A m \in D \ F : longer[m] = f[m]
        /\ \A m \in F, o \in BOOLEAN : longer[m][o] = f[m][o] \o tail(o)
    <2>1. \A a, b \in Seq(Characters) : a \o b \in Seq(Characters)
      OBVIOUS
    <2>2. ASSUME NEW m \in F
          PROVE  [o \in BOOLEAN |-> f[m][o] \o tail(o)] \in [BOOLEAN -> Seq(Characters)]
      <3>1. \A o \in BOOLEAN : f[m][o] \o tail(o) \in Seq(Characters)
        BY <1>1, <1>2, <1>4, <2>1
      <3> QED BY <3>1
    <2>3. \A m \in D : f[m] \in [BOOLEAN -> Seq(Characters)]
      BY <1>2
    <2>4. /\ \A m \in D \ F : longer[m] = f[m]
          /\ \A m \in F : longer[m] = [o \in BOOLEAN |-> f[m][o] \o tail(o)]
          /\ longer = [m \in D |-> longer[m]]
      BY <1>1
    <2> HIDE DEF longer
    <2>5. \A m \in D : longer[m] \in [BOOLEAN -> Seq(Characters)]
      BY <2>2, <2>3, <2>4
    <2> QED BY <2>4, <2>5
  <1> HIDE DEF longer
  <1>e. ASSUME NEW m \in D, NEW h, NEW h2,
               List(h, items[m].child, items[m].type = "object")
                  = List(h2, items[m].child, items[m].type = "object")
        PROVE  \A o : Entry(new, t, h, m, o) = Entry(items, t, h2, m, o)
    BY <1>3, <1>e, EntrySame
  <1>c. c \in D
    BY DEF D
  <1>6. \A o \in BOOLEAN : Entry(new, t, longer, c, o) \in Seq(Characters)
    <2>1. \A o : Entry(new, t, longer, c, o) = Entry(items, t, longer, c, o)
      BY <1>c, <1>e
    <2>2. List(longer, items[c].child, items[c].type = "object") \in Seq(Characters)
      <3>1. items[c].child \in D /\ (items[c].type = "object") \in BOOLEAN
        BY <1>1
      <3>2. longer[items[c].child] \in [BOOLEAN -> Seq(Characters)]
        BY <1>5, <3>1
      <3> QED BY <3>1, <3>2 DEF List
    <2>3. \A o \in BOOLEAN : Entry(items, t, longer, c, o) \in Seq(Characters)
      BY <2>2, SaysTypes
    <2> QED BY <2>1, <2>3
  <1>7. /\ g \in [D -> [BOOLEAN -> Seq(Characters)]]
        /\ \A m \in D \ F : m # c => g[m] = f[m]
        /\ \A m \in F, o \in BOOLEAN : g[m][o] = f[m][o] \o tail(o)
        /\ \A m \in F : g[m] = longer[m]
        /\ \A o \in BOOLEAN : g[c][o] = Entry(new, t, longer, c, o)
    <2>1. [o \in BOOLEAN |-> Entry(new, t, longer, c, o)] \in [BOOLEAN -> Seq(Characters)]
      BY <1>6
    <2>2. /\ \A m \in D : m # c => g[m] = longer[m]
          /\ g[c] = [o \in BOOLEAN |-> Entry(new, t, longer, c, o)]
          /\ g = [m \in D |-> g[m]]
      BY DEF D
    <2> HIDE DEF g
    <2>3. \A m \in D : g[m] \in [BOOLEAN -> Seq(Characters)]
      BY <1>5, <2>1, <2>2
    <2>4. g \in [D -> [BOOLEAN -> Seq(Characters)]]
      BY ONLY <2>2, <2>3
    <2>5. \A m \in F : m \in D /\ m # c
      BY <1>1
    <2>6. \A m \in F : g[m] = longer[m]
      BY ONLY <2>2, <2>5
    <2>7. \A m \in F, o \in BOOLEAN : g[m][o] = f[m][o] \o tail(o)
      BY ONLY <1>5, <2>6
    <2>8. \A m \in D \ F : m # c => g[m] = f[m]
      BY ONLY <1>5, <2>2
    <2>9. \A o \in BOOLEAN : g[c][o] = Entry(new, t, longer, c, o)
      BY ONLY <2>2
    <2> QED BY ONLY <2>4, <2>6, <2>7, <2>8, <2>9
  <1> HIDE DEF g
  <1>8. ASSUME NEW m \in D, NEW o \in BOOLEAN
        PROVE  g[m][o] = Entry(new, t, g, m, o) \o After(new, g, m, o)
    <2>1. CASE m = c
      <3>1. List(g, items[c].child, items[c].type = "object")
              = List(longer, items[c].child, items[c].type = "object")
        BY <1>1, <1>7 DEF List
      <3>2. Entry(new, t, g, c, o) = Entry(new, t, longer, c, o)
        <4>1. Entry(new, t, g, c, o) = Entry(items, t, longer, c, o)
          BY <1>c, <1>e, <3>1
        <4>2. Entry(new, t, longer, c, o) = Entry(items, t, longer, c, o)
          BY <1>c, <1>e
        <4> QED BY <4>1, <4>2
      <3>3. After(new, g, c, o) = << >>
        BY <1>1, <1>3 DEF After, D
      <3>4. Entry(new, t, longer, c, o) \in Seq(Characters)
        BY <1>6
      <3> QED BY <1>7, <2>1, <3>2, <3>3, <3>4, Empty
    <2>2. CASE m # c
      <3>1. items[m].child \in D \cup {Null} /\ items[m].child \notin F /\ items[m].child # c
        BY <1>1, <2>2
      <3>2. List(g, items[m].child, items[m].type = "object")
              = List(f, items[m].child, items[m].type = "object")
        BY <1>7, <3>1 DEF List
      <3>3. Entry(new, t, g, m, o) = Entry(items, t, f, m, o)
        BY <1>e, <3>2
      <3> DEFINE e == Entry(items, t, f, m, o)
      <3>4. e \in Seq(Characters) /\ f[m][o] = e \o After(items, f, m, o)
        BY <1>2
      <3> HIDE DEF e
      <3>5. CASE m = x
        <4>1. f[m][o] = e
          <5>1. After(items, f, m, o) = << >>
            BY <3>5 DEF After
          <5> QED BY <3>4, <5>1, Empty
        <4>2. After(new, g, m, o) = tail(o)
          <5>1. g[n] = f[n] /\ new[m].next = n /\ n # Null
            BY <1>1, <1>3, <1>7, <3>5 DEF D
          <5> QED BY <5>1 DEF After, tail
        <4>3. g[m][o] = f[m][o] \o tail(o)
          BY <1>7, <3>5
        <4> QED BY <3>3, <4>1, <4>2, <4>3 DEF e
      <3>6. CASE m \in F /\ m # x
        <4> DEFINE k == items[m].next
                   comma == <<",">>
        <4>1. k \in F /\ k # Null /\ new[m].next = k
          BY <1>1, <1>3, <3>6
        <4>2. After(items, f, m, o) = comma \o f[k][o] /\ After(new, g, m, o) = comma \o g[k][o]
          BY <4>1 DEF After
        <4>3. comma \in Seq(Characters) /\ f[k][o] \in Seq(Characters)
              /\ tail(o) \in Seq(Characters)
          BY <1>1, <1>2, <1>4, <4>1, Marks
        <4>4. g[m][o] = f[m][o] \o tail(o) /\ g[k][o] = f[k][o] \o tail(o)
          BY <1>7, <3>6, <4>1
        <4> HIDE DEF k, comma
        <4>5. \A a, b, d \in Seq(Characters) : /\ (a \o b) \o d = a \o (b \o d)
                                                /\ a \o b \in Seq(Characters)
          BY ONLY Associative
        <4>6. (e \o (comma \o f[k][o])) \o tail(o) = e \o ((comma \o f[k][o]) \o tail(o))
              /\ (comma \o f[k][o]) \o tail(o) = comma \o (f[k][o] \o tail(o))
          <5>1. comma \o f[k][o] \in Seq(Characters)
            BY ONLY <4>3, <4>5
          <5>2. (comma \o f[k][o]) \o tail(o) = comma \o (f[k][o] \o tail(o))
            BY ONLY <4>3, <4>5
          <5> DEFINE y == comma \o f[k][o]
          <5>3. y \in Seq(Characters)
            BY <5>1
          <5> HIDE DEF y
          <5>4. (e \o y) \o tail(o) = e \o (y \o tail(o))
            BY ONLY SMTT(30), <3>4, <4>3, <4>5, <5>3
          <5> QED BY <5>2, <5>4 DEF y
        <4>7. g[m][o] = e \o After(new, g, m, o)
          BY ONLY <3>4, <4>2, <4>4, <4>6
        <4> QED BY <3>3, <4>7 DEF e
      <3>7. CASE m \notin F
        <4>1. /\ g[m] = f[m] /\ new[m].next = items[m].next
              /\ items[m].next # Null => g[items[m].next] = f[items[m].next]
          BY <1>1, <1>3, <1>7, <2>2, <3>7
        <4>2. After(new, g, m, o) = After(items, f, m, o)
          BY <4>1 DEF After
        <4> QED BY <3>3, <3>4, <4>1, <4>2 DEF e
      <3> QED BY <3>5, <3>6, <3>7
    <2> QED BY <2>1, <2>2
  <1>9. Describes(new, t, g)
    BY <1>3, <1>7, <1>8, Described
  <1>10. \A o \in BOOLEAN : g[items[c].child][o] = Added(items, f, c, n, o)
    <2> SUFFICES ASSUME NEW o \in BOOLEAN
                 PROVE  g[items[c].child][o] = Added(items, f, c, n, o)
      OBVIOUS
    <2>1. g[items[c].child][o] = f[items[c].child][o] \o tail(o)
      BY <1>1, <1>7
    <2> QED BY <2>1 DEF Added, tail
  <1> QED BY <1>7, <1>9, <1>10 DEF new, D

LEMMA LinkedKinds ==
  ASSUME NEW items, ListsOK(items), NEW c \in DOMAIN items, NEW n \in DOMAIN items
  PROVE  \A m \in DOMAIN items : Linked(items, c, n)[m].type = items[m].type
  <1>1. items \in [DOMAIN items -> Item]
    BY DEF ListsOK, ItemsOn
  <1>2. CASE items[c].child = Null
    BY <1>1, <1>2 DEF Linked, Item
  <1>3. CASE items[c].child # Null
    <2>1. PICK F : \E x \in F : /\ Children(items, c, F) /\ Linked(items, c, n) = NextSet(items, x, n)
      BY <1>3, ChildrenOf
    <2>2. PICK x \in F : Children(items, c, F) /\ Linked(items, c, n) = NextSet(items, x, n)
      BY <2>1
    <2>3. x \in DOMAIN items
      BY <2>2 DEF Children
    <2> QED BY <1>1, <2>2, <2>3 DEF NextSet, Item
  <1> QED BY <1>2, <1>3

\* The other roots say what they said.
OthersSay(items, f, new, g, c) ==
  \A r \in DOMAIN items : ~IsLinked(items, r) /\ r # c =>
     /\ new[r].child = items[r].child
     /\ \A o \in BOOLEAN : List(g, items[r].child, o) = List(f, items[r].child, o)

Roots(items, c, n) ==
  /\ c \in DOMAIN items /\ n \in DOMAIN items /\ n # c
  /\ items[n].next = Null /\ items[c].next = Null
  /\ ~IsLinked(items, n) /\ ~IsLinked(items, c)

LEMMA FitsLinked ==
  ASSUME NEW items, NEW t, ItemsFit(items, t), NEW c, NEW n, Roots(items, c, n)
  PROVE  /\ ItemsFit(Linked(items, c, n), t)
         /\ DOMAIN Linked(items, c, n) = DOMAIN items
  <1>1. /\ ListsOK(items) /\ c \in DOMAIN items /\ n \in DOMAIN items
        /\ items[n].next = Null /\ ~IsLinked(items, n) /\ n # c
    BY DEF ItemsFit, Roots
  <1>2. /\ ListsOK(Linked(items, c, n)) /\ DOMAIN Linked(items, c, n) = DOMAIN items
        /\ \A m \in DOMAIN items :
              /\ Linked(items, c, n)[m].string = items[m].string
              /\ Linked(items, c, n)[m].valuestring = items[m].valuestring
    BY ONLY <1>1, Appended
  <1> QED BY <1>2 DEF ItemsFit

LEMMA Extended ==
  ASSUME NEW items, NEW t, ItemsFit(items, t), NEW f, Describes(items, t, f),
         NEW c, NEW n, Roots(items, c, n)
  PROVE  \E g : /\ Describes(Linked(items, c, n), t, g)
                /\ Linked(items, c, n)[c].child # Null
                /\ \A o \in BOOLEAN :
                      List(g, Linked(items, c, n)[c].child, o) = Added(items, f, c, n, o)
                /\ OthersSay(items, f, Linked(items, c, n), g, c)
  <1> DEFINE D == DOMAIN items
             new == Linked(items, c, n)
  <1>1. /\ c \in D /\ n \in D /\ n # c /\ items[n].next = Null /\ items[c].next = Null
        /\ ~IsLinked(items, n) /\ ~IsLinked(items, c) /\ ListsOK(items)
        /\ items \in [D -> Item] /\ Null \notin D
        /\ \A m \in D : items[m].child \in D \cup {Null} /\ items[m].child # c
    BY DEF Roots, ItemsFit, ListsOK, ItemsOn, Closed, IsLinked
  <1>f. ItemsFit(new, t) /\ DOMAIN new = D
    BY FitsLinked
  <1>2. CASE items[c].child = Null
    <2>1. new = [items EXCEPT ![c].child = n]
      BY <1>2 DEF Linked
    <2>2. /\ \A m \in D \ {c} : new[m] = items[m]
          /\ new[c].child = n /\ new[c].next = Null
      BY <1>1, <2>1 DEF Item
    <2> HIDE DEF new
    <2>3. /\ \A p \in DOMAIN t : t[p] = t[p]
          /\ DOMAIN new = DOMAIN items \cup {c}
          /\ \A m \in DOMAIN items \ {c} : new[m] = items[m]
          /\ new[c].child \in (DOMAIN items \ {c}) \cup {Null}
      BY <1>1, <1>f, <2>2
    <2>4. PICK g : /\ Describes(new, t, g)
                   /\ \A m \in D \ {c} : g[m] = f[m]
      BY <1>1, <1>f, <2>2, <2>3, Replaced
    <2>5. new[c].child # Null
      BY <1>1, <2>2
    <2>6. \A o \in BOOLEAN : List(g, new[c].child, o) = Added(items, f, c, n, o)
      BY <1>1, <1>2, <2>2, <2>4 DEF List, Added
    <2>7. OthersSay(items, f, new, g, c)
      BY <1>1, <2>2, <2>4 DEF List, OthersSay
    <2> QED BY <2>4, <2>5, <2>6, <2>7 DEF new
  <1>3. CASE items[c].child # Null
    <2>1. PICK F : /\ Children(items, c, F)
                   /\ \E x \in F : /\ new = NextSet(items, x, n)
                                   /\ \A m \in F : items[m].next = Null <=> m = x
      BY <1>1, <1>3, ChildrenOf
    <2>2. PICK x \in F : /\ new = NextSet(items, x, n)
                         /\ \A m \in F : items[m].next = Null <=> m = x
      BY <2>1
    <2> HIDE DEF new
    <2>3. PICK g : /\ Describes(NextSet(items, x, n), t, g)
                   /\ \A o \in BOOLEAN : g[items[c].child][o] = Added(items, f, c, n, o)
                   /\ \A m \in DOMAIN items \ F : m # c => g[m] = f[m]
      BY <1>1, <1>3, <2>1, <2>2, FollowedBy
    <2>4. \A m \in D : new[m].child = items[m].child
      <3>1. x \in D
        BY <2>1, <2>2 DEF Children
      <3> QED BY <1>1, <2>2, <3>1 DEF NextSet, Item
    <2>5. \A o \in BOOLEAN : List(g, new[c].child, o) = Added(items, f, c, n, o)
      BY <1>1, <1>3, <2>3, <2>4 DEF List
    <2>6. ASSUME NEW r \in D, ~IsLinked(items, r), r # c, NEW o \in BOOLEAN
          PROVE  List(g, items[r].child, o) = List(f, items[r].child, o)
      <3>1. items[r].child \in F => r = c
        BY <2>1 DEF Children
      <3>2. items[r].child # Null => items[r].child \in DOMAIN items \ F /\ items[r].child # c
        BY <1>1, <2>6, <3>1
      <3>3. items[r].child # Null => g[items[r].child] = f[items[r].child]
        BY <2>3, <3>2
      <3> QED BY <3>3 DEF List
    <2>7. OthersSay(items, f, new, g, c)
      BY <2>4, <2>6 DEF OthersSay
    <2> QED BY <1>1, <1>3, <2>2, <2>3, <2>4, <2>5, <2>7 DEF new
  <1> QED BY <1>2, <1>3

LEMMA Two ==
  ASSUME NEW S, NEW a \in S, NEW b \in S PROVE <<a>> \o <<b>> = <<a, b>>
  <1> DEFINE x == <<a>>
             y == <<b>>
             s == x \o y
  <1>1. /\ x \in Seq(S) /\ Len(x) = 1 /\ x[1] = a
        /\ y \in Seq(S) /\ Len(y) = 1 /\ y[1] = b
    OBVIOUS
  <1> HIDE DEF x, y
  <1>2. /\ s \in Seq(S) /\ Len(s) = Len(x) + Len(y)
        /\ \A k \in 1 .. Len(x) : s[k] = x[k]
        /\ \A k \in 1 .. Len(y) : s[Len(x) + k] = y[k]
    BY ONLY <1>1, Together
  <1> HIDE DEF s
  <1>3. 1 \in 1 .. Len(x) /\ 1 \in 1 .. Len(y) /\ Len(x) + 1 = 2 /\ Len(x) + Len(y) = 2
    BY <1>1
  <1>4. s \in Seq(S) /\ Len(s) = 2 /\ s[1] = a /\ s[2] = b
    <2>1. s[Len(x) + 1] = y[1] /\ s[1] = x[1]
      BY <1>2, <1>3
    <2> QED BY <1>1, <1>2, <1>3, <2>1
  <1>5. s = <<a, b>>
    BY <1>4
  <1> QED BY <1>5 DEF s, x, y

LEMMA NotEmpty == ASSUME NEW S, NEW s \in Seq(S), NEW x PROVE Append(s, x) # << >>
  <1>1. Len(Append(s, x)) = Len(s) + 1 /\ Len(s) \in Nat /\ Len(<< >>) = 0
    OBVIOUS
  <1> QED BY <1>1

LEMMA QuotedEmpty == Quoted(<< >>) = <<"quote", "quote">>
  <1>1. << >> \in Seq({"plain", "special"}) /\ EscapedPieces(<< >>) = << >>
    BY DEF EscapedPieces
  <1>2. Quoted(<< >>) = <<"quote">> \o (Flat(<< >>) \o <<"quote">>)
    BY <1>1, QuotedFlat
  <1>3. Flat(<< >>) \o <<"quote">> = <<"quote">>
    BY FlatEmpty, Marks, Empty
  <1>4. <<"quote">> \o <<"quote">> = <<"quote", "quote">>
    <2>1. "quote" \in Characters
      BY Punctuation
    <2> QED BY <2>1, Two
  <1> QED BY <1>2, <1>3, <1>4

\* What a container says with one more member.
LEMMA SaysMore ==
  ASSUME NEW m \in Meaning, NEW key \in Seq({"plain", "special"}), NEW value \in Seq(Characters),
         NEW entry, entry = (IF m.kind = "object" THEN Quoted(key) \o <<":">> ELSE << >>) \o value
  PROVE  /\ Saying(m, key, value).kind = m.kind /\ Saying(m, key, value).made = m.made
         /\ Saying(m, key, value).members # << >>
         /\ entry \in Seq(Characters)
         /\ Body(Saying(m, key, value).members)
              = IF m.members = << >> THEN entry ELSE Body(m.members) \o (<<",">> \o entry)
  <1> DEFINE label == IF m.kind = "object" THEN Quoted(key) \o <<":">> ELSE << >>
  <1>1. label \in Seq(Characters)
    <2>1. Quoted(key) \in Seq(Characters)
      BY QuotedTypes
    <2>2. <<":">> \in Seq(Characters) /\ << >> \in Seq(Characters)
      BY Marks
    <2>3. Quoted(key) \o <<":">> \in Seq(Characters)
      BY <2>1, <2>2
    <2> QED BY <2>2, <2>3
  <1>2. Saying(m, key, value) = [m EXCEPT !.members = Append(@, label \o value)]
    BY DEF Saying
  <1>3. entry = label \o value
    OBVIOUS
  <1> HIDE DEF label
  <1>4. entry \in Seq(Characters) /\ m.members \in Seq(Seq(Characters))
    <2>1. \A a, b \in Seq(Characters) : a \o b \in Seq(Characters)
      OBVIOUS
    <2>2. entry \in Seq(Characters)
      BY <1>1, <1>3, <2>1
    <2> QED BY <2>2 DEF Meaning
  <1>5. /\ Saying(m, key, value).members = Append(m.members, entry)
        /\ Saying(m, key, value).kind = m.kind /\ Saying(m, key, value).made = m.made
    BY <1>2, <1>3 DEF Meaning
  <1>6. Append(m.members, entry) # << >>
    BY <1>4, NotEmpty
  <1>7. Body(Append(m.members, entry))
          = Body(m.members) \o ((IF m.members = << >> THEN << >> ELSE <<",">>) \o entry)
    BY <1>4, SaidFlat, BodyGrows
  <1>8. CASE m.members = << >>
    <2>1. Body(Append(m.members, entry)) = << >> \o (<< >> \o entry)
      BY <1>7, <1>8, BodyEmpty
    <2> QED BY <1>4, <1>5, <1>6, <1>8, <2>1, Empty
  <1>9. CASE m.members # << >>
    BY <1>4, <1>5, <1>6, <1>7, <1>9
  <1> QED BY <1>8, <1>9

\* The children of container c say what was meant.
Tells(items, f, c, m) ==
  /\ items[c].type = m.kind
  /\ m.members = << >> <=> items[c].child = Null
  /\ List(f, items[c].child, m.kind = "object") = Body(m.members)

LEMMA OthersTell ==
  ASSUME NEW items, NEW f, NEW new, NEW g, NEW c, OthersSay(items, f, new, g, c),
         NEW r \in DOMAIN items, ~IsLinked(items, r), r # c, new[r].type = items[r].type,
         NEW m, Tells(items, f, r, m)
  PROVE  Tells(new, g, r, m)
  <1>1. (m.kind = "object") \in BOOLEAN
    OBVIOUS
  <1>2. new[r].child = items[r].child
        /\ List(g, items[r].child, m.kind = "object") = List(f, items[r].child, m.kind = "object")
    BY <1>1 DEF OthersSay
  <1> QED BY <1>2 DEF Tells

\* An item that says key and value becomes a member.
LEMMA MemberAdded ==
  ASSUME NEW items, NEW t, ItemsFit(items, t), NEW f, Describes(items, t, f),
         NEW c, NEW n, Roots(items, c, n), NEW m \in Meaning, Tells(items, f, c, m),
         NEW key \in Seq({"plain", "special"}), NEW value \in Seq(Characters),
         f[n][m.kind = "object"]
            = (IF m.kind = "object" THEN Quoted(key) \o <<":">> ELSE << >>) \o value
  PROVE  \E g : /\ Describes(Linked(items, c, n), t, g)
                /\ OthersSay(items, f, Linked(items, c, n), g, c)
                /\ Tells(Linked(items, c, n), g, c, Saying(m, key, value))
  <1> DEFINE new == Linked(items, c, n)
             more == Saying(m, key, value)
             o == m.kind = "object"
             entry == f[n][o]
  <1>1. PICK g : /\ Describes(new, t, g) /\ new[c].child # Null
                 /\ \A p \in BOOLEAN : List(g, new[c].child, p) = Added(items, f, c, n, p)
                 /\ OthersSay(items, f, new, g, c)
    BY Extended
  <1>2. /\ more.kind = m.kind /\ more.made = m.made /\ more.members # << >>
        /\ Body(more.members)
              = IF m.members = << >> THEN entry ELSE Body(m.members) \o (<<",">> \o entry)
    <2>1. entry = (IF m.kind = "object" THEN Quoted(key) \o <<":">> ELSE << >>) \o value
      OBVIOUS
    <2> HIDE DEF entry
    <2> QED BY ZenonT(40), <2>1, SaysMore
  <1>3. new[c].type = m.kind
    <2>1. new[c].type = items[c].type
      BY LinkedKinds DEF ItemsFit, Roots
    <2> QED BY <2>1 DEF Tells
  <1>4. o \in BOOLEAN
    OBVIOUS
  <1> HIDE DEF new, more
  <1>5. List(g, new[c].child, o) = Body(more.members)
    <2>1. List(g, new[c].child, o) = Added(items, f, c, n, o)
      BY <1>1, <1>4
    <2>2. CASE items[c].child = Null
      <3>1. m.members = << >>
        BY <2>2 DEF Tells
      <3> QED BY <1>2, <2>1, <2>2, <3>1 DEF Added
    <2>3. CASE items[c].child # Null
      <3>1. m.members # << >> /\ List(f, items[c].child, o) = Body(m.members)
        BY <2>3 DEF Tells
      <3>2. f[items[c].child][o] = Body(m.members)
        BY <2>3, <3>1 DEF List
      <3> HIDE DEF o
      <3>3. Added(items, f, c, n, o) = Body(m.members) \o (<<",">> \o entry)
        BY <2>3, <3>2 DEF Added
      <3> QED BY <1>2, <2>1, <3>1, <3>3
    <2> QED BY <2>2, <2>3
  <1>6. Tells(new, g, c, more)
    BY <1>1, <1>2, <1>3, <1>5 DEF Tells
  <1> QED BY <1>1, <1>6 DEF new, more

\* The hypotheses of MemberAdded, and what it shows.
Adds(items, t, f, c, n, m, key, value) ==
  /\ ItemsFit(items, t) /\ Describes(items, t, f) /\ Roots(items, c, n)
  /\ m \in Meaning /\ Tells(items, f, c, m)
  /\ key \in Seq({"plain", "special"}) /\ value \in Seq(Characters)
  /\ f[n][m.kind = "object"]
       = (IF m.kind = "object" THEN Quoted(key) \o <<":">> ELSE << >>) \o value

AddedSays(items, t, f, c, n, more) ==
  \E g : /\ Describes(Linked(items, c, n), t, g)
         /\ OthersSay(items, f, Linked(items, c, n), g, c)
         /\ Tells(Linked(items, c, n), g, c, more)

LEMMA MemberSaid ==
  ASSUME NEW items, NEW t, NEW f, NEW c, NEW n, NEW m, NEW key, NEW value,
         Adds(items, t, f, c, n, m, key, value)
  PROVE  AddedSays(items, t, f, c, n, Saying(m, key, value))
  BY MemberAdded DEF Adds, AddedSays

(***************************************************************************)
(* What was meant is what is built, what is written and left to print, and *)
(* what is sent.                                                           *)
(***************************************************************************)
RootSays(f, i) ==
  /\ meant[i].made <=> held[i] # Null
  /\ held[i] # Null => Tells(heap, f, held[i], meant[i])

BuildingSays ==
  \E f : Describes(heap, texts, f) /\ \A i \in DOMAIN held : RootSays(f, i)

PrintingSays ==
  /\ buffer # Null /\ (meant[1].made <=> held[1] # Null)
  /\ IF held[1] = Null THEN todo = << >>
     ELSE \E f : Describes(heap, texts, f) /\ written \o Say(f, todo) = Said(meant[1])

MeantInv ==
  /\ FreedInv
  /\ at = "building" => BuildingSays
  /\ at = "printing" => PrintingSays
  /\ AnswerSaysWhatWasMeant

LEMMA TreeFits ==
  ASSUME FreedInv, at \in {"building", "printing"}
  PROVE  /\ ItemsFit(heap, texts) /\ ItemsOK /\ LinksOK
         /\ heap \in [DOMAIN heap -> Item] /\ texts \in [DOMAIN texts -> Strings]
  <1>1. ItemsOK /\ LinksOK /\ ListsOK(heap)
    BY DEF FreedInv, BufferInv, TreeOK
  <1>2. Null \notin DOMAIN texts
    BY <1>1 DEF ItemsOK, Null
  <1> QED BY <1>1, <1>2 DEF ItemsFit, ItemsOK, LinksOK

LEMMA RootSaysAll ==
  ASSUME FreedInv, at \in {"building", "printing"}, NEW f, Describes(heap, texts, f),
         NEW i \in DOMAIN held, held[i] # Null, NEW m \in Meaning, Tells(heap, f, held[i], m)
  PROVE  held[i] \in DOMAIN heap /\ Value(heap, texts, f, held[i]) = Said(m)
  <1>1. held[i] \in DOMAIN heap
    BY TreeFits DEF LinksOK
  <1>2. m.kind \in Kinds
    BY DEF Meaning
  <1>3. Value(heap, texts, f, held[i])
           = <<Opening(m.kind)>> \o (List(f, heap[held[i]].child, m.kind = "object")
                                     \o <<Closing(m.kind)>>)
    BY <1>2 DEF Value, Tells, Kinds
  <1> QED BY <1>1, <1>3, SaidFlat DEF Tells

LEMMA PrintingTypes ==
  ASSUME FreedInv, at = "printing"
  PROVE  /\ todo \in Seq(LiveTasks) /\ written \in Seq(Characters)
         /\ meant[1] \in Meaning \/ meant = << >>
         /\ DOMAIN held = {1}
  <1>1. held \in Seq(Nat) /\ Len(held) = 1
    BY DEF FreedInv, BufferInv, ItemsOK
  <1> QED BY <1>1 DEF FreedInv, BufferInv, ItemsOK

LEMMA MeantRespond == ASSUME MeantInv, Respond PROVE MeantInv'
  <1>1. /\ FreedInv /\ FreedInv' /\ at = "building" /\ Len(held) = 1 /\ BuildingSays
        /\ UNCHANGED <<held, heap, texts, meant>>
    BY FreedPrinter DEF MeantInv, Respond, tree
  <1>2. held \in Seq(Nat) /\ DOMAIN held = {1} /\ meant[1] \in Meaning
    <2>1. held \in Seq(Nat) /\ meant \in Seq(Meaning) /\ Len(meant) = 1
      BY <1>1 DEF FreedInv, BufferInv, ItemsOK
    <2> QED BY <1>1, <2>1
  <1>3. PICK f : Describes(heap, texts, f) /\ RootSays(f, 1)
    BY <1>1, <1>2 DEF BuildingSays
  <1>4. ASSUME names' = names + 1, buffer' = names', at' = "printing",
               UNCHANGED <<failed, written>>,
               todo' = IF held[1] = Null THEN << >> ELSE ValueTasks(held[1]) \o <<Put(1, << >>)>>
        PROVE  MeantInv'
    <2>1. buffer' # Null /\ (meant'[1].made <=> held'[1] # Null)
      BY <1>1, <1>3, <1>4 DEF RootSays, FreedInv, BufferInv, ItemsOK, Null
    <2>2. CASE held[1] = Null
      BY <1>1, <1>4, <2>1, <2>2 DEF MeantInv, PrintingSays, AnswerSaysWhatWasMeant
    <2>3. CASE held[1] # Null
      <3> DEFINE a == ValueTasks(held[1])
                 b == <<Put(1, << >>)>>
      <3>0. Speaks(f) /\ ItemsOK /\ LinksOK
        BY <1>1, <1>3, TreeFits DEF Describes, Speaks
      <3>1. held[1] \in DOMAIN heap /\ Value(heap, texts, f, held[1]) = Said(meant[1])
        BY <1>1, <1>2, <1>3, <2>3, RootSaysAll DEF RootSays
      <3>2. a \in Seq(LiveTasks) /\ Say(f, a) = Said(meant[1])
        BY <3>0, <3>1, ValueTypes, ValueSays
      <3>3. b \in Seq(LiveTasks) /\ Say(f, b) = << >>
        <4>1. << >> \in Seq(Characters) /\ Len(<< >>) <= 1 /\ 1 \in Nat
          OBVIOUS
        <4>2. Put(1, << >>) \in LiveTasks
          BY <4>1, PutTypes
        <4> QED BY <3>0, <4>2, SayOne, PutSays
      <3>4. Said(meant[1]) \in Seq(Characters)
        BY <1>2, MembersSaid
      <3>5. todo' = a \o b
        BY <1>4, <2>3
      <3> HIDE DEF a, b
      <3>6. Say(f, a \o b) = Said(meant[1]) \o << >>
        <4>1. \A x, y \in Seq(LiveTasks) : Say(f, x \o y) = Say(f, x) \o Say(f, y)
          BY <3>0, SayTwo
        <4> QED BY ONLY <3>2, <3>3, <4>1
      <3>7. written' = << >>
        BY <1>1, <1>4 DEF FreedInv, BufferInv
      <3>8. written' \o Say(f, todo') = Said(meant[1])
        BY <3>4, <3>5, <3>6, <3>7, Empty
      <3>9. PrintingSays'
        <4>1. /\ heap' = heap /\ texts' = texts /\ meant' = meant /\ held' = held
              /\ Describes(heap, texts, f) /\ held[1] # Null
          BY <1>1, <1>3, <2>3
        <4>2. Describes(heap', texts', f)
          BY ONLY ZenonT(40), <4>1 DEF Describes, Entry, Value
        <4>3. Said(meant'[1]) = Said(meant[1])
          BY ONLY <4>1
        <4>4. \E h : Describes(heap', texts', h) /\ written' \o Say(h, todo') = Said(meant'[1])
          BY ONLY <3>8, <4>2, <4>3
        <4> QED BY ONLY <2>1, <4>1, <4>4 DEF PrintingSays
      <3> QED BY <1>1, <1>4, <3>9 DEF MeantInv, AnswerSaysWhatWasMeant
    <2> QED BY <2>2, <2>3
  <1>5. ASSUME failed' = failed \cup {"buffer"}, GiveUp PROVE MeantInv'
    BY <1>1, <1>5 DEF MeantInv, GiveUp, AnswerSaysWhatWasMeant
  <1> QED BY <1>4, <1>5 DEF Respond

LEMMA MeantGiveUp ==
  ASSUME FreedInv', GiveUp, UNCHANGED tree,
         "buffer" \in failed' \/ ~meant[1].made
  PROVE  MeantInv'
  <1>1. meant' = meant
    BY DEF tree
  <1> QED BY <1>1 DEF MeantInv, GiveUp, AnswerSaysWhatWasMeant

LEMMA MeantWrite == ASSUME MeantInv, Write PROVE MeantInv'
  <1> DEFINE task == Head(todo)
  <1>1. /\ FreedInv /\ FreedInv' /\ at = "printing" /\ PrintingSays /\ UNCHANGED tree
        /\ todo # << >> /\ task.do = "put"
        /\ UNCHANGED <<held, heap, texts, meant>>
    BY FreedPrinter DEF MeantInv, Write, tree
  <1>2. ASSUME failed' = failed \cup {"buffer"}, GiveUp PROVE MeantInv'
    BY <1>1, <1>2, MeantGiveUp
  <1>3. ASSUME Ensure(task.need), written' = written \o task.text, todo' = Tail(todo),
               UNCHANGED <<failed, at>>
        PROVE  MeantInv'
    <2>1. held[1] # Null
      BY <1>1 DEF PrintingSays
    <2>2. PICK f : Describes(heap, texts, f) /\ written \o Say(f, todo) = Said(meant[1])
      BY <1>1, <2>1 DEF PrintingSays
    <2>3. Speaks(f) /\ todo \in Seq(LiveTasks) /\ written \in Seq(Characters)
      BY <1>1, <2>2, PrintingTypes DEF Describes, Speaks
    <2>4. /\ task \in LiveTasks /\ Tail(todo) \in Seq(LiveTasks) /\ todo = <<task>> \o Tail(todo)
      BY <1>1, <2>3
    <2> HIDE DEF task
    <2>5. Say(f, todo) = task.text \o Say(f, Tail(todo))
      <3>1. <<task>> \in Seq(LiveTasks) /\ Say(f, <<task>>) = task.text
        BY <1>1, <2>3, <2>4, SayOne DEF TaskText
      <3>2. \A x, y \in Seq(LiveTasks) : Say(f, x \o y) = Say(f, x) \o Say(f, y)
        BY <2>3, SayTwo
      <3> QED BY ONLY <2>4, <3>1, <3>2
    <2>6. task.text \in Seq(Characters) /\ Say(f, Tail(todo)) \in Seq(Characters)
      BY <1>1, <2>3, <2>4, TasksSay DEF LiveTasks
    <2>7. written' \o Say(f, todo') = Said(meant[1])
      <3> DEFINE said == task.text
                 left == Say(f, Tail(todo))
      <3>1. written \in Seq(Characters) /\ said \in Seq(Characters) /\ left \in Seq(Characters)
        BY <2>3, <2>6
      <3>2. written \o (said \o left) = Said(meant[1])
        BY <2>2, <2>5
      <3>3. written' = written \o said
        BY <1>3
      <3>4. Say(f, todo') = left
        BY <1>3
      <3> HIDE DEF said, left
      <3>5. \A a, b, c \in Seq(Characters) : (a \o b) \o c = a \o (b \o c)
        BY ONLY Associative
      <3> QED BY ONLY <3>1, <3>2, <3>3, <3>4, <3>5
    <2>8. buffer' # Null
      <3>1. names + 1 # Null
        BY <1>1 DEF FreedInv, BufferInv, ItemsOK, Null
      <3> QED BY <1>1, <1>3, <3>1 DEF PrintingSays, Ensure
    <2>9. PrintingSays'
      <3>1. Describes(heap', texts', f) /\ written' \o Say(f, todo') = Said(meant'[1])
        BY <1>1, <2>2, <2>7 DEF Said
      <3>2. meant'[1].made <=> held'[1] # Null
        BY <1>1 DEF PrintingSays
      <3> QED BY <1>1, <2>1, <2>8, <3>1, <3>2 DEF PrintingSays
    <2> QED BY <1>1, <1>3, <2>9 DEF MeantInv, AnswerSaysWhatWasMeant
  <1> QED BY <1>2, <1>3 DEF Write

LEMMA MeantWalk == ASSUME MeantInv, Walk PROVE MeantInv'
  <1> DEFINE task == Head(todo)
             more == RestTasks(task.item, task.inObject)
  <1>1. /\ FreedInv /\ FreedInv' /\ at = "printing" /\ at' = "printing" /\ PrintingSays
        /\ todo # << >> /\ task.do = "rest" /\ todo' = more \o Tail(todo)
        /\ UNCHANGED <<held, heap, texts, meant, buffer, written>>
    BY FreedPrinter DEF MeantInv, Walk, tree
  <1>2. held[1] # Null
    BY <1>1 DEF PrintingSays
  <1>3. PICK f : Describes(heap, texts, f) /\ written \o Say(f, todo) = Said(meant[1])
    BY <1>1, <1>2 DEF PrintingSays
  <1>4. /\ Speaks(f) /\ todo \in Seq(LiveTasks) /\ ItemsOK /\ LinksOK
    BY <1>1, <1>3, PrintingTypes, TreeFits DEF Describes, Speaks
  <1>5. /\ task \in LiveTasks /\ Tail(todo) \in Seq(LiveTasks) /\ todo = <<task>> \o Tail(todo)
    BY <1>1, <1>4
  <1> HIDE DEF task
  <1>6. task.item \in DOMAIN heap \cup {Null} /\ task.inObject \in BOOLEAN
    BY <1>1, <1>5 DEF LiveTasks
  <1>7. more \in Seq(LiveTasks) /\ Say(f, more) = List(f, task.item, task.inObject)
    BY <1>3, <1>4, <1>6, ListTypes, RestTasksSay
  <1>8. <<task>> \in Seq(LiveTasks) /\ Say(f, <<task>>) = List(f, task.item, task.inObject)
    BY <1>1, <1>4, <1>5, SayOne DEF TaskText
  <1> HIDE DEF more
  <1>9. Say(f, todo') = Say(f, todo)
    <2>1. \A x, y \in Seq(LiveTasks) : Say(f, x \o y) = Say(f, x) \o Say(f, y)
      BY <1>4, SayTwo
    <2> DEFINE left == Tail(todo)
               one == <<task>>
    <2>2. left \in Seq(LiveTasks) /\ one \in Seq(LiveTasks) /\ more \in Seq(LiveTasks)
      BY <1>5, <1>7, <1>8
    <2>3. todo = one \o left /\ todo' = more \o left /\ Say(f, one) = Say(f, more)
      BY <1>1, <1>5, <1>7, <1>8 DEF more
    <2> HIDE DEF left, one
    <2> QED BY ONLY <2>1, <2>2, <2>3
  <1>10. PrintingSays'
    <2>1. Describes(heap', texts', f) /\ written' \o Say(f, todo') = Said(meant'[1])
      BY <1>1, <1>3, <1>9 DEF Said
    <2> QED BY <1>1, <1>2, <2>1 DEF PrintingSays
  <1> QED BY <1>1, <1>10 DEF MeantInv, AnswerSaysWhatWasMeant

LEMMA MeantEndPrint == ASSUME MeantInv, EndPrint PROVE MeantInv'
  <1>1. /\ FreedInv /\ FreedInv' /\ at = "printing" /\ PrintingSays /\ UNCHANGED tree
        /\ todo = << >> /\ UNCHANGED <<held, heap, texts, meant>>
    BY FreedPrinter DEF MeantInv, EndPrint, tree
  <1>2. CASE held[1] = Null
    BY <1>1, <1>2, MeantGiveUp DEF EndPrint, PrintingSays
  <1>3. CASE held[1] # Null
    <2>1. at' = "printed" /\ UNCHANGED <<buffer, written>>
      BY <1>3 DEF EndPrint, printer
    <2>2. PICK f : written \o Say(f, todo) = Said(meant[1])
      BY <1>1, <1>3 DEF PrintingSays
    <2>3. written \in Seq(Characters)
      BY <1>1, PrintingTypes
    <2>4. written = Said(meant[1])
      <3>1. Say(f, todo) = << >>
        BY <1>1, SayNothing
      <3> QED BY <2>2, <2>3, <3>1, Empty
    <2>5. written' = Said(meant'[1]) /\ meant'[1].made /\ buffer' # Null
      BY <1>1, <1>3, <2>1, <2>4 DEF PrintingSays, Said
    <2> QED BY <1>1, <2>1, <2>5 DEF MeantInv, AnswerSaysWhatWasMeant
  <1> QED BY <1>2, <1>3

LEMMA TreeFitsNext ==
  ASSUME FreedInv', at' = "building" PROVE ItemsFit(heap', texts') /\ ListsOK(heap')
  <1>1. ItemsOK' /\ LinksOK' /\ ListsOK(heap')
    BY DEF FreedInv, BufferInv, TreeOK
  <1>2. Null \notin DOMAIN texts'
    BY <1>1 DEF ItemsOK, Null
  <1> QED BY <1>1, <1>2 DEF ItemsFit, ItemsOK, LinksOK

\* A step of the handler, when f describes the tree it leaves.
LEMMA MeantBuilds ==
  ASSUME FreedInv', at' = "building", NEW f, Describes(heap', texts', f),
         \A i \in DOMAIN held' : /\ meant'[i].made <=> held'[i] # Null
                                 /\ held'[i] # Null => Tells(heap', f, held'[i], meant'[i])
  PROVE  MeantInv'
  <1>1. \A i \in DOMAIN held' : RootSays(f, i)'
    BY DEF RootSays
  <1>2. BuildingSays'
    BY <1>1 DEF BuildingSays
  <1> QED BY <1>2 DEF MeantInv, AnswerSaysWhatWasMeant

\* An item that is new and hangs on nothing, with strings from t2.
Fresh(items, t, n, item, t2) ==
  /\ n \in Nat \ {Null} /\ n \notin DOMAIN items
  /\ item \in Item /\ item.next = Null /\ item.child = Null
  /\ item.string \in DOMAIN t2 \cup {Null} /\ item.valuestring \in DOMAIN t2 \cup {Null}
  /\ t2 \in [DOMAIN t2 -> Strings] /\ Null \notin DOMAIN t2
  /\ \A p \in DOMAIN t : p \in DOMAIN t2 /\ t2[p] = t[p]

\* What the roots said they say with it.
RootsTell(items, f, items2, g) ==
  \A r \in DOMAIN items : \A m :
     ~IsLinked(items, r) /\ Tells(items, f, r, m) => Tells(items2, g, r, m)

FreshSays(items, f, n, new, t2) ==
  \E g : /\ Describes(new, t2, g) /\ RootsTell(items, f, new, g)
         /\ \A o \in BOOLEAN : g[n][o] = Entry(new, t2, f, n, o)

FreshFits(items, n, item, new, t2) ==
  /\ ItemsFit(new, t2) /\ DOMAIN new = DOMAIN items \cup {n}
  /\ new[n] = item /\ ~IsLinked(new, n)
  /\ \A m \in DOMAIN items : /\ new[m] = items[m]
                             /\ ~IsLinked(items, m) => ~IsLinked(new, m)

LEMMA FreshItem ==
  ASSUME NEW items, NEW t, ItemsFit(items, t), NEW n, NEW item, NEW t2,
         Fresh(items, t, n, item, t2)
  PROVE  FreshFits(items, n, item, With(items, n, item), t2)
  <1> DEFINE new == With(items, n, item)
  <1>1. /\ n \in Nat \ {Null} /\ n \notin DOMAIN items /\ item \in Item
        /\ item.next = Null /\ item.child = Null /\ ListsOK(items)
    BY DEF Fresh, ItemsFit
  <1>2. /\ ListsOK(new) /\ ~IsLinked(new, n) /\ DOMAIN new = DOMAIN items \cup {n}
        /\ new[n] = item
        /\ \A m \in DOMAIN items : /\ new[m] = items[m]
                                   /\ ~IsLinked(items, m) => ~IsLinked(new, m)
    BY ONLY <1>1, ItemAlone
  <1> HIDE DEF new
  <1>3. ItemsFit(new, t2)
    BY <1>2 DEF ItemsFit, Fresh
  <1> QED BY <1>2, <1>3 DEF new, FreshFits

LEMMA FreshTells ==
  ASSUME NEW items, NEW t, ItemsFit(items, t), NEW f, Describes(items, t, f),
         NEW n, NEW item, NEW t2, Fresh(items, t, n, item, t2)
  PROVE  FreshSays(items, f, n, With(items, n, item), t2)
  <1> DEFINE new == With(items, n, item)
  <1>1. /\ n \in Nat \ {Null} /\ n \notin DOMAIN items /\ item \in Item
        /\ item.next = Null /\ item.child = Null /\ ListsOK(items)
    BY DEF Fresh, ItemsFit
  <1>2. /\ ItemsFit(new, t2) /\ DOMAIN new = DOMAIN items \cup {n}
        /\ new[n] = item /\ \A m \in DOMAIN items : new[m] = items[m]
    <2>1. FreshFits(items, n, item, new, t2)
      BY FreshItem
    <2> QED BY ONLY <2>1 DEF FreshFits
  <1> HIDE DEF new
  <1>4. ~IsLinked(items, n) /\ \A m \in DOMAIN items : items[m].child \in DOMAIN items \cup {Null}
    BY <1>1 DEF IsLinked, ListsOK, Closed
  <1>5. PICK g : /\ Describes(new, t2, g)
                 /\ \A m \in DOMAIN items \ {n} : g[m] = f[m]
                 /\ \A o \in BOOLEAN : g[n][o] = Entry(new, t2, f, n, o)
    <2>1. /\ \A p \in DOMAIN t : t2[p] = t[p]
          /\ \A m \in DOMAIN items \ {n} : new[m] = items[m]
          /\ new[n].next = Null /\ new[n].child \in (DOMAIN items \ {n}) \cup {Null}
      BY <1>1, <1>2 DEF Fresh
    <2> QED BY <1>2, <1>4, <2>1, Replaced
  <1>6. RootsTell(items, f, new, g)
    <2>1. ASSUME NEW r \in DOMAIN items, NEW o
          PROVE  List(g, items[r].child, o) = List(f, items[r].child, o)
      <3>1. items[r].child # Null => items[r].child \in DOMAIN items \ {n}
        BY <1>1, <1>4
      <3>2. items[r].child # Null => g[items[r].child] = f[items[r].child]
        BY <1>5, <3>1
      <3> QED BY <3>2 DEF List
    <2> QED BY <1>2, <2>1 DEF RootsTell, Tells
  <1>7. FreshSays(items, f, n, new, t2)
    BY <1>5, <1>6 DEF FreshSays
  <1> QED BY <1>7 DEF new

LEMMA BuildingFacts ==
  ASSUME MeantInv, at = "building"
  PROVE  /\ FreedInv /\ BuildingSays /\ BufferInv /\ LinksOK /\ RootsOK
         /\ held \in Seq(Nat) /\ meant \in Seq(Meaning) /\ DOMAIN meant = DOMAIN held
         /\ Len(meant) = Len(held) /\ Len(held) \in Nat
         /\ ItemsFit(heap, texts) /\ \A i \in DOMAIN held : held[i] \in DOMAIN heap \cup {Null}
         /\ names + 1 \notin DOMAIN heap /\ names + 1 \in Nat \ {Null} /\ names \in Nat
         /\ DOMAIN texts \subseteq 1 .. names
  <1>1. FreedInv /\ BuildingSays /\ BufferInv /\ LinksOK /\ RootsOK
    BY DEF MeantInv, FreedInv, BufferInv, TreeOK
  <1>2. ItemsFit(heap, texts)
    BY <1>1, TreeFits
  <1>3. held \in Seq(Nat) /\ meant \in Seq(Meaning) /\ Len(meant) = Len(held)
    BY <1>1 DEF FreedInv, BufferInv, ItemsOK
  <1>4. DOMAIN meant = DOMAIN held /\ Len(held) \in Nat
    BY <1>3
  <1> QED BY <1>1, <1>2, <1>3, <1>4, HeapFacts

LEMMA MeantInit == Init => MeantInv
  <1> SUFFICES ASSUME Init PROVE MeantInv
    OBVIOUS
  <1>1. FreedInv /\ at = "building" /\ held = << >> /\ heap = << >>
    BY FreedInit DEF Init
  <1>2. DOMAIN heap = {} /\ DOMAIN held = {}
    BY <1>1
  <1> DEFINE f == [n \in {} |-> [o \in BOOLEAN |-> << >>]]
  <1>3. f \in [DOMAIN heap -> [BOOLEAN -> Seq(Characters)]]
    BY <1>2
  <1> HIDE DEF f
  <1>4. Describes(heap, texts, f)
    BY <1>2, <1>3 DEF Describes
  <1>5. BuildingSays
    BY <1>2, <1>4 DEF BuildingSays
  <1> QED BY <1>1, <1>5 DEF MeantInv, AnswerSaysWhatWasMeant

LEMMA MeantCreate ==
  ASSUME MeantInv, NEW kind \in Kinds, Create(kind) PROVE MeantInv'
  <1>1. at = "building" /\ at' = "building" /\ texts' = texts
    BY DEF Create
  <1>2. /\ FreedInv' /\ BuildingSays /\ ItemsFit(heap, texts) /\ RootsOK
        /\ held \in Seq(Nat) /\ meant \in Seq(Meaning) /\ Len(meant) = Len(held)
        /\ Len(held) \in Nat /\ DOMAIN meant = DOMAIN held
        /\ names + 1 \notin DOMAIN heap /\ names + 1 \in Nat \ {Null}
        /\ \A i \in DOMAIN held : held[i] \in DOMAIN heap \cup {Null}
    BY <1>1, BuildingFacts, FreedCreate
  <1>3. PICK f : Describes(heap, texts, f) /\ \A i \in DOMAIN held : RootSays(f, i)
    BY <1>2 DEF BuildingSays
  <1> DEFINE L == Len(held) + 1
  <1>4. ASSUME NEW x, NEW y, held' = Append(held, x), meant' = Append(meant, y)
        PROVE  /\ \A i \in DOMAIN held' : i \in DOMAIN held \/ i = L
               /\ held'[L] = x /\ meant'[L] = y
               /\ \A i \in DOMAIN held : held'[i] = held[i] /\ meant'[i] = meant[i]
    BY <1>2, <1>4
  <1> HIDE DEF L
  <1>5. ASSUME names' = names + 1, heap' = With(heap, names', NewItem(kind, Null, Null, << >>)),
               held' = Append(held, names'),
               meant' = Append(meant, [kind |-> kind, made |-> TRUE, members |-> << >>])
        PROVE  MeantInv'
    <2> DEFINE n == names + 1
               item == NewItem(kind, Null, Null, << >>)
               m == [kind |-> kind, made |-> TRUE, members |-> << >>]
    <2>1. /\ item \in Item /\ item.next = Null /\ item.child = Null /\ item.type = kind
          /\ item.string = Null /\ item.valuestring = Null
      BY NewTypes DEF NewItem
    <2>2. m.made = TRUE /\ m.kind = kind /\ m.members = << >>
      OBVIOUS
    <2>3. /\ n \in Nat \ {Null} /\ n \notin DOMAIN heap /\ heap' = With(heap, n, item)
          /\ held' = Append(held, n) /\ meant' = Append(meant, m)
      BY <1>2, <1>5
    <2> HIDE DEF n, item, m
    <2>4. Fresh(heap, texts, n, item, texts)
      BY <1>2, <2>1, <2>3 DEF Fresh, ItemsFit
    <2>5. /\ With(heap, n, item)[n] = item
          /\ FreshSays(heap, f, n, With(heap, n, item), texts)
      <3>1. ItemsFit(heap, texts) /\ Describes(heap, texts, f)
        BY <1>2, <1>3
      <3>2. FreshSays(heap, f, n, With(heap, n, item), texts)
        BY ONLY <2>4, <3>1, FreshTells
      <3>3. With(heap, n, item)[n] = item
        BY DEF With
      <3> QED BY ONLY <3>2, <3>3
    <2>6. PICK g : Describes(heap', texts', g) /\ RootsTell(heap, f, heap', g)
      BY <1>1, <2>3, <2>5 DEF FreshSays
    <2>7. /\ \A i \in DOMAIN held' : i \in DOMAIN held \/ i = L
          /\ held'[L] = n /\ meant'[L] = m
          /\ \A i \in DOMAIN held : held'[i] = held[i] /\ meant'[i] = meant[i]
      BY <1>4, <2>3
    <2>8. heap'[n].child = Null /\ heap'[n].type = kind
      BY <2>1, <2>3, <2>5
    <2>9. Tells(heap', g, n, m)
      BY <2>2, <2>8, BodyEmpty DEF Tells, List
    <2>10. ASSUME NEW i \in DOMAIN held, held[i] # Null PROVE Tells(heap', g, held[i], meant[i])
      BY <1>2, <1>3, <2>6, <2>10 DEF RootsOK, RootSays, RootsTell
    <2>11. \A i \in DOMAIN held' : /\ meant'[i].made <=> held'[i] # Null
                                   /\ held'[i] # Null => Tells(heap', g, held'[i], meant'[i])
      BY ZenonT(40), <1>3, <2>2, <2>3, <2>7, <2>9, <2>10 DEF RootSays
    <2> QED BY <1>1, <1>2, <2>6, <2>11, MeantBuilds
  <1>6. ASSUME held' = Append(held, Null), heap' = heap,
               meant' = Append(meant, [kind |-> kind, made |-> FALSE, members |-> << >>])
        PROVE  MeantInv'
    <2> DEFINE m == [kind |-> kind, made |-> FALSE, members |-> << >>]
    <2>1. m.made = FALSE /\ meant' = Append(meant, m)
      BY <1>6
    <2> HIDE DEF m
    <2>2. /\ \A i \in DOMAIN held' : i \in DOMAIN held \/ i = L
          /\ held'[L] = Null /\ meant'[L] = m
          /\ \A i \in DOMAIN held : held'[i] = held[i] /\ meant'[i] = meant[i]
      BY <1>4, <1>6, <2>1
    <2>3. \A i \in DOMAIN held' : /\ meant'[i].made <=> held'[i] # Null
                                  /\ held'[i] # Null => Tells(heap', f, held'[i], meant'[i])
      BY <1>3, <1>6, <2>1, <2>2 DEF RootSays
    <2>4. Describes(heap', texts', f)
      BY <1>1, <1>3, <1>6
    <2> QED BY <1>1, <1>2, <2>3, <2>4, MeantBuilds
  <1> QED BY <1>5, <1>6 DEF Create

\* What AddMember adds, when it allocates the item: str and copy are the copies
\* of the key and of the value, or Null, said and value what the item says.
MemberMade(i, key, new, item, said, value) ==
  /\ Fresh(heap, texts, names + 1, item, texts')
  /\ heap' = IF held[i] = Null THEN With(heap, names + 1, item)
             ELSE Linked(With(heap, names + 1, item), held[i], names + 1)
  /\ meant' = IF held[i] = Null THEN meant ELSE [meant EXCEPT ![i] = Saying(@, said, value)]
  /\ said \in Seq({"plain", "special"}) /\ value \in Seq(Characters)
  /\ \A items, f : items[names + 1] = item =>
        Value(items, texts', f, names + 1) = value
  /\ held[i] # Null /\ meant[i].kind = "object" => TextOf(texts', item.string) = Quoted(said)

LEMMA AddMemberMakes ==
  ASSUME MeantInv, NEW i \in DOMAIN held, NEW key \in Strings, NEW new \in Members,
         AddMember(i, key, new), ~UNCHANGED <<names, heap, texts, meant>>
  PROVE  \E item, said, value : MemberMade(i, key, new, item, said, value)
  <1> DEFINE n == names + 1
             V(copied) == IF copied THEN n + 1 ELSE n
             K(copied, keyed) == IF keyed THEN V(copied) + 1 ELSE V(copied)
             val == IF new.type = "scalar" THEN new.says ELSE << >>
             I(copied, keyed) ==
                NewItem(new.type, IF keyed THEN K(copied, keyed) ELSE Null,
                        IF copied THEN V(copied) ELSE Null, val)
             Says(copied) == IF new.type = "scalar" THEN new.says
                             ELSE Quoted(IF copied THEN new.says ELSE << >>)
  <1>1. PICK copied \in {new.type = "text", FALSE},
             keyed  \in {held[i] # Null /\ meant[i].kind = "object", FALSE} :
           /\ heap' = IF held[i] = Null THEN With(heap, n, I(copied, keyed))
                      ELSE Linked(With(heap, n, I(copied, keyed)), held[i], n)
           /\ texts' = [m \in DOMAIN texts \cup (n + 1 .. K(copied, keyed)) |->
                          IF m \in DOMAIN texts THEN texts[m]
                          ELSE IF copied /\ m = V(copied) THEN new.says ELSE key]
           /\ meant' = IF held[i] = Null THEN meant
                       ELSE [meant EXCEPT ![i] =
                               Saying(@, IF keyed THEN key ELSE << >>, Says(copied))]
    BY Zenon DEF AddMember
  <1>2. /\ keyed \in BOOLEAN /\ copied \in BOOLEAN /\ (copied => new.type = "text")
    OBVIOUS
  <1> DEFINE item == I(copied, keyed)
             str == IF keyed THEN K(copied, keyed) ELSE Null
             copy == IF copied THEN V(copied) ELSE Null
             said == IF keyed THEN key ELSE << >>
             value == Says(copied)
  <1>3. /\ at = "building" /\ names \in Nat /\ n \notin DOMAIN heap /\ n \in Nat \ {Null}
        /\ DOMAIN texts \subseteq 1 .. names /\ texts \in [DOMAIN texts -> Strings]
    <2>1. at = "building"
      BY DEF AddMember
    <2> QED BY <2>1, BuildingFacts DEF ItemsFit
  <1>4. /\ DOMAIN texts' \subseteq Nat \ {Null}
        /\ \A p \in DOMAIN texts : p \in DOMAIN texts' /\ texts'[p] = texts[p]
        /\ keyed => str \in DOMAIN texts' /\ texts'[str] = key /\ str # Null
        /\ ~keyed => str = Null
        /\ copied => copy \in DOMAIN texts' /\ texts'[copy] = new.says /\ copy # Null
        /\ ~copied => copy = Null
    <2>1. /\ DOMAIN texts' = DOMAIN texts \cup (n + 1 .. K(copied, keyed))
          /\ \A m \in DOMAIN texts' :
                texts'[m] = IF m \in DOMAIN texts THEN texts[m]
                            ELSE IF copied /\ m = V(copied) THEN new.says ELSE key
      BY <1>1
    <2>2. keyed => str \in n + 1 .. K(copied, keyed) /\ ~(copied /\ str = V(copied)) /\ str > names
      BY <1>2, <1>3
    <2>3. copied => copy \in n + 1 .. K(copied, keyed) /\ copy = V(copied) /\ copy > names
      BY <1>2, <1>3
    <2>4. (n + 1 .. K(copied, keyed)) \subseteq Nat \ {Null} /\ DOMAIN texts \subseteq Nat \ {Null}
      BY <1>2, <1>3 DEF Null
    <2>5. (~keyed => str = Null) /\ (~copied => copy = Null)
      OBVIOUS
    <2> HIDE DEF V, K, str, copy
    <2>6. \A x \in DOMAIN texts : ~(x > names)
      BY <1>3
    <2> QED BY <2>1, <2>2, <2>3, <2>4, <2>5, <2>6
  <1>5. str \in Nat /\ copy \in Nat
    BY <1>2, <1>3 DEF Null
  <1>6. val \in Scalars \cup {<< >>}
    BY DEF Members
  <1>7. item = NewItem(new.type, str, copy, val)
    OBVIOUS
  <1>8. new.type \in {"text", "scalar"} /\ (copied => new.says \in Strings)
        /\ (new.type = "scalar" => val = new.says /\ value = new.says /\ new.says \in Scalars)
        /\ (new.type = "text" => value = Quoted(IF copied THEN new.says ELSE << >>))
    BY <1>2 DEF Members
  <1>9. /\ heap' = IF held[i] = Null THEN With(heap, n, item)
                   ELSE Linked(With(heap, n, item), held[i], n)
        /\ meant' = IF held[i] = Null THEN meant
                    ELSE [meant EXCEPT ![i] = Saying(@, said, value)]
    BY <1>1
  <1>10. texts' \in [DOMAIN texts' -> Strings]
    <2>1. texts' = [m \in DOMAIN texts' |-> texts'[m]]
      BY <1>1
    <2>2. \A m \in DOMAIN texts' : texts'[m] \in {texts[m], key, new.says}
             /\ (m \in DOMAIN texts => texts'[m] = texts[m])
             /\ (m \notin DOMAIN texts => texts'[m] = key \/ (copied /\ texts'[m] = new.says))
      BY <1>1
    <2>3. \A m \in DOMAIN texts' : texts'[m] \in Strings
      BY <1>3, <1>8, <2>2
    <2> QED BY ONLY <2>1, <2>3
  <1>11. said \in Seq({"plain", "special"}) /\ Quoted(said) = TextOf(texts', str)
    <2>1. CASE keyed
      BY <1>4, <2>1, AnswerAssumption DEF TextOf
    <2>2. CASE ~keyed
      BY <1>4, <2>2, QuotedEmpty DEF TextOf
    <2> QED BY <2>1, <2>2
  <1> HIDE DEF n, V, K, val, I, Says, item, str, copy, said
  <1>12. /\ item \in Item /\ item.next = Null /\ item.child = Null /\ item.value = val
         /\ item.string = str /\ item.valuestring = copy /\ item.type = new.type
    <2>1. /\ NewItem(new.type, str, copy, val) \in Item
          /\ NewItem(new.type, str, copy, val).next = Null
          /\ NewItem(new.type, str, copy, val).child = Null
          /\ NewItem(new.type, str, copy, val).valuestring = copy
          /\ NewItem(new.type, str, copy, val).string = str
      BY <1>5, <1>6, MemberItem
    <2>2. /\ NewItem(new.type, str, copy, val).value = val
          /\ NewItem(new.type, str, copy, val).type = new.type
      BY DEF NewItem
    <2> QED BY ONLY <1>7, <2>1, <2>2
  <1>13. Fresh(heap, texts, n, item, texts')
    BY <1>3, <1>4, <1>10, <1>12, Zenon DEF Fresh
  <1>14. value \in Seq(Characters)
         /\ \A items, f : items[n] = item => Value(items, texts', f, n) = value
    <2>1. CASE new.type = "scalar"
      <3>1. value \in Seq(Characters)
        BY <1>8, <2>1, ScalarIsDigits
      <3>2. value = val
        BY <1>8, <2>1
      <3> QED BY <1>12, <2>1, <3>1, <3>2 DEF Value
    <2>2. CASE new.type = "text"
      <3>1. value = TextOf(texts', copy) /\ value \in Seq(Characters)
        <4>1. CASE copied
          <5>1. new.says \in Seq({"plain", "special"})
            BY <1>8, <4>1, AnswerAssumption
          <5> QED BY <1>4, <1>8, <2>2, <4>1, <5>1, QuotedTypes DEF TextOf
        <4>2. CASE ~copied
          <5>1. << >> \in Seq({"plain", "special"})
            OBVIOUS
          <5> QED BY <1>4, <1>8, <2>2, <4>2, <5>1, QuotedEmpty, QuotedTypes DEF TextOf
        <4> QED BY <4>1, <4>2
      <3> QED BY <1>12, <2>2, <3>1 DEF Value
    <2> QED BY <1>8, <2>1, <2>2
  <1> HIDE DEF value
  <1>15. MemberMade(i, key, new, item, said, value)
    BY <1>9, <1>11, <1>12, <1>13, <1>14 DEF MemberMade, n
  <1> QED BY <1>15

LEMMA MeantAddMember ==
  ASSUME MeantInv, NEW i \in DOMAIN held, NEW key \in Strings, NEW new \in Members,
         AddMember(i, key, new)
  PROVE  MeantInv'
  <1>1. at = "building" /\ at' = "building" /\ held' = held
    BY DEF AddMember
  <1>2. /\ FreedInv' /\ BuildingSays /\ ItemsFit(heap, texts) /\ RootsOK
        /\ meant \in Seq(Meaning) /\ DOMAIN meant = DOMAIN held
        /\ \A k \in DOMAIN held : held[k] \in DOMAIN heap \cup {Null}
    BY <1>1, BuildingFacts, FreedAddMember
  <1>3. PICK f : Describes(heap, texts, f) /\ \A k \in DOMAIN held : RootSays(f, k)
    BY <1>2 DEF BuildingSays
  <1>4. CASE UNCHANGED <<names, heap, texts, meant>>
    <2>1. Describes(heap', texts', f)
      BY <1>3, <1>4
    <2>2. \A k \in DOMAIN held' : /\ meant'[k].made <=> held'[k] # Null
                                  /\ held'[k] # Null => Tells(heap', f, held'[k], meant'[k])
      BY <1>1, <1>3, <1>4 DEF RootSays
    <2> QED BY <1>1, <1>2, <2>1, <2>2, MeantBuilds
  <1>5. CASE ~UNCHANGED <<names, heap, texts, meant>>
    <2> DEFINE n == names + 1
               c == held[i]
    <2>1. PICK item, said, value : MemberMade(i, key, new, item, said, value)
      BY <1>5, AddMemberMakes
    <2> DEFINE heap1 == With(heap, n, item)
    <2>2. Fresh(heap, texts, n, item, texts')
      BY <2>1 DEF MemberMade
    <2>3. /\ ItemsFit(heap1, texts') /\ DOMAIN heap1 = DOMAIN heap \cup {n}
          /\ heap1[n] = item /\ ~IsLinked(heap1, n)
          /\ \A m \in DOMAIN heap : /\ heap1[m] = heap[m]
                                    /\ ~IsLinked(heap, m) => ~IsLinked(heap1, m)
      <3>1. ItemsFit(heap, texts) /\ Describes(heap, texts, f)
        BY <1>2, <1>3
      <3> HIDE DEF n
      <3>2. FreshFits(heap, n, item, With(heap, n, item), texts')
        BY ONLY <2>2, <3>1, FreshItem
      <3> QED BY ONLY <3>2 DEF FreshFits, heap1
    <2>4. FreshSays(heap, f, n, heap1, texts')
      <3>1. ItemsFit(heap, texts) /\ Describes(heap, texts, f)
        BY <1>2, <1>3
      <3> HIDE DEF n
      <3> QED BY ONLY <2>2, <3>1, FreshTells DEF heap1
    <2>5. n \notin DOMAIN heap /\ item.next = Null
      BY <2>2 DEF Fresh
    <2>6. PICK g : /\ Describes(heap1, texts', g) /\ RootsTell(heap, f, heap1, g)
                   /\ \A o \in BOOLEAN : g[n][o] = Entry(heap1, texts', f, n, o)
      BY <2>4 DEF FreshSays
    <2>7. /\ heap' = IF c = Null THEN heap1 ELSE Linked(heap1, c, n)
          /\ meant' = IF c = Null THEN meant
                      ELSE [meant EXCEPT ![i] = Saying(meant[i], said, value)]
          /\ said \in Seq({"plain", "special"}) /\ value \in Seq(Characters)
      BY <2>1 DEF MemberMade
    <2>8. c # Null /\ meant[i].kind = "object" => TextOf(texts', item.string) = Quoted(said)
      BY <2>1 DEF MemberMade
    <2>9. Value(heap1, texts', f, n) = value
      <3>1. \A items, h : items[n] = item => Value(items, texts', h, n) = value
        BY <2>1 DEF MemberMade
      <3> HIDE DEF n, heap1
      <3> QED BY <2>3, <3>1
    <2>10. \A k \in DOMAIN held : held[k] # Null =>
              /\ held[k] \in DOMAIN heap /\ heap[held[k]].next = Null
              /\ ~IsLinked(heap, held[k]) /\ Tells(heap, f, held[k], meant[k])
              /\ (k # i => held[k] # c)
      BY <1>2, <1>3 DEF RootsOK, RootSays
    <2> HIDE DEF n, c, heap1
    <2>11. \A k \in DOMAIN held : held[k] # Null => Tells(heap1, g, held[k], meant[k])
      BY <2>6, <2>10 DEF RootsTell
    <2>12. \A k \in DOMAIN held : meant[k].made <=> held[k] # Null
      BY <1>3 DEF RootSays
    <2>13. CASE c = Null
      <3>1. heap' = heap1 /\ meant' = meant
        BY <2>7, <2>13
      <3>2. \A k \in DOMAIN held' : /\ meant'[k].made <=> held'[k] # Null
                                    /\ held'[k] # Null => Tells(heap', g, held'[k], meant'[k])
        BY <1>1, <2>11, <2>12, <3>1
      <3>3. Describes(heap', texts', g)
        BY <2>6, <3>1
      <3> QED BY <1>1, <1>2, <3>2, <3>3, MeantBuilds
    <2>14. CASE c # Null
      <3>1. Roots(heap1, c, n)
        BY <2>3, <2>5, <2>10, <2>14 DEF Roots, c
      <3> DEFINE m == meant[i]
                 o == m.kind = "object"
      <3>2. m \in Meaning
        BY <1>2
      <3>3. Tells(heap1, g, c, m)
        BY <2>11, <2>14 DEF c
      <3>4. g[n][o] = (IF m.kind = "object" THEN Quoted(said) \o <<":">> ELSE << >>) \o value
        <4>1. g[n][o] = Entry(heap1, texts', f, n, o)
          BY <2>6
        <4>2. Entry(heap1, texts', f, n, o)
                = (IF o THEN TextOf(texts', item.string) \o <<":">> ELSE << >>) \o value
          BY <2>3, <2>9 DEF Entry
        <4>3. CASE o
          BY <2>8, <2>14, <4>1, <4>2, <4>3
        <4>4. CASE ~o
          BY <4>1, <4>2, <4>4
        <4> QED BY <4>3, <4>4
      <3> HIDE DEF m
      <3>5. Adds(heap1, texts', g, c, n, m, said, value)
        BY <2>3, <2>6, <2>7, <3>1, <3>2, <3>3, <3>4, Zenon DEF Adds
      <3>6. AddedSays(heap1, texts', g, c, n, Saying(m, said, value))
        BY ONLY <3>5, MemberSaid
      <3>7. PICK h : /\ Describes(heap', texts', h)
                     /\ OthersSay(heap1, g, heap', h, c)
                     /\ Tells(heap', h, c, Saying(m, said, value))
        BY <2>7, <2>14, <3>6 DEF AddedSays
      <3>8. /\ meant' = [meant EXCEPT ![i] = Saying(m, said, value)]
            /\ Saying(m, said, value).made = m.made
        <4>1. Saying(m, said, value).made = m.made
          BY <3>2 DEF Saying, Meaning
        <4> QED BY <2>7, <2>14, <4>1 DEF m
      <3>9. ASSUME NEW k \in DOMAIN held, held[k] # Null PROVE Tells(heap', h, held[k], meant'[k])
        <4>1. CASE k = i
          BY <1>2, <3>7, <3>8, <4>1 DEF c
        <4>2. CASE k # i
          <5>1. /\ held[k] \in DOMAIN heap1 /\ ~IsLinked(heap1, held[k]) /\ held[k] # c
                /\ Tells(heap1, g, held[k], meant[k])
            BY <2>3, <2>10, <2>11, <3>9, <4>2
          <5>2. meant'[k] = meant[k]
            BY <1>2, <3>8, <4>2
          <5>3. heap'[held[k]].type = heap1[held[k]].type
            <6>1. ListsOK(heap1) /\ c \in DOMAIN heap1 /\ n \in DOMAIN heap1
              BY <2>3, <3>1 DEF ItemsFit, Roots
            <6> QED BY <2>7, <2>14, <5>1, <6>1, LinkedKinds
          <5> QED BY <3>7, <5>1, <5>2, <5>3, OthersTell
        <4> QED BY <4>1, <4>2
      <3>10. \A k \in DOMAIN held : meant'[k].made <=> held[k] # Null
        BY <1>2, <2>12, <3>8 DEF m
      <3> QED BY <1>1, <1>2, <3>7, <3>9, <3>10, MeantBuilds
    <2> QED BY <2>13, <2>14
  <1> QED BY <1>4, <1>5

\* A root gets a key, or none.
LabelledOK(items, n, p, new, keyed) ==
  /\ DOMAIN new = DOMAIN items /\ new \in ItemsOn(DOMAIN items)
  /\ \A m \in DOMAIN items :
        /\ new[m].next = items[m].next /\ new[m].child = items[m].child
        /\ new[m].type = items[m].type /\ new[m].valuestring = items[m].valuestring
        /\ m # n => new[m] = items[m]
  /\ new[n].string = (IF keyed THEN p ELSE items[n].string)

WithKey(items, n, p, keyed) == IF keyed THEN [items EXCEPT ![n].string = p] ELSE items

LEMMA LabelledFits ==
  ASSUME NEW items, ListsOK(items), NEW n \in DOMAIN items, NEW p \in Nat, NEW keyed \in BOOLEAN,
         NEW new, new = WithKey(items, n, p, keyed)
  PROVE  LabelledOK(items, n, p, new, keyed) /\ ListsOK(new)
         /\ \A m : IsLinked(new, m) <=> IsLinked(items, m)
  <1> DEFINE D == DOMAIN items
  <1>1. /\ items \in ItemsOn(D) /\ D \in SUBSET (Nat \ {Null})
    BY DEF ListsOK
  <1>2. LabelledOK(items, n, p, new, keyed)
    <2>1. CASE keyed
      <3>1. new = [items EXCEPT ![n].string = p]
        BY <2>1 DEF WithKey
      <3>2. items[n] \in Item /\ items \in [D -> Item]
        BY <1>1 DEF ItemsOn
      <3>3. /\ new[n].next = items[n].next /\ new[n].child = items[n].child
            /\ new[n].type = items[n].type
            /\ new[n].valuestring = items[n].valuestring /\ new[n].string = p
            /\ \A m \in D : m # n => new[m] = items[m]
        BY <3>1, <3>2 DEF Item
      <3>4. new \in ItemsOn(D)
        <4>1. [items[n] EXCEPT !.string = p] \in Item
          BY <3>2 DEF Item
        <4>2. \A m \in D : new[m] = IF m = n THEN [items[n] EXCEPT !.string = p] ELSE items[m]
          BY <3>1
        <4>3. new = [m \in D |-> new[m]]
          BY <3>1
        <4>4. \A m \in D : new[m] \in Item
          BY <3>2, <4>1, <4>2
        <4> QED BY ONLY <4>3, <4>4 DEF ItemsOn
      <3>5. DOMAIN new = D
        BY <3>1
      <3> QED BY <2>1, <3>3, <3>4, <3>5 DEF LabelledOK
    <2>2. CASE ~keyed
      BY <1>1, <2>2 DEF LabelledOK, WithKey
    <2> QED BY <2>1, <2>2
  <1>3. ListsOK(new)
    <2> HIDE DEF LabelledOK
    <2>1. /\ DOMAIN new = DOMAIN items /\ new \in ItemsOn(DOMAIN items)
          /\ \A m \in DOMAIN items : /\ new[m].next = items[m].next
                                     /\ new[m].child = items[m].child
      BY <1>2 DEF LabelledOK
    <2>2. /\ DOMAIN items \in SUBSET (Nat \ {Null})
          /\ Closed(items, DOMAIN items) /\ Ended(items) /\ Sole(items)
      BY DEF ListsOK
    <2> QED BY ONLY <2>1, <2>2 DEF ListsOK, Closed, Ended, Sole
  <1>4. \A m : IsLinked(new, m) <=> IsLinked(items, m)
    BY <1>2 DEF LabelledOK, IsLinked
  <1> QED BY <1>2, <1>3, <1>4

\* A root of the tree that is told of can be printed as a value.
LEMMA TellsValue ==
  ASSUME NEW items, NEW t, NEW f, NEW n, NEW m \in Meaning, Tells(items, f, n, m)
  PROVE  Value(items, t, f, n) = Said(m)
  <1>1. m.kind \in Kinds
    BY DEF Meaning
  <1>2. Value(items, t, f, n)
           = <<Opening(m.kind)>> \o (List(f, items[n].child, m.kind = "object")
                                     \o <<Closing(m.kind)>>)
    BY <1>1 DEF Value, Tells, Kinds
  <1> QED BY <1>2, SaidFlat DEF Tells

\* What remains when an entry is taken out of two sequences.
LEMMA BothWithout ==
  ASSUME NEW S, NEW T, NEW s \in Seq(S), NEW t \in Seq(T), Len(s) = Len(t), NEW i \in DOMAIN s
  PROVE  \A k \in DOMAIN Without(s, i) :
            \E l \in DOMAIN s \ {i} : Without(s, i)[k] = s[l] /\ Without(t, i)[k] = t[l]
  <1>1. i \in DOMAIN t /\ DOMAIN t = DOMAIN s
    OBVIOUS
  <1>2. /\ Len(Without(s, i)) = Len(s) - 1 /\ Len(Without(t, i)) = Len(t) - 1
        /\ \A k \in DOMAIN Without(s, i) : /\ (IF k < i THEN k ELSE k + 1) \in DOMAIN s \ {i}
                                           /\ Without(s, i)[k] = s[IF k < i THEN k ELSE k + 1]
        /\ \A k \in DOMAIN Without(t, i) : Without(t, i)[k] = t[IF k < i THEN k ELSE k + 1]
    BY <1>1, WithoutEntries
  <1>3. Without(s, i) \in Seq(S) /\ Without(t, i) \in Seq(T)
    BY <1>1, WithoutTypes
  <1>4. DOMAIN Without(s, i) = DOMAIN Without(t, i)
    BY <1>2, <1>3
  <1> QED BY <1>2, <1>4

LEMMA MeantAttach ==
  ASSUME MeantInv, NEW i \in DOMAIN held, NEW j \in DOMAIN held, NEW key \in Strings,
         Attach(i, j, key)
  PROVE  MeantInv'
  <1>1. at = "building" /\ at' = "building" /\ i # j /\ held' = Without(held, i)
    BY DEF Attach
  <1>2. /\ FreedInv' /\ BuildingSays /\ ItemsFit(heap, texts) /\ RootsOK
        /\ held \in Seq(Nat) /\ meant \in Seq(Meaning) /\ DOMAIN meant = DOMAIN held
        /\ Len(meant) = Len(held) /\ names + 1 \in Nat \ {Null} /\ names \in Nat
        /\ DOMAIN texts \subseteq 1 .. names
        /\ \A k \in DOMAIN held : held[k] \in DOMAIN heap \cup {Null}
    BY <1>1, BuildingFacts, FreedAttach DEF MeantInv
  <1>3. PICK f : Describes(heap, texts, f) /\ \A k \in DOMAIN held : RootSays(f, k)
    BY <1>2 DEF BuildingSays
  <1>4. ASSUME NEW new \in Seq(Meaning), Len(new) = Len(meant), meant' = Without(new, i),
               NEW g, Describes(heap', texts', g),
               \A l \in DOMAIN held \ {i} :
                  /\ new[l].made <=> held[l] # Null
                  /\ held[l] # Null => Tells(heap', g, held[l], new[l])
        PROVE  MeantInv'
    <2>1. \A k \in DOMAIN held' : \E l \in DOMAIN held \ {i} : held'[k] = held[l] /\ meant'[k] = new[l]
      BY SMTT(30), <1>1, <1>2, <1>4, BothWithout
    <2>2. \A k \in DOMAIN held' : /\ meant'[k].made <=> held'[k] # Null
                                  /\ held'[k] # Null => Tells(heap', g, held'[k], meant'[k])
      BY <1>4, <2>1
    <2> QED BY <1>1, <1>2, <1>4, <2>2, MeantBuilds
  <1>5. ASSUME meant' = Without(meant, i), UNCHANGED <<heap, texts, names, failed>>
        PROVE  MeantInv'
    <2>1. Describes(heap', texts', f)
      BY <1>3, <1>5
    <2>2. \A l \in DOMAIN held \ {i} : /\ meant[l].made <=> held[l] # Null
                                       /\ held[l] # Null => Tells(heap', f, held[l], meant[l])
      BY <1>3, <1>5 DEF RootSays
    <2> QED BY <1>2, <1>4, <1>5, <2>1, <2>2
  <1>6. ASSUME NEW keyed \in {meant[j].kind = "object", FALSE}, Null \notin {held[i], held[j]},
               NEW heap1,
               heap1 = IF keyed THEN [heap EXCEPT ![held[i]].string = names + 1] ELSE heap,
               heap' = Linked(heap1, held[j], held[i]),
               NEW said, said = IF keyed THEN key ELSE << >>,
               meant' = Without([meant EXCEPT ![j] = Saying(@, said, Said(meant[i]))], i),
               texts' = IF keyed THEN With(texts, names + 1, key) ELSE texts
        PROVE  MeantInv'
    <2> DEFINE n == held[i]
               c == held[j]
               p == names + 1
               m == meant[j]
               value == Said(meant[i])
    <2>0. \A k \in DOMAIN held : held[k] # Null =>
             /\ held[k] \in DOMAIN heap /\ ~IsLinked(heap, held[k])
             /\ heap[held[k]].next = Null /\ heap[held[k]].string = Null
             /\ Tells(heap, f, held[k], meant[k])
             /\ \A l \in DOMAIN held : held[k] = held[l] => k = l
      BY <1>2, <1>3 DEF RootsOK, RootSays
    <2>m. \A k \in DOMAIN held : meant[k].made <=> held[k] # Null
      BY <1>3 DEF RootSays
    <2>k. /\ keyed \in BOOLEAN /\ (keyed => m.kind = "object") /\ ListsOK(heap) /\ p \in Nat
          /\ meant[i] \in Meaning /\ m \in Meaning
      <3>1. ListsOK(heap) /\ p \in Nat
        BY <1>2 DEF ItemsFit
      <3>2. meant[i] \in Meaning /\ m \in Meaning
        BY <1>2
      <3>3. keyed \in BOOLEAN /\ (keyed => m.kind = "object")
        OBVIOUS
      <3> QED BY <3>1, <3>2, <3>3
    <2>1. /\ keyed \in BOOLEAN /\ (keyed => m.kind = "object") /\ ListsOK(heap) /\ p \in Nat
          /\ n \in DOMAIN heap /\ c \in DOMAIN heap /\ n # c
          /\ heap[n].next = Null /\ heap[n].string = Null /\ heap[c].next = Null
          /\ ~IsLinked(heap, n) /\ ~IsLinked(heap, c)
          /\ meant[i] \in Meaning /\ m \in Meaning
          /\ \A k \in DOMAIN held : held[k] # Null =>
                /\ held[k] \in DOMAIN heap /\ ~IsLinked(heap, held[k])
                /\ Tells(heap, f, held[k], meant[k])
                /\ (k # i => held[k] # n) /\ (k # j => held[k] # c)
          /\ \A k \in DOMAIN held : meant[k].made <=> held[k] # Null
      <3>1. held[i] # Null /\ held[j] # Null
        BY <1>6
      <3>2. \A k \in DOMAIN held : held[k] # Null =>
               /\ held[k] \in DOMAIN heap /\ ~IsLinked(heap, held[k])
               /\ Tells(heap, f, held[k], meant[k])
               /\ (k # i => held[k] # n) /\ (k # j => held[k] # c)
        BY <2>0
      <3>3. n # c /\ n \in DOMAIN heap /\ c \in DOMAIN heap
        BY <1>1, <2>0, <3>1
      <3>4. /\ heap[n].next = Null /\ heap[n].string = Null /\ heap[c].next = Null
            /\ ~IsLinked(heap, n) /\ ~IsLinked(heap, c)
        BY <2>0, <3>1
      <3> QED BY ONLY <2>k, <2>m, <3>2, <3>3, <3>4
    <2>2. LabelledOK(heap, n, p, heap1, keyed) /\ ListsOK(heap1)
          /\ \A k : IsLinked(heap1, k) <=> IsLinked(heap, k)
      <3> HIDE DEF n, c, p, m, value
      <3>1. heap1 = WithKey(heap, n, p, keyed)
        BY <1>6 DEF n, p, WithKey
      <3>2. ListsOK(heap) /\ n \in DOMAIN heap /\ p \in Nat /\ keyed \in BOOLEAN
        BY <2>1
      <3> QED BY ONLY <3>1, <3>2, LabelledFits
    <2>3. said \in Seq({"plain", "special"}) /\ value \in Seq(Characters)
      BY <1>6, <2>1, AnswerAssumption, MembersSaid
    <2>4. /\ texts' \in [DOMAIN texts' -> Strings] /\ Null \notin DOMAIN texts'
          /\ \A q \in DOMAIN texts : q \in DOMAIN texts' /\ texts'[q] = texts[q]
          /\ keyed => p \in DOMAIN texts' /\ texts'[p] = key
      <3>1. p \notin DOMAIN texts /\ texts \in [DOMAIN texts -> Strings] /\ Null \notin DOMAIN texts
            /\ p # Null
        BY <1>2 DEF ItemsFit
      <3> HIDE DEF p
      <3>2. CASE keyed
        BY <1>6, <3>1, <3>2 DEF With, p
      <3>3. CASE ~keyed
        BY <1>6, <3>1, <3>3
      <3> QED BY <3>2, <3>3
    <2> HIDE DEF n, c, p, value, m
    <2>5. ItemsFit(heap1, texts')
      <3>1. \A k \in DOMAIN heap : /\ heap[k].string \in DOMAIN texts \cup {Null}
                                   /\ heap[k].valuestring \in DOMAIN texts \cup {Null}
        BY <1>2 DEF ItemsFit
      <3>2. ASSUME NEW k \in DOMAIN heap1
            PROVE  /\ heap1[k].string \in DOMAIN texts' \cup {Null}
                   /\ heap1[k].valuestring \in DOMAIN texts' \cup {Null}
        <4>1. CASE k = n
          BY <2>1, <2>2, <2>4, <3>1, <4>1 DEF LabelledOK
        <4>2. CASE k # n
          BY <2>2, <2>4, <3>1, <4>2 DEF LabelledOK
        <4> QED BY <4>1, <4>2
      <3> QED BY <2>2, <2>4, <3>2 DEF ItemsFit
    <2>6. /\ DOMAIN heap1 = DOMAIN heap /\ heap1[n].next = Null
          /\ heap1[n].child = heap[n].child /\ heap1[n].type = heap[n].type
          /\ heap1[n].string = (IF keyed THEN p ELSE Null)
          /\ \A k \in DOMAIN heap : k # n => heap1[k] = heap[k]
          /\ \A k \in DOMAIN heap : heap[k].child # n /\ heap[k].child \in DOMAIN heap \cup {Null}
          /\ heap1[c].next = Null /\ ~IsLinked(heap1, n) /\ ~IsLinked(heap1, c)
      <3>1. \A k \in DOMAIN heap : heap[k].child # n /\ heap[k].child \in DOMAIN heap \cup {Null}
        BY <2>1 DEF IsLinked, ListsOK, Closed
      <3> QED BY <2>1, <2>2, <3>1 DEF LabelledOK
    <2>7. PICK g : /\ Describes(heap1, texts', g)
                   /\ \A k \in DOMAIN heap \ {n} : g[k] = f[k]
                   /\ \A o \in BOOLEAN : g[n][o] = Entry(heap1, texts', f, n, o)
      <3>1. /\ \A q \in DOMAIN texts : texts'[q] = texts[q]
            /\ DOMAIN heap1 = DOMAIN heap \cup {n}
            /\ \A k \in DOMAIN heap \ {n} : heap1[k] = heap[k]
            /\ heap1[n].child \in (DOMAIN heap \ {n}) \cup {Null}
        BY <2>1, <2>4, <2>6
      <3>2. ItemsFit(heap, texts) /\ Describes(heap, texts, f)
        BY <1>2, <1>3
      <3>3. ~IsLinked(heap, n) /\ heap1[n].next = Null /\ ItemsFit(heap1, texts')
        BY <2>1, <2>5, <2>6
      <3>4. ReplacedBy(heap, texts, f, heap1, texts', n)
        BY ONLY <3>1, <3>2, <3>3 DEF ReplacedBy
      <3>5. ReplacedSays(heap, texts, f, heap1, texts', n)
        BY ONLY <3>4, ReplacedWell
      <3>6. \E g : /\ Describes(heap1, texts', g)
                   /\ \A k \in DOMAIN heap \ {n} : g[k] = f[k]
                   /\ \A o \in BOOLEAN : g[n][o] = Entry(heap1, texts', f, n, o)
        BY ONLY <3>5 DEF ReplacedSays
      <3> QED BY ONLY <3>6
    <2>8. Value(heap1, texts', f, n) = value
      <3>1. Tells(heap1, f, n, meant[i])
        BY <1>6, <2>1, <2>6 DEF Tells, n
      <3> QED BY <2>1, <3>1, TellsValue DEF value
    <2>9. ASSUME NEW k \in DOMAIN held, k # i, held[k] # Null
          PROVE Tells(heap1, g, held[k], meant[k])
      <3> DEFINE r == held[k]
      <3>1. r \in DOMAIN heap \ {n} /\ heap1[r] = heap[r] /\ Tells(heap, f, r, meant[k])
        BY <2>1, <2>6, <2>9
      <3> HIDE DEF r
      <3>2. ASSUME NEW o PROVE List(g, heap[r].child, o) = List(f, heap[r].child, o)
        <4>1. heap[r].child # Null => heap[r].child \in DOMAIN heap \ {n}
          BY <2>6, <3>1
        <4>2. heap[r].child # Null => g[heap[r].child] = f[heap[r].child]
          BY <2>7, <4>1
        <4> QED BY <4>2 DEF List
      <3>3. Tells(heap1, g, r, meant[k])
        BY <3>1, <3>2 DEF Tells
      <3> QED BY <3>3 DEF r
    <2>10. g[n][m.kind = "object"]
             = (IF m.kind = "object" THEN Quoted(said) \o <<":">> ELSE << >>) \o value
      <3>1. m.kind = "object" => TextOf(texts', heap1[n].string) = Quoted(said)
        <4>1. CASE keyed
          <5>1. p # Null
            BY <2>4, <4>1
          <5> QED BY <1>6, <2>4, <2>6, <4>1, <5>1 DEF TextOf
        <4>2. CASE ~keyed
          BY <1>6, <2>6, <4>2, QuotedEmpty DEF TextOf
        <4> QED BY <2>1, <4>1, <4>2
      <3> DEFINE o == m.kind = "object"
      <3>2. g[n][o] = Entry(heap1, texts', f, n, o)
        BY <2>7
      <3>3. Entry(heap1, texts', f, n, o)
              = (IF o THEN TextOf(texts', heap1[n].string) \o <<":">> ELSE << >>) \o value
        BY <2>8 DEF Entry
      <3>4. CASE o
        BY <3>1, <3>2, <3>3, <3>4
      <3>5. CASE ~o
        BY <3>2, <3>3, <3>5
      <3> QED BY <3>4, <3>5
    <2>11. Roots(heap1, c, n) /\ Tells(heap1, g, c, m)
      <3>1. Roots(heap1, c, n)
        BY <2>1, <2>6 DEF Roots
      <3> QED BY <1>1, <1>6, <2>9, <3>1 DEF c, m
    <2>12. Adds(heap1, texts', g, c, n, m, said, value)
      BY <2>1, <2>3, <2>5, <2>7, <2>10, <2>11, Zenon DEF Adds
    <2>13. AddedSays(heap1, texts', g, c, n, Saying(m, said, value))
      BY ONLY <2>12, MemberSaid
    <2>14. heap' = Linked(heap1, c, n)
      BY <1>6 DEF c, n
    <2>15. PICK h : /\ Describes(heap', texts', h)
                    /\ OthersSay(heap1, g, heap', h, c)
                    /\ Tells(heap', h, c, Saying(m, said, value))
      BY <2>13, <2>14 DEF AddedSays
    <2> DEFINE more == Saying(m, said, value)
               new == [meant EXCEPT ![j] = more]
    <2>16. more \in Meaning /\ more.made = m.made
      <3>1. more \in Meaning
        BY <2>1, <2>3, SayingTypes
      <3>2. more.made = m.made
        BY <2>1 DEF Saying, Meaning
      <3> QED BY <3>1, <3>2
    <2>17. meant' = Without(new, i)
      BY <1>6 DEF m, value
    <2> HIDE DEF more
    <2>18. /\ new \in Seq(Meaning) /\ Len(new) = Len(meant) /\ new[j] = more
           /\ \A k \in DOMAIN held : k # j => new[k] = meant[k]
      BY <1>2, <2>16
    <2> HIDE DEF new
    <2>19. ASSUME NEW l \in DOMAIN held \ {i}, held[l] # Null PROVE Tells(heap', h, held[l], new[l])
      <3>1. CASE l = j
        BY <2>15, <2>18, <3>1 DEF c, more
      <3>2. CASE l # j
        <4> DEFINE r == held[l]
                   a == new[l]
        <4>1. /\ r \in DOMAIN heap1 /\ ~IsLinked(heap1, r) /\ r # c /\ Tells(heap1, g, r, a)
          BY <2>1, <2>2, <2>6, <2>9, <2>18, <2>19, <3>2
        <4> HIDE DEF r, a
        <4>2. heap'[r].type = heap1[r].type
          <5>1. ListsOK(heap1) /\ c \in DOMAIN heap1 /\ n \in DOMAIN heap1
            BY <2>1, <2>2, <2>6
          <5> QED BY <2>14, <4>1, <5>1, LinkedKinds
        <4>3. Tells(heap', h, r, a)
          BY <2>15, <4>1, <4>2, OthersTell
        <4> QED BY <4>3 DEF r, a
      <3> QED BY <3>1, <3>2
    <2>20. \A l \in DOMAIN held \ {i} : new[l].made <=> held[l] # Null
      BY <2>1, <2>16, <2>18 DEF m
    <2> QED BY <1>4, <2>15, <2>17, <2>18, <2>19, <2>20
  <1>7. CASE Null \in {held[i], held[j]}
    BY <1>5, <1>7 DEF Attach
  <1>8. CASE Null \notin {held[i], held[j]}
    <2>1. PICK keyed \in {meant[j].kind = "object", FALSE} :
             LET heap1 == IF keyed THEN [heap EXCEPT ![held[i]].string = names + 1] ELSE heap
             IN  /\ heap' = Linked(heap1, held[j], held[i])
                 /\ meant' = Without([meant EXCEPT ![j] =
                                Saying(@, IF keyed THEN key ELSE << >>, Said(meant[i]))], i)
                 /\ IF keyed
                    THEN names' = names + 1 /\ texts' = With(texts, names', key)
                    ELSE UNCHANGED <<names, texts>>
      BY <1>8 DEF Attach
    <2>2. texts' = IF keyed THEN With(texts, names + 1, key) ELSE texts
      BY <2>1
    <2> QED BY <1>6, <1>8, <2>1, <2>2
  <1> QED BY <1>7, <1>8

LEMMA MeantEnds == ASSUME MeantInv, DeleteTree \/ Send PROVE MeantInv'
  <1>1. FreedInv'
    BY FreedDelete, FreedSend DEF MeantInv
  <1>2. CASE DeleteTree
    <2>1. /\ at = "printed" /\ at' = "sending"
          /\ UNCHANGED <<meant, failed, buffer, written>>
      BY <1>2 DEF DeleteTree, printer
    <2>2. Said(meant'[1]) = Said(meant[1])
      BY <2>1
    <2> QED BY <1>1, <2>1, <2>2 DEF MeantInv, AnswerSaysWhatWasMeant
  <1>3. CASE Send
    BY <1>1, <1>3 DEF MeantInv, AnswerSaysWhatWasMeant, Send
  <1> QED BY <1>2, <1>3

LEMMA MeantStutters == ASSUME MeantInv, UNCHANGED vars PROVE MeantInv'
  <1>1. UNCHANGED <<held, heap, texts, meant, buffer, written, todo, failed, at>>
    BY DEF vars, tree, printer
  <1>2. FreedInv'
    BY FreedStutters DEF MeantInv
  <1>3. BuildingSays' = BuildingSays
    BY <1>1 DEF BuildingSays, RootSays
  <1>4. ASSUME NEW f PROVE Say(f, todo)' = Say(f, todo)
    BY <1>1
  <1>5. PrintingSays' = PrintingSays
    BY <1>1 DEF PrintingSays
  <1>6. AnswerSaysWhatWasMeant' = AnswerSaysWhatWasMeant
    BY <1>1 DEF AnswerSaysWhatWasMeant
  <1> QED BY <1>1, <1>2, <1>3, <1>5, <1>6 DEF MeantInv

\* Whatever a handler builds, however the buffer grows and whichever allocation
\* fails: an answer that is sent says what was put in, in that order, and there
\* is none only without its outermost container or without a buffer.
THEOREM AnswersSayWhatWasMeant == Spec => []AnswerSaysWhatWasMeant
  <1>1. MeantInv /\ [Next]_vars => MeantInv'
    <2> SUFFICES ASSUME MeantInv, [Next]_vars PROVE MeantInv'
      OBVIOUS
    <2>1. ASSUME NEW kind \in Kinds, Create(kind) PROVE MeantInv'
      BY <2>1, MeantCreate
    <2>2. ASSUME NEW i \in DOMAIN held, NEW key \in Strings, NEW new \in Members,
                 AddMember(i, key, new)
          PROVE  MeantInv'
      BY <2>2, MeantAddMember
    <2>3. ASSUME NEW i \in DOMAIN held, NEW j \in DOMAIN held, NEW key \in Strings,
                 Attach(i, j, key)
          PROVE  MeantInv'
      BY <2>3, MeantAttach
    <2>4. CASE Respond \/ Write \/ Walk \/ EndPrint
      BY <2>4, MeantRespond, MeantWrite, MeantWalk, MeantEndPrint
    <2>5. CASE DeleteTree \/ Send
      BY <2>5, MeantEnds
    <2>6. CASE UNCHANGED vars
      BY <2>6, MeantStutters
    <2> QED BY <2>1, <2>2, <2>3, <2>4, <2>5, <2>6 DEF Next
  <1>2. MeantInv => AnswerSaysWhatWasMeant
    BY DEF MeantInv
  <1> QED BY MeantInit, <1>1, <1>2, PTL DEF Spec
================================================================================
