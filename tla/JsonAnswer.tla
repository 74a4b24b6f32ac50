------------------------------- MODULE JsonAnswer -------------------------------
(***************************************************************************)
(* How an answer comes about: a handler builds a tree of items with the    *)
(* functions of utils/cJSON.c, server_dispatch_api prints it into a buffer *)
(* that grows and deletes the tree, and handle_http_client sends what was  *)
(* printed and frees it.  No handler looks at the result of an allocation. *)
(*                                                                         *)
(* A character is "plain", or "special" when it is printed with a back-    *)
(* slash; a number, true, false or null is a sequence of "digit"s.  Blocks *)
(* are numbered as they are allocated and no number is used twice.         *)
(*                                                                         *)
(* `meant` is a history variable: what each container would say if it were *)
(* printed, put together as the handler calls and not from the items.      *)
(***************************************************************************)
EXTENDS Integers, Sequences, JsonHeap

CONSTANTS
    Strings,        \* keys and values handlers pass, in plain and special characters
    Scalars,        \* printed numbers and literals
    InitialSize,    \* 256
    StringSlack,    \* 16
    MaxCalls        \* bound: items a handler asks for

Characters == {"plain", "special", "backslash", "digit", "quote",
               "[", "]", "{", "}", ",", ":"}

ASSUME AnswerAssumption ==
    /\ Strings \subseteq Seq({"plain", "special"})
    /\ Scalars \subseteq Seq({"digit"})
    /\ InitialSize \in Nat \ {0} /\ StringSlack \in Nat
    /\ MaxCalls \in Nat \ {0}

VARIABLES
    held,        \* the containers the handler has a pointer to
    heap,        \* items allocated and not freed
    texts,       \* copies of strings allocated and not freed
    buffers,     \* print buffers allocated and not freed
    names,       \* blocks allocated so far
    calls,       \* items asked for so far
    failed,      \* what could not be allocated
    buffer,      \* the buffer printed into, later the answer
    length,      \* its size
    written,     \* its contents; the offset is their length
    todo,        \* what is left to print
    at,
    meant

tree    == <<held, heap, texts, meant, calls>>
printer == <<buffers, buffer, length, written, todo>>
vars    == <<tree, printer, names, failed, at>>

Kinds == {"array", "object"}

Item == [type : Kinds \cup {"text", "scalar"}, next : Nat, child : Nat,
         string : Nat, valuestring : Nat, value : Scalars \cup {<< >>}]

NewItem(type, string, valuestring, value) ==
    [type |-> type, next |-> Null, child |-> Null, string |-> string,
     valuestring |-> valuestring, value |-> value]

\* What is left to print: some characters, for which the code reserves `need`
\* bytes, or the list of children that starts with an item.
Put(need, text)      == [do |-> "put", need |-> need, text |-> text]
Rest(item, inObject) == [do |-> "rest", item |-> item, inObject |-> inObject]

Tasks == {t \in [do : {"put"}, need : Nat, text : Seq(Characters)] : Len(t.text) <= t.need}
         \cup [do : {"rest"}, item : Nat, inObject : BOOLEAN]

Meaning == [kind : Kinds, made : BOOLEAN, members : Seq(Seq(Characters))]

ItemsOK ==
    /\ held \in Seq(Nat)
    /\ names \in Nat /\ calls \in 0 .. MaxCalls
    /\ DOMAIN heap \subseteq 1 .. names /\ heap \in [DOMAIN heap -> Item]
    /\ DOMAIN texts \subseteq 1 .. names /\ texts \in [DOMAIN texts -> Strings]
    /\ failed \subseteq {"container", "member", "buffer"}
    /\ buffers \subseteq 1 .. names
    /\ buffer \in Nat /\ length \in Nat
    /\ written \in Seq(Characters) /\ todo \in Seq(Tasks)
    /\ at \in {"building", "printing", "printed", "sending", "done"}

TypeOK == ItemsOK /\ meant \in Seq(Meaning)

(***************************************************************************)
(* Sequences of characters.                                                *)
(***************************************************************************)
Escaped(c) == IF c = "special" THEN <<"backslash", c>> ELSE <<c>>

Quoted(s) ==
    LET from[i \in 1 .. Len(s) + 1] ==
            IF i > Len(s) THEN <<"quote">> ELSE Escaped(s[i]) \o from[i + 1]
    IN  <<"quote">> \o from[1]

Opening(kind) == IF kind = "array" THEN "[" ELSE "{"
Closing(kind) == IF kind = "array" THEN "]" ELSE "}"

\* A container with these members.
Said(m) ==
    LET from[i \in 1 .. Len(m.members) + 1] ==
            IF i > Len(m.members) THEN <<Closing(m.kind)>>
            ELSE (IF i > 1 THEN <<",">> ELSE << >>) \o m.members[i] \o from[i + 1]
    IN  <<Opening(m.kind)>> \o from[1]

\* m with one more member: the value and, in an object, its key.
Saying(m, key, value) ==
    LET label == IF m.kind = "object" THEN Quoted(key) \o <<":">> ELSE << >>
    IN  [m EXCEPT !.members = Append(@, label \o value)]

Without(s, i) == SubSeq(s, 1, i - 1) \o SubSeq(s, i + 1, Len(s))

(***************************************************************************)
(* Building.                                                               *)
(***************************************************************************)
Init ==
    /\ held = << >> /\ heap = << >> /\ texts = << >> /\ buffers = {}
    /\ names = 0 /\ calls = 0 /\ failed = {}
    /\ buffer = Null /\ length = 0 /\ written = << >> /\ todo = << >>
    /\ at = "building"
    /\ meant = << >>

With(f, n, x) == [m \in DOMAIN f \cup {n} |-> IF m = n THEN x ELSE f[m]]

\* cJSON_CreateArray and cJSON_CreateObject, which may return NULL.
Create(kind) ==
    /\ at = "building" /\ calls < MaxCalls
    /\ calls' = calls + 1
    /\ \/ /\ names' = names + 1
          /\ heap' = With(heap, names', NewItem(kind, Null, Null, << >>))
          /\ held' = Append(held, names')
          /\ meant' = Append(meant, [kind |-> kind, made |-> TRUE, members |-> << >>])
          /\ UNCHANGED failed
       \/ /\ held' = Append(held, Null)
          /\ meant' = Append(meant, [kind |-> kind, made |-> FALSE, members |-> << >>])
          /\ failed' = failed \cup {"container"}
          /\ UNCHANGED <<names, heap>>
    /\ UNCHANGED <<texts, printer, at>>

\* cJSON_AddItemToArray: n becomes the last child of c.
Linked(items, c, n) ==
    LET last[m \in DOMAIN items] == IF items[m].next = Null THEN m ELSE last[items[m].next]
    IN  IF items[c].child = Null THEN [items EXCEPT ![c].child = n]
        ELSE [items EXCEPT ![last[items[c].child]].next = n]

\* cJSON_AddItemToObject(.., key, cJSON_CreateString(..)) and its likes, and
\* cJSON_AddItemToArray(.., cJSON_CreateString(..)): the item, the copy of the
\* value and the copy of the key may each be missing.  When the container is
\* missing the item is lost.
AddMember(i, key, new) ==
    LET c     == held[i]
        n     == names + 1
    IN
    /\ at = "building" /\ calls < MaxCalls
    /\ calls' = calls + 1
    /\ \/ \E copied \in {new.type = "text", FALSE},
             keyed  \in {c # Null /\ meant[i].kind = "object", FALSE} :
             LET v     == IF copied THEN n + 1 ELSE n
                 k     == IF keyed THEN v + 1 ELSE v
                 value == IF new.type = "scalar" THEN new.says
                          ELSE Quoted(IF copied THEN new.says ELSE << >>)
                 item  == NewItem(new.type, IF keyed THEN k ELSE Null,
                                  IF copied THEN v ELSE Null,
                                  IF new.type = "scalar" THEN new.says ELSE << >>)
             IN  /\ names' = k
                 /\ heap' = IF c = Null THEN With(heap, n, item)
                            ELSE Linked(With(heap, n, item), c, n)
                 /\ texts' = [m \in DOMAIN texts \cup (n + 1 .. k) |->
                                IF m \in DOMAIN texts THEN texts[m]
                                ELSE IF copied /\ m = v THEN new.says ELSE key]
                 /\ meant' = IF c = Null THEN meant
                             ELSE [meant EXCEPT ![i] =
                                     Saying(@, IF keyed THEN key ELSE << >>, value)]
                 /\ failed' = IF (new.type = "text" /\ ~copied)
                                 \/ (c # Null /\ meant[i].kind = "object" /\ ~keyed)
                              THEN failed \cup {"member"} ELSE failed
       \/ /\ failed' = failed \cup {"member"}
          /\ UNCHANGED <<names, heap, texts, meant>>
    /\ UNCHANGED <<held, printer, at>>

\* A container goes into another one; nothing is left to hold it by.
Attach(i, j, key) ==
    /\ at = "building" /\ i # j
    /\ held' = Without(held, i)
    /\ \/ /\ Null \in {held[i], held[j]}
          /\ meant' = Without(meant, i)
          /\ UNCHANGED <<heap, texts, names, failed>>
       \/ /\ Null \notin {held[i], held[j]}
          /\ \E keyed \in {meant[j].kind = "object", FALSE} :
                LET heap1 == IF keyed THEN [heap EXCEPT ![held[i]].string = names + 1] ELSE heap
                IN  /\ heap' = Linked(heap1, held[j], held[i])
                    /\ meant' = Without([meant EXCEPT ![j] =
                                   Saying(@, IF keyed THEN key ELSE << >>, Said(meant[i]))], i)
                    /\ IF keyed
                       THEN names' = names + 1 /\ texts' = With(texts, names', key)
                       ELSE UNCHANGED <<names, texts>>
                    /\ failed' = IF keyed \/ meant[j].kind = "array" THEN failed
                                 ELSE failed \cup {"member"}
    /\ UNCHANGED <<calls, printer, at>>

(***************************************************************************)
(* Printing.                                                               *)
(***************************************************************************)

\* print_string.
StringTasks(s) ==
    <<Put(Len(s) + 2 + StringSlack, <<"quote">>)>>
    \o [i \in 1 .. Len(s) |-> Put(Len(Escaped(s[i])), Escaped(s[i]))]
    \o <<Put(1, <<"quote">>)>>

TextTasks(p) ==
    IF p = Null THEN <<Put(2, <<"quote", "quote">>)>> ELSE StringTasks(texts[p])

\* print_value, print_number, and the ends of print_array and print_object.
ValueTasks(n) ==
    LET node == heap[n]
    IN  CASE node.type = "scalar" -> <<Put(Len(node.value), node.value)>>
          [] node.type = "text"   -> TextTasks(node.valuestring)
          [] OTHER -> <<Put(1, <<Opening(node.type)>>),
                        Rest(node.child, node.type = "object"),
                        Put(1, <<Closing(node.type)>>)>>

\* The loops of print_array and print_object.
FaultyRestTasks(n, inObject) ==
    IF n = Null THEN << >>
    ELSE (IF inObject THEN TextTasks(heap[n].string) \o <<Put(1, <<":">>)>> ELSE << >>)
         \o ValueTasks(n)
         \o <<Put(1, <<",">>)>>
         \o <<Rest(heap[n].next, inObject)>>

RestTasks(n, inObject) ==
    IF n = Null THEN << >>
    ELSE (IF inObject THEN TextTasks(heap[n].string) \o <<Put(1, <<":">>)>> ELSE << >>)
         \o ValueTasks(n)
         \o (IF heap[n].next = Null THEN << >> ELSE <<Put(1, <<",">>)>>)
         \o <<Rest(heap[n].next, inObject)>>

\* cJSON_PrintUnformatted gives up and frees its buffer.
GiveUp ==
    /\ buffers' = buffers \ {buffer}
    /\ buffer' = Null /\ length' = 0 /\ written' = << >> /\ todo' = << >>
    /\ at' = "printed"
    /\ UNCHANGED names

\* The handler returns its answer.  cJSON_PrintUnformatted: the last byte is
\* reserved for the terminating zero.
Respond ==
    /\ at = "building" /\ Len(held) = 1
    /\ \/ /\ names' = names + 1
          /\ buffers' = buffers \cup {names'} /\ buffer' = names'
          /\ length' = InitialSize
          /\ todo' = IF held[1] = Null THEN << >> ELSE ValueTasks(held[1]) \o <<Put(1, << >>)>>
          /\ at' = "printing"
          /\ UNCHANGED <<failed, written>>
       \/ /\ failed' = failed \cup {"buffer"}
          /\ GiveUp
    /\ UNCHANGED tree

\* One byte is forgotten, the one for the terminating zero.
FaultyWanted(need) == need + Len(written)

Wanted(need) == need + Len(written) + 1

\* ensure, when it returns room for `need` bytes.
Ensure(need) ==
    /\ Len(written) < length
    /\ IF Wanted(need) <= length
       THEN UNCHANGED <<buffers, buffer, length, names>>
       ELSE /\ names' = names + 1
            /\ buffers' = (buffers \ {buffer}) \cup {names'} /\ buffer' = names'
            /\ length' = 2 * Wanted(need)

Write ==
    /\ at = "printing" /\ todo # << >> /\ Head(todo).do = "put"
    /\ LET task == Head(todo)
       IN  \/ /\ Ensure(task.need)
              /\ written' = written \o task.text
              /\ todo' = Tail(todo)
              /\ UNCHANGED <<failed, at>>
           \/ /\ Len(written) >= length \/ Wanted(task.need) > length
              /\ failed' = failed \cup {"buffer"}
              /\ GiveUp
    /\ UNCHANGED tree

Walk ==
    /\ at = "printing" /\ todo # << >> /\ Head(todo).do = "rest"
    /\ todo' = RestTasks(Head(todo).item, Head(todo).inObject) \o Tail(todo)
    /\ UNCHANGED <<tree, names, buffers, buffer, length, written, failed, at>>

\* Nothing is left to print; a NULL item cannot be printed.
EndPrint ==
    /\ at = "printing" /\ todo = << >>
    /\ IF held[1] = Null THEN GiveUp
       ELSE at' = "printed" /\ UNCHANGED <<names, printer>>
    /\ UNCHANGED <<tree, failed>>

\* The keys are forgotten.
FaultyOwned(n) == {heap[n].valuestring}

Owned(n) == {heap[n].string, heap[n].valuestring}

\* server_dispatch_api deletes the tree.
DeleteTree ==
    /\ at = "printed"
    /\ LET freed == IF held[1] = Null THEN {} ELSE Below(heap, held[1])
           gone  == UNION {Owned(n) : n \in freed}
       IN  /\ heap' = [n \in DOMAIN heap \ freed |-> heap[n]]
           /\ texts' = [n \in DOMAIN texts \ gone |-> texts[n]]
    /\ held' = << >>
    /\ at' = "sending"
    /\ UNCHANGED <<meant, calls, printer, names, failed>>

\* Without an answer nothing is sent.
FaultySend ==
    /\ at = "sending" /\ buffer # Null
    /\ buffers' = buffers \ {buffer}
    /\ buffer' = Null
    /\ at' = "done"
    /\ UNCHANGED <<tree, length, written, todo, names, failed>>

\* handle_http_client sends the answer, or Content-Length: 0, and frees it.
Send ==
    /\ at = "sending"
    /\ buffers' = buffers \ {buffer}
    /\ buffer' = Null
    /\ at' = "done"
    /\ UNCHANGED <<tree, length, written, todo, names, failed>>

Members == [type : {"text"}, says : Strings] \cup [type : {"scalar"}, says : Scalars]

Next ==
    \/ \E kind \in Kinds : Create(kind)
    \/ \E i \in DOMAIN held, key \in Strings, new \in Members : AddMember(i, key, new)
    \/ \E i, j \in DOMAIN held, key \in Strings : Attach(i, j, key)
    \/ Respond \/ Write \/ Walk \/ EndPrint
    \/ DeleteTree \/ Send

\* A handler calls finitely many functions and every function returns.
Spec == Init /\ [][Next]_vars /\ WF_vars(Next)

(***************************************************************************)
(* Properties.                                                             *)
(***************************************************************************)

\* However the buffer grew, what is written leaves room for the terminating
\* zero, so that strlen and send read no further than the block; and there is
\* one buffer at most: the old one is freed when it grows, and the last one
\* when printing is given up.
PrintsWithinBuffer ==
    /\ buffer # Null => Len(written) < length
    /\ buffers = {buffer} \ {Null}

\* An answer that is sent says what the handler put in, in that order, comma
\* and bracket: also after memory ran out it is well formed, with members
\* missing and strings empty for what could not be allocated.  There is none
\* only when the outermost container or the buffer could not be allocated.
AnswerSaysWhatWasMeant ==
    at \in {"printed", "sending"} =>
        IF buffer # Null THEN meant[1].made /\ written = Said(meant[1])
        ELSE ~meant[1].made \/ "buffer" \in failed

\* When the answer is sent everything is freed, unless a container could not
\* be allocated: what was meant for it is lost.  Until then the items have
\* their types.
AnswerIsFreed ==
    /\ TypeOK
    /\ at = "done" =>
        /\ buffers = {}
        /\ "container" \notin failed => heap = << >> /\ texts = << >>

\* Every answer comes to its end.
Answered == <>(at = "done")
===============================================================================
