------------------------------- MODULE JsonParser -------------------------------
(***************************************************************************)
(* The JSON parser of utils/cJSON.c, which every request body and every    *)
(* token payload goes through, the tree of heap blocks it builds, its      *)
(* clean-up when the text is malformed or memory runs out, and the printer.*)
(*                                                                         *)
(* The text is a sequence of tokens, white space left out.  A string with  *)
(* both quotes is "text", one that does not end is "open"; a number, true, *)
(* false or null is "scalar"; "bad" is anything else.  What a string or a  *)
(* scalar says is left out.                                                *)
(*                                                                         *)
(* The recursion of the C functions is a stack of activations of           *)
(* parse_array and parse_object.  Blocks are numbered as they are          *)
(* allocated and no number is used twice, so that a pointer to a freed     *)
(* block stays one.                                                        *)
(***************************************************************************)
EXTENDS Integers, Sequences, JsonHeap

CONSTANTS
    Inputs,       \* the texts to parse
    DepthLimit    \* 1000

Punctuation == {"[", "]", "{", "}", ",", ":"}
Tokens      == Punctuation \cup {"text", "open", "scalar", "bad"}

ASSUME ParserAssumption ==
    /\ Inputs \subseteq Seq(Tokens)
    /\ DepthLimit \in Nat

VARIABLES
    input,
    offset,      \* tokens consumed
    depth,
    stack,       \* activations, the innermost last
    item,        \* the item being parsed
    root,        \* the item of cJSON_ParseWithLength
    heap,        \* the items allocated and not freed
    texts,       \* the strings allocated and not freed
    names,       \* blocks allocated so far
    exhausted,   \* an allocation has failed
    at           \* where the parser is

memory == <<heap, texts, names, exhausted>>
vars   == <<input, offset, depth, stack, item, root, memory, at>>

Types == {"invalid", "scalar", "text", "array", "object"}
Item  == [type : Types, next : Nat, child : Nat, string : Nat, valuestring : Nat]

\* cJSON_New_Item clears the block.
NewItem ==
    [type |-> "invalid", next |-> Null, child |-> Null, string |-> Null, valuestring |-> Null]

Activation == [kind : {"array", "object"}, item : Nat, head : Nat, current : Nat]

Stations == {"start", "value", "element", "key", "after", "fail",
             "parsed", "refused", "released"}

TypeOK ==
    /\ input \in Seq(Tokens)
    /\ offset \in 0 .. Len(input)
    /\ depth \in 0 .. DepthLimit
    /\ stack \in Seq(Activation)
    /\ item \in Nat /\ root \in Nat /\ names \in Nat
    /\ DOMAIN heap \subseteq 1 .. names /\ heap \in [DOMAIN heap -> Item]
    /\ texts \subseteq 1 .. names
    /\ exhausted \in BOOLEAN
    /\ at \in Stations

\* can_read and buffer_at_offset, after skip_whitespace.
Token(i) == IF i <= Len(input) THEN input[i] ELSE "end"
Peek     == Token(offset + 1)
Second   == Token(offset + 2)

Top == stack[Len(stack)]

Pop == SubSeq(stack, 1, Len(stack) - 1)

Opener(kind) == IF kind = "array" THEN "[" ELSE "{"
Closer(kind) == IF kind = "array" THEN "]" ELSE "}"

(***************************************************************************)
(* Memory.  Any allocation may fail; the function then returns 0.          *)
(***************************************************************************)
Fresh == names + 1

OutOfMemory ==
    /\ exhausted' = TRUE
    /\ at' = "fail"
    /\ UNCHANGED <<heap, texts, names>>

\* cJSON_New_Item, linked behind `last` if there is one.
AllocateItem(last) ==
    /\ names' = Fresh
    /\ heap' = [n \in DOMAIN heap \cup {Fresh} |->
                   IF n = Fresh THEN NewItem
                   ELSE IF n = last THEN [heap[n] EXCEPT !.next = Fresh]
                   ELSE heap[n]]
    /\ UNCHANGED <<texts, exhausted>>

\* The buffer of parse_string; the item becomes `parsed`.
AllocateText(parsed) ==
    /\ names' = Fresh
    /\ texts' = texts \cup {Fresh}
    /\ heap' = [heap EXCEPT ![item] = parsed]
    /\ UNCHANGED exhausted

\* cJSON_Delete.
Delete(c) ==
    LET freed == IF c = Null THEN {} ELSE Below(heap, c)
    IN  /\ heap' = [n \in DOMAIN heap \ freed |-> heap[n]]
        /\ texts' = texts \ UNION {{heap[n].string, heap[n].valuestring} : n \in freed}
        /\ UNCHANGED <<names, exhausted>>

(***************************************************************************)
(* The parser.                                                             *)
(***************************************************************************)
Init ==
    /\ input \in Inputs
    /\ offset = 0 /\ depth = 0 /\ stack = << >>
    /\ item = Null /\ root = Null
    /\ heap = << >> /\ texts = {} /\ names = 0 /\ exhausted = FALSE
    /\ at = "start"

\* cJSON_ParseWithLength, up to the call of parse_value.
Begin ==
    /\ at = "start"
    /\ \/ /\ input # << >>
          /\ AllocateItem(Null)
          /\ item' = Fresh /\ root' = Fresh
          /\ at' = "value"
       \/ /\ input # << >>
          /\ OutOfMemory
          /\ UNCHANGED <<item, root>>
       \/ /\ input = << >>
          /\ at' = "refused"
          /\ UNCHANGED <<memory, item, root>>
    /\ UNCHANGED <<input, offset, depth, stack>>

\* parse_value on a number or a literal.
Scalar ==
    /\ at = "value" /\ Peek = "scalar"
    /\ heap' = [heap EXCEPT ![item].type = "scalar"]
    /\ offset' = offset + 1
    /\ at' = "after"
    /\ UNCHANGED <<input, depth, stack, item, root, texts, names, exhausted>>

\* parse_string for a value.
Text ==
    /\ at = "value" /\ Peek = "text"
    /\ \/ /\ AllocateText([heap[item] EXCEPT !.type = "text", !.valuestring = Fresh])
          /\ offset' = offset + 1
          /\ at' = "after"
       \/ OutOfMemory /\ offset' = offset
    /\ UNCHANGED <<input, depth, stack, item, root>>

\* The end of the text is not noticed.
FaultyNoValue ==
    /\ at = "value" /\ Peek \notin {"scalar", "text", "[", "{", "end"}
    /\ at' = "fail"
    /\ UNCHANGED <<input, offset, depth, stack, item, root, memory>>

NoValue ==
    /\ at = "value" /\ Peek \notin {"scalar", "text", "[", "{"}
    /\ at' = "fail"
    /\ UNCHANGED <<input, offset, depth, stack, item, root, memory>>

\* parse_array and parse_object as far as the first element.  An empty
\* container is finished at once.
TooDeep == depth >= DepthLimit

Open(kind) ==
    /\ at = "value" /\ Peek = Opener(kind)
    /\ \/ /\ TooDeep
          /\ at' = "fail"
          /\ UNCHANGED <<offset, depth, stack, heap>>
       \/ /\ ~TooDeep
          /\ Second = Closer(kind)
          /\ heap' = [heap EXCEPT ![item].type = kind]
          /\ offset' = offset + 2
          /\ at' = "after"
          /\ UNCHANGED <<depth, stack>>
       \/ /\ ~TooDeep
          /\ Second # Closer(kind)
          /\ stack' = Append(stack, [kind |-> kind, item |-> item,
                                     head |-> Null, current |-> Null])
          /\ depth' = depth + 1
          /\ offset' = offset + 1
          /\ at' = "element"
          /\ UNCHANGED heap
    /\ UNCHANGED <<input, item, root, texts, names, exhausted>>

\* The list goes on behind its first element.
FaultyEnlist(activation) ==
    [activation EXCEPT !.head = IF @ = Null THEN Fresh ELSE @,
                       !.current = IF @ = Null THEN Fresh ELSE @]

Enlist(activation) ==
    [activation EXCEPT !.head = IF @ = Null THEN Fresh ELSE @, !.current = Fresh]

\* The head of the loop: a new element at the end of the list.
Element ==
    /\ at = "element"
    /\ \/ /\ Peek # "end"
          /\ AllocateItem(Top.current)
          /\ stack' = Append(Pop, Enlist(Top))
          /\ item' = Fresh
          /\ at' = IF Top.kind = "array" THEN "value" ELSE "key"
       \/ Peek # "end" /\ OutOfMemory /\ UNCHANGED <<stack, item>>
       \/ Peek = "end" /\ at' = "fail" /\ UNCHANGED <<memory, stack, item>>
    /\ UNCHANGED <<input, offset, depth, root>>

\* The key stays in valuestring as well.
FaultyKeyed(node) == [node EXCEPT !.type = "text", !.string = Fresh, !.valuestring = Fresh]

\* The key of a member: parse_string, whose result moves from valuestring to
\* string, and the colon.
Keyed(node) == [node EXCEPT !.type = "text", !.string = Fresh, !.valuestring = Null]

Key ==
    /\ at = "key"
    /\ \/ /\ Peek = "text"
          /\ AllocateText(Keyed(heap[item]))
          /\ IF Second = ":"
             THEN offset' = offset + 2 /\ at' = "value"
             ELSE offset' = offset + 1 /\ at' = "fail"
       \/ Peek = "text" /\ OutOfMemory /\ offset' = offset
       \/ Peek # "text" /\ at' = "fail" /\ UNCHANGED <<memory, offset>>
    /\ UNCHANGED <<input, depth, stack, item, root>>

\* The depth is not given back.
FaultyLeave == stack' = Pop /\ depth' = depth

Leave == stack' = Pop /\ depth' = depth - 1

\* An element is parsed: the loop goes on, or the container is finished.
After ==
    /\ at = "after" /\ stack # << >>
    /\ \/ /\ Peek = ","
          /\ offset' = offset + 1
          /\ at' = "element"
          /\ UNCHANGED <<depth, stack, heap>>
       \/ /\ Peek = Closer(Top.kind)
          /\ heap' = [heap EXCEPT ![Top.item] = [@ EXCEPT !.type = Top.kind,
                                                          !.child = Top.head]]
          /\ Leave
          /\ offset' = offset + 1
          /\ at' = "after"
       \/ /\ Peek \notin {",", Closer(Top.kind)}
          /\ at' = "fail"
          /\ UNCHANGED <<offset, depth, stack, heap>>
    /\ UNCHANGED <<input, item, root, texts, names, exhausted>>

\* What follows the value is not looked at.
Finish ==
    /\ at = "after" /\ stack = << >>
    /\ at' = "parsed"
    /\ UNCHANGED <<input, offset, depth, stack, item, root, memory>>

\* The elements parsed so far are forgotten.
FaultyUnwind ==
    /\ at = "fail" /\ stack # << >>
    /\ stack' = Pop
    /\ UNCHANGED <<input, offset, depth, item, root, memory, at>>

\* "fail:" in the innermost activation, whose caller then fails as well.
Unwind ==
    /\ at = "fail" /\ stack # << >>
    /\ Delete(Top.head)
    /\ stack' = Pop
    /\ UNCHANGED <<input, offset, depth, item, root, at>>

\* cJSON_ParseWithLength gives up; it has no item when the first allocation failed.
Refuse ==
    /\ at = "fail" /\ stack = << >>
    /\ Delete(root)
    /\ root' = Null
    /\ at' = "refused"
    /\ UNCHANGED <<input, offset, depth, stack, item>>

\* The handler has read what it needs and deletes the tree.
Release ==
    /\ at = "parsed"
    /\ Delete(root)
    /\ root' = Null
    /\ at' = "released"
    /\ UNCHANGED <<input, offset, depth, stack, item>>

Next ==
    \/ Begin
    \/ Scalar \/ Text \/ NoValue
    \/ \E kind \in {"array", "object"} : Open(kind)
    \/ Element \/ Key \/ After \/ Finish
    \/ Unwind \/ Refuse \/ Release

\* A function that was called goes on until it returns.
Spec == Init /\ [][Next]_vars /\ WF_vars(Next)


(***************************************************************************)
(* What the text means: a grammar, which knows nothing of how the parser   *)
(* works.  `inside` gives for every place i, kind of container and depth d *)
(* the places after the elements that start at i and nest no deeper.       *)
(***************************************************************************)
\* After a container at place i.
ContainerEnds(inside, kind, d, i) ==
    IF d = 0 \/ Token(i) # Opener(kind) THEN {}
    ELSE {j + 1 : j \in {k \in {i + 1} \cup inside[i + 1][kind][d - 1] :
                            Token(k) = Closer(kind)}}

\* After a value at place i.
ValueEnds(inside, d, i) ==
    (IF Token(i) \in {"scalar", "text"} THEN {i + 1} ELSE {})
    \cup ContainerEnds(inside, "array", d, i)
    \cup ContainerEnds(inside, "object", d, i)

\* After the first element, and after what follows it behind commas.
FirstEnds(inside, kind, d, i) ==
    IF kind = "array" THEN ValueEnds(inside, d, i)
    ELSE IF Token(i) = "text" /\ Token(i + 1) = ":" THEN ValueEnds(inside, d, i + 2)
    ELSE {}

ElementEnds(inside, kind, d, i) ==
    FirstEnds(inside, kind, d, i)
    \cup UNION {IF Token(j) = "," THEN inside[j + 1][kind][d] ELSE {} :
                   j \in FirstEnds(inside, kind, d, i)}

Ends ==
    LET inside[i \in 1 .. Len(input) + 1] ==
            [kind \in {"array", "object"} |->
                [d \in 0 .. DepthLimit |-> ElementEnds(inside, kind, d, i)]]
    IN  ValueEnds(inside, DepthLimit, 1)

\* cJSON_PrintUnformatted: print_array and print_object from element n on.
PrintedElements(print, n, inObject) == IF n = Null THEN << >> ELSE print[n][inObject]

\* print_value.
PrintedValue(print, node) ==
    CASE node.type = "array"   -> <<"[">> \o PrintedElements(print, node.child, FALSE) \o <<"]">>
      [] node.type = "object"  -> <<"{">> \o PrintedElements(print, node.child, TRUE) \o <<"}">>
      [] node.type = "invalid" -> <<"bad">>
      [] OTHER -> <<node.type>>

PrintedEntry(print, n, inObject) ==
    (IF inObject THEN <<"text", ":">> ELSE << >>)
    \o PrintedValue(print, heap[n])
    \o (IF heap[n].next = Null THEN << >>
        ELSE <<",">> \o PrintedElements(print, heap[n].next, inObject))

Printed(c) ==
    LET print[n \in DOMAIN heap] ==
            [inObject \in BOOLEAN |-> PrintedEntry(print, n, inObject)]
    IN  print[c][FALSE]

(***************************************************************************)
(* Properties.                                                             *)
(***************************************************************************)

\* The parser takes exactly the texts that start with a value, except that it
\* refuses when memory runs out: no malformed, truncated or too deep body is
\* taken, and none that is well formed is refused.
TakesExactlyValues ==
    /\ at = "parsed"  => offset + 1 \in Ends /\ ~exhausted
    /\ at = "refused" => exhausted \/ Ends = {}

\* The tree says what the text said: printed, it is the text that was consumed.
TreeIsTheText == at = "parsed" => Printed(root) = SubSeq(input, 1, offset)

\* Every pointer that owns a block: the lists of the activations and the root,
\* and those inside the items.
Places ==
    ({"next", "child", "string", "valuestring"} \X DOMAIN heap)
    \cup ({"head"} \X DOMAIN stack) \cup {<<"root", Null>>}

Target(place) ==
    CASE place[1] = "root"        -> root
      [] place[1] = "head"        -> stack[place[2]].head
      [] place[1] = "next"        -> heap[place[2]].next
      [] place[1] = "child"       -> heap[place[2]].child
      [] place[1] = "string"      -> heap[place[2]].string
      [] place[1] = "valuestring" -> heap[place[2]].valuestring

\* At every moment, also while a failure unwinds, each block that is allocated
\* has exactly one owner and no pointer leads to a freed block: nothing is
\* freed twice, used after it was freed, or lost.  The types come with it.
OneOwner ==
    LET owns == {p \in Places : Target(p) # Null}
        live == DOMAIN heap \cup texts
    IN  /\ TypeOK
        /\ {Target(p) : p \in owns} = live
        /\ \A p, q \in owns : Target(p) = Target(q) => p = q

\* When the parser has refused, or the handler has deleted the tree, nothing
\* is left allocated.
NothingLeft == at \in {"refused", "released"} => heap = << >> /\ texts = {}

\* The parser returns, whatever the text.
Returns == <>(at \in {"parsed", "refused"})
===============================================================================
