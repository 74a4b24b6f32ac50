------------------------------- MODULE HttpProofs -------------------------------
(***************************************************************************)
(* Proofs about the HTTP server, for any number of clients, any messages   *)
(* and any size of the buffer and of the backlog.                          *)
(*                                                                         *)
(* ConnInv says what the reading loops have established when the thread is *)
(* at each of its stations, QueueInv that a client is in at most one place *)
(* of the queue.  Together with the types they are inductive.              *)
(***************************************************************************)
EXTENDS HttpServer, SequenceTheorems, TLAPS

ConnInv ==
    /\ pc \in Handling <=> serving # NoClient
    /\ serving # NoClient => conn.total <= client[serving].arrived
    /\ pc = "header" => /\ conn.total < Message.header
                        /\ conn.total < conn.capacity
                        /\ conn.capacity = InitialCapacity
    /\ pc \in {"body", "answer"} =>
          /\ conn.total = conn.header + conn.got
          /\ conn.header = Message.header
          /\ Understood(Message) => conn.want = Message.announced
          /\ ~ WrapsAround(Message) => conn.total < conn.capacity
    /\ pc = "body" => /\ conn.got < conn.want
                      /\ ~ WrapsAround(Message) =>
                             conn.header + conn.want < conn.capacity
    /\ pc = "answer" /\ Understood(Message) /\ conn.got < conn.want =>
          client[serving].state = "gone"

QueueInv ==
    /\ serving # NoClient => client[serving].state # "away"
    /\ \A c \in Clients : client[c].state # "away" => client[c].message \in Messages
    /\ \A i \in DOMAIN backlog :
          client[backlog[i]].state # "away" /\ backlog[i] # serving
    /\ \A i, j \in DOMAIN backlog : backlog[i] = backlog[j] => i = j

Inv == TypeOK /\ ConnInv /\ QueueInv

--------------------------------------------------------------------------------
(* The queue.                                                              *)

LEMMA BacklogType ==
    ASSUME TypeOK
    PROVE  /\ backlog \in Seq(Clients) /\ Len(backlog) \in Nat
           /\ DOMAIN backlog = 1 .. Len(backlog)
           /\ \A i \in DOMAIN backlog : backlog[i] \in Clients
  <1>1. backlog \in Seq(Clients)
    BY DEF TypeOK
  <1>2. DOMAIN backlog = 1 .. Len(backlog) /\ Len(backlog) \in Nat
    BY <1>1
  <1> QED BY <1>1, <1>2, ElementOfSeq

\* Taking the oldest connection out of the queue.
LEMMA TailOfBacklog ==
    ASSUME TypeOK, backlog # <<>>
    PROVE  /\ Head(backlog) = backlog[1] /\ Head(backlog) \in Clients
           /\ Tail(backlog) \in Seq(Clients)
           /\ Len(Tail(backlog)) = Len(backlog) - 1
           /\ DOMAIN Tail(backlog) = 1 .. Len(backlog) - 1
           /\ \A i \in DOMAIN Tail(backlog) : /\ Tail(backlog)[i] = backlog[i + 1]
                                              /\ i + 1 \in DOMAIN backlog
           /\ 1 \in DOMAIN backlog
  <1>1. backlog \in Seq(Clients) /\ Len(backlog) \in Nat /\ DOMAIN backlog = 1 .. Len(backlog)
    BY BacklogType
  <1>2. Len(backlog) # 0
    BY <1>1, EmptySeq
  <1>3. 1 \in DOMAIN backlog /\ Head(backlog) = backlog[1] /\ backlog[1] \in Clients
    BY <1>1, <1>2, BacklogType
  <1>4. /\ Tail(backlog) \in Seq(Clients) /\ Len(Tail(backlog)) = Len(backlog) - 1
        /\ \A i \in 1 .. Len(backlog) - 1 : Tail(backlog)[i] = backlog[i + 1]
    BY <1>1, <1>2, HeadTailProperties
  <1>5. DOMAIN Tail(backlog) = 1 .. Len(backlog) - 1
    BY <1>4
  <1>6. \A i \in 1 .. Len(backlog) - 1 : i + 1 \in DOMAIN backlog
    BY <1>1
  <1> QED BY <1>3, <1>4, <1>5, <1>6

LEMMA AwayType ==
    Away \in [state : {"away", "open", "gone"}, message : Messages \cup {NoMessage},
              arrived : Nat]
  BY DEF Away

(***************************************************************************)
(* The conversions: what wraps around and what does not.                   *)
(***************************************************************************)
LEMMA Rest ==
    ASSUME NEW k \in Int, NEW m \in Nat \ {0}
    PROVE  /\ k % m \in 0 .. m - 1
           /\ k \in 0 .. m - 1 => k % m = k
           /\ k \in -m .. -1 => k % m = k + m
           /\ k \in Nat => k % m <= k
  OBVIOUS

LEMMA SizeIs ==
    ASSUME NEW k \in Int
    PROVE  /\ AsSize(k) \in 0 .. 2 * LongLimit - 1
           /\ k \in 0 .. 2 * LongLimit - 1 => AsSize(k) = k
           /\ k \in -(2 * LongLimit) .. -1 => AsSize(k) = k + 2 * LongLimit
  <1>1. PICK m \in Nat \ {0} : m = 2 * LongLimit
    BY ServerAssumption
  <1>2. AsSize(k) = k % m
    BY <1>1 DEF AsSize
  <1>3. /\ k % m \in 0 .. m - 1
        /\ k \in 0 .. m - 1 => k % m = k
        /\ k \in -m .. -1 => k % m = k + m
    BY Rest
  <1> QED BY <1>1, <1>2, <1>3

LEMMA AtolIs ==
    ASSUME NEW k \in Int
    PROVE  /\ Atol(k) \in -LongLimit .. LongLimit - 1
           /\ k >= 0 => Atol(k) >= 0
           /\ k \in 0 .. LongLimit - 1 => Atol(k) = k
           /\ k < 0 => Atol(k) < 0 /\ (Atol(k) = k \/ Atol(k) = -LongLimit)
  BY ServerAssumption DEF Atol, Smaller

LEMMA IntIs ==
    ASSUME NEW k \in Nat
    PROVE  /\ AsInt(k) \in Int /\ AsInt(k) <= k
           /\ k < IntLimit => AsInt(k) = k
           /\ AsInt(k) < 0 => IntLimit - 1 <= k
  <1> DEFINE low == k % (2 * IntLimit)
  <1>1. PICK m \in Nat \ {0} : m = 2 * IntLimit
    BY ServerAssumption
  <1>2. /\ low \in Nat /\ low <= k
        /\ k < 2 * IntLimit => low = k
    <2>1. /\ k % m \in 0 .. m - 1 /\ k % m <= k
          /\ k \in 0 .. m - 1 => k % m = k
      BY Rest
    <2> QED BY <1>1, <2>1
  <1>3. AsInt(k) = IF low < IntLimit THEN low ELSE low - 2 * IntLimit
    BY DEF AsInt
  <1> HIDE DEF low
  <1> QED BY <1>2, <1>3, ServerAssumption

\* What one recv of the second loop may take.
LEMMA AtMostIs ==
    ASSUME conn.want \in Nat, conn.got \in Nat, conn.got < conn.want
    PROVE  /\ AtMost \in Nat /\ AtMost <= conn.want - conn.got
           /\ conn.want < IntLimit => ToRead > 0
  <1>1. conn.want - conn.got \in Nat /\ conn.want - conn.got > 0
    OBVIOUS
  <1>2. /\ ToRead \in Int /\ ToRead <= conn.want - conn.got
        /\ conn.want - conn.got < IntLimit => ToRead = conn.want - conn.got
        /\ ToRead < 0 => IntLimit - 1 <= conn.want - conn.got
    BY <1>1, IntIs DEF ToRead
  <1> QED BY <1>1, <1>2, ServerAssumption DEF AtMost

(***************************************************************************)
(* Headers, body and zero fit into a size_t, except where WrapsAround says *)
(* they do not.                                                            *)
(***************************************************************************)
LEMMA SumFits ==
    ASSUME NEW header \in Nat, NEW number \in Int, header < InitialCapacity,
           number \notin -(header + 1) .. -1
    PROVE  LET want == AsSize(Atol(number))
           IN  AsSize(header + want + 1) = header + want + 1
  <1> DEFINE z == Atol(number)
             want == AsSize(z)
  <1>1. /\ z \in Int /\ -LongLimit <= z /\ z < LongLimit
        /\ number >= 0 => z >= 0
        /\ number < 0 => z < 0 /\ (z = number \/ z = -LongLimit)
    BY AtolIs, ServerAssumption
  <1>2. /\ z >= 0 => want = z
        /\ z < 0 => want = z + 2 * LongLimit
    BY <1>1, SizeIs, ServerAssumption
  <1>3. want \in Nat
    BY <1>1, SizeIs
  <1> HIDE DEF want, z
  <1>4. header + want + 1 \in 0 .. 2 * LongLimit - 1
    <2>1. CASE number >= 0
      BY <1>1, <1>2, <1>3, <2>1, ServerAssumption
    <2>2. CASE number < 0
      <3>1. z < -(header + 1)
        BY <1>1, <2>2, ServerAssumption
      <3> QED BY <1>1, <1>2, <1>3, <2>2, <3>1, ServerAssumption
    <2> QED BY <2>1, <2>2
  <1>5. AsSize(header + want + 1) = header + want + 1
    BY <1>4, SizeIs
  <1> QED BY <1>5 DEF want, z

LEMMA NoConnType ==
    /\ NoConn \in [capacity : Nat, total : Nat, header : Nat, want : Nat, got : Nat]
    /\ NewConn \in [capacity : Nat, total : Nat, header : Nat, want : Nat, got : Nat]
    /\ NewConn.total = 0 /\ NewConn.capacity = InitialCapacity
  BY ServerAssumption DEF NoConn, NewConn

--------------------------------------------------------------------------------
(* The other end.                                                          *)

LEMMA ConnectKeeps ==
    ASSUME Inv, NEW c \in Clients, NEW m \in Messages, Connect(c, m)
    PROVE  Inv'
  <1>1. /\ backlog \in Seq(Clients) /\ Len(backlog) \in Nat
        /\ DOMAIN backlog = 1 .. Len(backlog)
    BY BacklogType DEF Inv
  <1>2. /\ c # serving /\ \A i \in DOMAIN backlog : backlog[i] # c
    BY ServerAssumption DEF Inv, QueueInv, Connect
  <1>3. /\ backlog' \in Seq(Clients) /\ Len(backlog') = Len(backlog) + 1
        /\ DOMAIN backlog' = 1 .. Len(backlog) + 1
        /\ \A i \in DOMAIN backlog : backlog'[i] = backlog[i]
        /\ backlog'[Len(backlog) + 1] = c
    BY <1>1 DEF Connect
  <1>4. /\ client' = [client EXCEPT ![c] =
                         [state |-> "open", message |-> m, arrived |-> 0]]
        /\ UNCHANGED <<running, pc, serving, conn>>
        /\ Len(backlog) < Backlog
    BY DEF Connect
  <1>5. client \in [Clients -> [state : {"away", "open", "gone"},
                                message : Messages \cup {NoMessage}, arrived : Nat]]
    BY DEF Inv, TypeOK
  <1>6. /\ client'[c] = [state |-> "open", message |-> m, arrived |-> 0]
        /\ \A d \in Clients \ {c} : client'[d] = client[d]
    BY <1>4, <1>5
  <1>7. TypeOK'
    <2>1. client' \in [Clients -> [state : {"away", "open", "gone"},
                                   message : Messages \cup {NoMessage}, arrived : Nat]]
      BY <1>4, <1>5
    <2>2. Len(backlog') <= Backlog
      BY <1>1, <1>3, <1>4, ServerAssumption
    <2> QED BY <1>3, <1>4, <2>1, <2>2 DEF Inv, TypeOK
  <1>8. serving # NoClient => client'[serving] = client[serving]
    BY <1>2, <1>6 DEF Inv, TypeOK
  <1>9. ConnInv'
    BY <1>4, <1>8 DEF Inv, ConnInv, Message, Handling
  <1>10. QueueInv'
    <2>1. \A i \in DOMAIN backlog' : client'[backlog'[i]].state # "away" /\ backlog'[i] # serving
      <3> SUFFICES ASSUME NEW i \in DOMAIN backlog'
                   PROVE  client'[backlog'[i]].state # "away" /\ backlog'[i] # serving
        OBVIOUS
      <3>1. CASE i \in DOMAIN backlog
        BY <1>2, <1>3, <1>6, <3>1, BacklogType DEF Inv, QueueInv
      <3>2. CASE i = Len(backlog) + 1
        BY <1>2, <1>3, <1>6, <3>2
      <3> QED BY <1>1, <1>3, <3>1, <3>2
    <2>2. \A i, j \in DOMAIN backlog' : backlog'[i] = backlog'[j] => i = j
      <3> SUFFICES ASSUME NEW i \in DOMAIN backlog', NEW j \in DOMAIN backlog',
                          backlog'[i] = backlog'[j]
                   PROVE  i = j
        OBVIOUS
      <3>1. CASE i \in DOMAIN backlog /\ j \in DOMAIN backlog
        BY <1>3, <3>1 DEF Inv, QueueInv
      <3>2. CASE i = Len(backlog) + 1 /\ j = Len(backlog) + 1
        BY <3>2
      <3>3. CASE i \in DOMAIN backlog /\ j = Len(backlog) + 1
        BY <1>2, <1>3, <3>3
      <3>4. CASE j \in DOMAIN backlog /\ i = Len(backlog) + 1
        BY <1>2, <1>3, <3>4
      <3> QED BY <1>1, <1>3, <3>1, <3>2, <3>3, <3>4
    <2>3. \A d \in Clients : client'[d].state # "away" => client'[d].message \in Messages
      BY <1>6 DEF Inv, QueueInv
    <2> QED BY <1>4, <1>8, <2>1, <2>2, <2>3 DEF Inv, QueueInv
  <1> QED BY <1>7, <1>9, <1>10 DEF Inv

ClientTable == [Clients -> [state : {"away", "open", "gone"},
                            message : Messages \cup {NoMessage}, arrived : Nat]]

\* A client changes its own entry, keeps its message and stays connected, and
\* what the server has read is still there.
Moves(c) ==
    /\ client' \in ClientTable
    /\ client[c].state = "open" /\ client'[c].state \in {"open", "gone"}
    /\ client'[c].message = client[c].message
    /\ c = serving => conn.total <= client'[c].arrived
    /\ \A d \in Clients \ {c} : client'[d] = client[d]
    /\ UNCHANGED <<running, pc, backlog, serving, conn>>

LEMMA ProgressMoves ==
    ASSUME Inv, NEW c \in Clients, Progress(c)
    PROVE  Moves(c)
  <1>1. client \in ClientTable /\ conn.total \in Nat
    BY DEF Inv, TypeOK, ClientTable
  <1>2. c = serving => conn.total <= client[c].arrived
    BY ServerAssumption DEF Inv, ConnInv
  <1>3. ASSUME NEW n \in 1 .. Size(client[c].message), Deliver(c, n) PROVE Moves(c)
    <2>1. n \in Nat /\ client[c].arrived \in Nat
      BY <1>1 DEF ClientTable
    <2>2. client' = [client EXCEPT ![c].arrived = @ + n]
      BY <1>3 DEF Deliver
    <2>3. /\ client'[c].state = client[c].state
          /\ client'[c].message = client[c].message
          /\ client'[c].arrived = client[c].arrived + n
          /\ \A d \in Clients \ {c} : client'[d] = client[d]
      BY <1>1, <2>2 DEF ClientTable
    <2>4. client' \in ClientTable
      BY <1>1, <2>1, <2>2 DEF ClientTable
    <2> QED BY <1>1, <1>2, <1>3, <2>1, <2>3, <2>4 DEF Moves, Deliver
  <1>4. ASSUME HangUp(c) PROVE Moves(c)
    <2>1. PICK arrived \in Nat :
            /\ client' = [client EXCEPT ![c].state = "gone", ![c].arrived = arrived]
            /\ c = serving => conn.total <= arrived
      <3>1. CASE client' = [client EXCEPT ![c].state = "gone"]
        <4>1. client[c].arrived \in Nat
          BY <1>1 DEF ClientTable
        <4>2. client' = [client EXCEPT ![c].state = "gone",
                                       ![c].arrived = client[c].arrived]
          BY <1>1, <3>1 DEF ClientTable
        <4> QED BY <1>2, <4>1, <4>2
      <3>2. CASE client' = [client EXCEPT ![c].state = "gone",
                               ![c].arrived = IF c = serving THEN conn.total ELSE 0]
        <4> DEFINE new == IF c = serving THEN conn.total ELSE 0
        <4>1. new \in Nat /\ (c = serving => conn.total <= new)
          BY <1>1
        <4>2. client' = [client EXCEPT ![c].state = "gone", ![c].arrived = new]
          BY <3>2
        <4> HIDE DEF new
        <4> QED BY <4>1, <4>2
      <3> QED BY <1>4, <3>1, <3>2 DEF HangUp
    <2>2. /\ client'[c].state = "gone"
          /\ client'[c].message = client[c].message
          /\ client'[c].arrived = arrived
          /\ \A d \in Clients \ {c} : client'[d] = client[d]
      BY <1>1, <2>1 DEF ClientTable
    <2>3. client' \in ClientTable
      BY <1>1, <2>1 DEF ClientTable
    <2> QED BY <1>4, <2>1, <2>2, <2>3 DEF Moves, HangUp
  <1> QED BY <1>3, <1>4 DEF Progress

LEMMA MovesKeeps ==
    ASSUME Inv, NEW c \in Clients, Moves(c)
    PROVE  Inv'
  <1>1. UNCHANGED <<running, pc, backlog, serving, conn>>
    BY DEF Moves
  <1>2. TypeOK'
    BY <1>1 DEF Inv, TypeOK, Moves, ClientTable
  <1>3. \A d \in Clients : /\ client'[d].message = client[d].message
                           /\ client'[d].state = "away" <=> client[d].state = "away"
                           /\ client[d].state = "gone" => client'[d].state = "gone"
    BY DEF Moves
  <1>4. serving # NoClient => /\ serving \in Clients
                              /\ conn.total <= client'[serving].arrived
    BY DEF Moves, Inv, TypeOK, ConnInv
  <1>5. ConnInv'
    <2>1. CASE serving = NoClient
      BY <1>1, <2>1 DEF Inv, ConnInv, Handling
    <2>2. CASE serving # NoClient
      BY <1>1, <1>3, <1>4, <2>2 DEF Inv, ConnInv, Handling, Message
    <2> QED BY <2>1, <2>2
  <1>6. QueueInv'
    BY <1>1, <1>3, <1>4, BacklogType DEF Inv, QueueInv
  <1> QED BY <1>2, <1>5, <1>6 DEF Inv

LEMMA SignalKeeps ==
    ASSUME Inv, Signal
    PROVE  Inv'
  BY DEF Inv, Signal, TypeOK, ConnInv, QueueInv, Message

--------------------------------------------------------------------------------
(* The loop.                                                               *)

ConnType == [capacity : Nat, total : Nat, header : Nat, want : Nat, got : Nat]

\* The connection that is served is not in the backlog, and has a message.
LEMMA ServedClient ==
    ASSUME Inv, serving # NoClient
    PROVE  /\ serving \in Clients
           /\ Message \in Messages /\ Message.header \in Nat \ {0}
           /\ Message.announced \in Nat
           /\ Message.number \in Int /\ Message.at \in Nat
           /\ client[serving].arrived \in Nat
           /\ client \in ClientTable /\ conn \in ConnType
           /\ \A i \in DOMAIN backlog : backlog[i] \in Clients \ {serving}
  <1>1. serving \in Clients /\ client \in ClientTable /\ conn \in ConnType
    BY DEF Inv, TypeOK, ClientTable, ConnType
  <1>2. Message \in Messages
    BY <1>1 DEF Inv, QueueInv, Message
  <1>3. /\ Message.header \in Nat \ {0} /\ Message.announced \in Nat
        /\ Message.number \in Int /\ Message.at \in Nat
    BY <1>2, ServerAssumption
  <1>4. client[serving].arrived \in Nat
    BY <1>1 DEF ClientTable
  <1>5. \A i \in DOMAIN backlog : backlog[i] \in Clients \ {serving}
    BY BacklogType DEF Inv, QueueInv
  <1> QED BY <1>1, <1>2, <1>3, <1>4, <1>5

LEMMA CloseKeeps ==
    ASSUME Inv, serving # NoClient, CloseConnection
    PROVE  Inv'
  <1>1. /\ serving' = NoClient /\ conn' = NoConn /\ pc' = "check"
        /\ client' = [client EXCEPT ![serving] = Away]
        /\ UNCHANGED <<running, backlog>>
    BY DEF CloseConnection
  <1>2. /\ serving \in Clients /\ client \in ClientTable
        /\ \A i \in DOMAIN backlog : backlog[i] \in Clients \ {serving}
    BY ServedClient
  <1>3. client' \in ClientTable
    BY <1>1, <1>2, AwayType DEF ClientTable
  <1>4. TypeOK'
    BY <1>1, <1>3, NoConnType DEF Inv, TypeOK, ClientTable
  <1>5. ConnInv'
    BY <1>1 DEF ConnInv, Handling
  <1>6. /\ client'[serving].state = "away"
        /\ \A d \in Clients \ {serving} : client'[d] = client[d]
    BY <1>1, <1>2 DEF ClientTable, Away
  <1>7. QueueInv'
    <2>1. \A i \in DOMAIN backlog' : client'[backlog'[i]].state # "away" /\ backlog'[i] # serving'
      BY <1>1, <1>2, <1>6, ServerAssumption DEF Inv, QueueInv
    <2>2. \A d \in Clients : client'[d].state # "away" => client'[d].message \in Messages
      BY <1>6 DEF Inv, QueueInv
    <2> QED BY <1>1, <2>1, <2>2 DEF Inv, QueueInv
  <1> QED BY <1>4, <1>5, <1>7 DEF Inv

LEMMA EndKeeps ==
    ASSUME Inv, NEW how \in Ended, EndProcess(how)
    PROVE  Inv'
  <1>1. /\ pc' = how /\ backlog' = <<>> /\ serving' = NoClient /\ conn' = NoConn
        /\ client' = [c \in Clients |-> Away] /\ running' = running
    BY DEF EndProcess
  <1>2. backlog' \in Seq(Clients) /\ Len(backlog') = 0 /\ DOMAIN backlog' = {}
    BY <1>1
  <1>3. client' \in ClientTable /\ \A c \in Clients : client'[c].state = "away"
    BY <1>1, AwayType DEF ClientTable, Away
  <1>4. TypeOK'
    BY <1>1, <1>2, <1>3, NoConnType, ServerAssumption DEF Inv, TypeOK, ClientTable
  <1>5. ConnInv'
    BY <1>1 DEF ConnInv, Handling, Ended
  <1>6. QueueInv'
    BY <1>1, <1>2, <1>3 DEF QueueInv
  <1> QED BY <1>4, <1>5, <1>6 DEF Inv

LEMMA CheckKeeps ==
    ASSUME Inv, Check
    PROVE  Inv'
  <1>1. CASE running
    BY <1>1 DEF Check, Inv, TypeOK, ConnInv, QueueInv, Handling, Message
  <1>2. CASE ~ running
    BY <1>2, EndKeeps DEF Check, Ended
  <1> QED BY <1>1, <1>2

\* What is left of the backlog without its head.
LEMMA RestOfBacklog ==
    ASSUME Inv, backlog # <<>>
    PROVE  /\ Head(backlog) \in Clients
           /\ client[Head(backlog)].state # "away"
           /\ client[Head(backlog)].message \in Messages
           /\ Tail(backlog) \in Seq(Clients) /\ Len(Tail(backlog)) <= Backlog
           /\ \A i \in DOMAIN Tail(backlog) :
                 /\ Tail(backlog)[i] \in Clients
                 /\ client[Tail(backlog)[i]].state # "away"
                 /\ Tail(backlog)[i] # Head(backlog)
                 /\ Tail(backlog)[i] # serving
           /\ \A i, j \in DOMAIN Tail(backlog) :
                 Tail(backlog)[i] = Tail(backlog)[j] => i = j
  <1>1. /\ Head(backlog) = backlog[1] /\ Head(backlog) \in Clients
        /\ Tail(backlog) \in Seq(Clients)
        /\ Len(Tail(backlog)) = Len(backlog) - 1
        /\ DOMAIN Tail(backlog) = 1 .. Len(backlog) - 1
        /\ \A i \in DOMAIN Tail(backlog) : /\ Tail(backlog)[i] = backlog[i + 1]
                                           /\ i + 1 \in DOMAIN backlog
        /\ 1 \in DOMAIN backlog
    BY TailOfBacklog DEF Inv
  <1>2. /\ Len(backlog) \in Nat /\ Len(backlog) <= Backlog
        /\ \A i \in DOMAIN backlog : backlog[i] \in Clients
    BY BacklogType DEF Inv, TypeOK
  <1>3. /\ \A i \in DOMAIN backlog :
              client[backlog[i]].state # "away" /\ backlog[i] # serving
        /\ \A i, j \in DOMAIN backlog : backlog[i] = backlog[j] => i = j
        /\ \A c \in Clients : client[c].state # "away" => client[c].message \in Messages
    BY DEF Inv, QueueInv
  <1>4. \A i \in DOMAIN Tail(backlog) : Tail(backlog)[i] # Head(backlog)
    <2> SUFFICES ASSUME NEW i \in DOMAIN Tail(backlog), backlog[i + 1] = backlog[1]
                 PROVE  FALSE
      BY <1>1
    <2>1. i + 1 = 1
      BY <1>1, <1>3
    <2> QED BY <1>1, <2>1
  <1>5. \A i, j \in DOMAIN Tail(backlog) : Tail(backlog)[i] = Tail(backlog)[j] => i = j
    <2> SUFFICES ASSUME NEW i \in DOMAIN Tail(backlog), NEW j \in DOMAIN Tail(backlog),
                        backlog[i + 1] = backlog[j + 1]
                 PROVE  i = j
      BY <1>1
    <2>1. i + 1 = j + 1
      BY <1>1, <1>3
    <2> QED BY <1>1, <2>1
  <1>6. Len(Tail(backlog)) <= Backlog
    BY <1>1, <1>2, ServerAssumption
  <1>7. \A i \in DOMAIN Tail(backlog) : Tail(backlog)[i] \in Clients
    BY <1>1, <1>2
  <1> QED BY <1>1, <1>3, <1>4, <1>5, <1>6, <1>7

LEMMA AcceptKeeps ==
    ASSUME Inv, Accept
    PROVE  Inv'
  <1>1. /\ pc = "accept" /\ backlog # <<>>
        /\ serving' = Head(backlog) /\ backlog' = Tail(backlog)
        /\ conn' = NewConn /\ pc' = "header" /\ UNCHANGED <<running, client>>
    BY DEF Accept
  <1>2. /\ serving' \in Clients /\ serving' # NoClient
        /\ client[serving'].message \in Messages
        /\ client[serving'].arrived \in Nat
    BY <1>1, RestOfBacklog, ServerAssumption DEF Inv, TypeOK
  <1>3. TypeOK'
    BY <1>1, <1>2, RestOfBacklog, NoConnType DEF Inv, TypeOK, Handling
  <1>4. conn'.total = 0 /\ conn'.capacity > 0 /\ conn'.capacity = InitialCapacity
    BY <1>1, NoConnType, ServerAssumption
  <1>5. Message'.header > 0
    BY <1>1, <1>2, ServerAssumption DEF Message
  <1>6. ConnInv'
    BY <1>1, <1>2, <1>4, <1>5 DEF ConnInv, Handling
  <1>7. QueueInv'
    BY <1>1, RestOfBacklog DEF Inv, QueueInv
  <1> QED BY <1>3, <1>6, <1>7 DEF Inv

LEMMA TurnAwayKeeps ==
    ASSUME Inv, TurnAway
    PROVE  Inv'
  <1> DEFINE head == Head(backlog)
  <1>1. /\ pc = "accept" /\ backlog # <<>> /\ backlog' = Tail(backlog)
        /\ client' = [client EXCEPT ![head] = Away]
        /\ pc' = "check" /\ UNCHANGED <<running, serving, conn>>
    BY DEF TurnAway
  <1>2. serving = NoClient
    BY <1>1 DEF Inv, ConnInv, Handling
  <1>3. client \in ClientTable /\ head \in Clients
    BY <1>1, RestOfBacklog DEF Inv, TypeOK, ClientTable
  <1>4. /\ client' \in ClientTable /\ client'[head].state = "away"
        /\ \A d \in Clients \ {head} : client'[d] = client[d]
    BY <1>1, <1>3, AwayType DEF ClientTable, Away
  <1>5. TypeOK'
    BY <1>1, <1>4, RestOfBacklog DEF Inv, TypeOK, ClientTable
  <1>6. ConnInv'
    BY <1>1, <1>2 DEF ConnInv, Handling
  <1>7. QueueInv'
    <2>1. \A i \in DOMAIN backlog' : client'[backlog'[i]].state # "away" /\ backlog'[i] # serving'
      BY <1>1, <1>4, RestOfBacklog
    <2>2. \A d \in Clients : client'[d].state # "away" => client'[d].message \in Messages
      BY <1>4 DEF Inv, QueueInv
    <2> QED BY <1>1, <1>2, <2>1, <2>2, RestOfBacklog DEF QueueInv
  <1> QED BY <1>5, <1>6, <1>7 DEF Inv

--------------------------------------------------------------------------------
(* The handler.                                                            *)

\* A step of the reading loops: only the connection and the station change.
LEMMA ReadingKeeps ==
    ASSUME Inv, serving # NoClient, pc' \in Handling, conn' \in ConnType,
           UNCHANGED <<running, backlog, serving, client>>, ConnInv'
    PROVE  Inv'
  BY DEF Inv, TypeOK, QueueInv, ConnType

LEMMA ReadHeaderKeeps ==
    ASSUME Inv, ReadHeader
    PROVE  Inv'
  <1> DEFINE n == Smaller(conn.capacity - 1 - conn.total, Unread)
             read == [conn EXCEPT !.total = @ + n]
             parsed == Parsed(read)
  <1>1. /\ pc = "header" /\ conn.total < conn.capacity - 1 /\ Unread > 0
        /\ serving # NoClient /\ conn.capacity = InitialCapacity
    BY DEF ReadHeader, Inv, ConnInv, Handling
  <1>2. /\ serving \in Clients /\ Message.header \in Nat \ {0} /\ Message.announced \in Nat
        /\ Message.number \in Int /\ Message.at \in Nat
        /\ client[serving].arrived \in Nat /\ conn \in ConnType
    BY <1>1, ServedClient
  <1>3. /\ n \in Nat /\ n <= conn.capacity - 1 - conn.total
        /\ conn.total + n <= client[serving].arrived
    BY <1>1, <1>2 DEF Smaller, Unread, ConnType
  <1> HIDE DEF n
  <1>4. /\ read \in ConnType /\ read.total = conn.total + n
        /\ read.capacity = conn.capacity
        /\ read.total < read.capacity /\ read.total <= client[serving].arrived
    BY <1>2, <1>3 DEF ConnType
  <1> HIDE DEF read
  <1> DEFINE found == AsSize(Atol(Message.number))
             want  == IF Message.at <= read.total THEN found ELSE 0
  <1>w. found \in Nat /\ want \in Nat
    BY <1>2, AtolIs, SizeIs
  <1>u. ASSUME read.total >= Message.header, Understood(Message)
        PROVE  want = Message.announced
    <2>1. Message.number = Message.announced /\ Message.at <= read.total
      BY <1>2, <1>4, <1>u DEF Understood, ConnType
    <2>2. Message.announced \in 0 .. LongLimit - 1
      BY <1>2, <1>u, ServerAssumption DEF Understood
    <2>3. Atol(Message.announced) = Message.announced
      BY <2>2, AtolIs
    <2>4. AsSize(Message.announced) = Message.announced
      BY <2>2, SizeIs, ServerAssumption
    <2> QED BY <2>1, <2>3, <2>4
  <1>5. ASSUME read.total >= Message.header
        PROVE  /\ parsed \in ConnType
               /\ parsed.total = parsed.header + parsed.got
               /\ parsed.header = Message.header /\ parsed.want = want
               /\ parsed.total = read.total /\ parsed.capacity = read.capacity
    <2> DEFINE got == read.total - Message.header
    <2>1. got \in Nat /\ read.total = Message.header + got
      BY <1>2, <1>4, <1>5 DEF ConnType
    <2>2. parsed = [read EXCEPT !.header = Message.header,
                                !.want = want, !.got = got]
      BY DEF Parsed
    <2> HIDE DEF got, parsed, want
    <2>3. /\ parsed \in ConnType
          /\ parsed.header = Message.header /\ parsed.want = want
          /\ parsed.got = got /\ parsed.total = read.total
          /\ parsed.capacity = read.capacity
      BY <1>2, <1>4, <1>w, <2>1, <2>2 DEF ConnType
    <2> QED BY <2>1, <2>3
  <1> HIDE DEF parsed
  <1>n. ASSUME read.total >= Message.header, MoreExpected(parsed),
               ~ WrapsAround(Message)
        PROVE  Needed(parsed) = parsed.header + parsed.want + 1
    <2>1. parsed.header = Message.header /\ Message.header < InitialCapacity
      BY <1>1, <1>2, <1>4, <1>5, <1>n, ServerAssumption DEF ConnType
    <2>2. parsed.want = found
      BY <1>5, <1>n DEF MoreExpected
    <2>3. Message.number \notin -(Message.header + 1) .. -1
      BY <1>n DEF WrapsAround
    <2> QED BY <1>2, <2>1, <2>2, <2>3, SumFits DEF Needed
  <1> HIDE DEF found, want
  <1>6. CASE /\ read.total < Message.header /\ conn' = read /\ pc' = pc
             /\ UNCHANGED <<running, backlog, serving, client>>
    <2>1. ConnInv'
      BY <1>1, <1>2, <1>4, <1>6 DEF ConnInv, Handling, Message
    <2> QED BY <1>1, <1>4, <1>6, <2>1, ReadingKeeps DEF Handling
  <1>7. CASE /\ read.total >= Message.header /\ ~ MoreExpected(parsed)
             /\ conn' = parsed /\ pc' = "answer"
             /\ UNCHANGED <<running, backlog, serving, client>>
    <2>1. ~ (parsed.got < parsed.want)
      BY <1>2, <1>5, <1>7 DEF MoreExpected, ConnType
    <2>2. /\ Understood(Message)' => Understood(Message)
          /\ WrapsAround(Message)' <=> WrapsAround(Message)
          /\ Message' = Message
      BY <1>7 DEF Message, Understood, WrapsAround
    <2>3. ConnInv'
      BY <1>1, <1>2, <1>4, <1>5, <1>u, <1>7, <2>1, <2>2 DEF ConnInv, Handling
    <2> QED BY <1>1, <1>5, <1>7, <2>3, ReadingKeeps DEF Handling
  <1>8. CASE /\ read.total >= Message.header /\ MoreExpected(parsed)
             /\ conn' = [parsed EXCEPT !.capacity =
                            IF Needed(parsed) > @ THEN Needed(parsed) ELSE @]
             /\ pc' = "body" /\ UNCHANGED <<running, backlog, serving, client>>
    <2> DEFINE size == IF Needed(parsed) > parsed.capacity THEN Needed(parsed)
                                                           ELSE parsed.capacity
    <2>1. parsed.got < parsed.want
      BY <1>8 DEF MoreExpected
    <2>2. Needed(parsed) \in Nat
      BY <1>5, <1>8, SizeIs DEF Needed, ConnType
    <2>3. size \in Nat
      BY <1>5, <1>8, <2>2 DEF ConnType
    <2>4. ~ WrapsAround(Message) => /\ parsed.header + parsed.want < size
                                   /\ parsed.total < size
      BY <1>n, <1>5, <1>8, <2>1 DEF ConnType
    <2>5. conn' = [parsed EXCEPT !.capacity = size]
      BY <1>8
    <2> HIDE DEF size
    <2>6. /\ conn' \in ConnType /\ conn'.capacity = size
          /\ conn'.total = parsed.total /\ conn'.header = parsed.header
          /\ conn'.want = parsed.want /\ conn'.got = parsed.got
      BY <1>5, <1>8, <2>3, <2>5 DEF ConnType
    <2>7. /\ Understood(Message)' => Understood(Message)
          /\ WrapsAround(Message)' <=> WrapsAround(Message)
          /\ Message' = Message
      BY <1>8 DEF Message, Understood, WrapsAround
    <2>8. ConnInv'
      BY <1>1, <1>2, <1>4, <1>5, <1>u, <1>8, <2>1, <2>4, <2>6, <2>7 DEF ConnInv, Handling
    <2> QED BY <1>1, <1>8, <2>6, <2>8, ReadingKeeps DEF Handling
  <1>9. CASE CloseConnection
    BY <1>1, <1>9, CloseKeeps
  <1> QED BY <1>6, <1>7, <1>8, <1>9 DEF ReadHeader, n, read, parsed

LEMMA ReadBodyKeeps ==
    ASSUME Inv, ReadBody
    PROVE  Inv'
  <1> DEFINE n == Smaller(AtMost, Unread)
  <1>1. pc = "body" /\ Unread > 0 /\ serving # NoClient
    BY DEF ReadBody, Inv, ConnInv, Handling
  <1>2. /\ Message.header \in Nat \ {0} /\ client[serving].arrived \in Nat
        /\ conn \in ConnType
    BY <1>1, ServedClient
  <1>3. /\ conn.total = conn.header + conn.got /\ conn.header = Message.header
        /\ Understood(Message) => conn.want = Message.announced
        /\ conn.got < conn.want
        /\ ~ WrapsAround(Message) => conn.header + conn.want < conn.capacity
    BY <1>1 DEF Inv, ConnInv
  <1>4. AtMost \in Nat /\ AtMost <= conn.want - conn.got
    BY <1>2, <1>3, AtMostIs DEF ConnType
  <1>5. /\ n \in Nat /\ conn.got + n <= conn.want
        /\ conn.total + n <= client[serving].arrived
    BY <1>1, <1>2, <1>3, <1>4 DEF Smaller, Unread, ConnType
  <1>6. CASE /\ conn' = [conn EXCEPT !.total = @ + n, !.got = @ + n]
             /\ pc' = IF conn.got + n < conn.want THEN "body" ELSE "answer"
             /\ UNCHANGED <<running, backlog, serving, client>>
    <2> HIDE DEF n
    <2>1. /\ conn' \in ConnType
          /\ conn'.total = conn.total + n /\ conn'.got = conn.got + n
          /\ conn'.header = conn.header /\ conn'.want = conn.want
          /\ conn'.capacity = conn.capacity
      <3> DEFINE total == conn.total + n
                 got == conn.got + n
      <3>1. total \in Nat /\ got \in Nat
        BY <1>2, <1>5 DEF ConnType
      <3>2. conn' = [conn EXCEPT !.total = total, !.got = got]
        BY <1>6
      <3> HIDE DEF total, got
      <3>3. /\ conn' \in ConnType /\ conn'.total = total /\ conn'.got = got
            /\ conn'.header = conn.header /\ conn'.want = conn.want
            /\ conn'.capacity = conn.capacity
        BY <1>2, <3>1, <3>2 DEF ConnType
      <3> QED BY <3>3 DEF total, got
    <2>2. /\ conn'.total = conn'.header + conn'.got
          /\ ~ WrapsAround(Message) => conn'.total < conn'.capacity
      BY <1>2, <1>3, <1>5, <2>1 DEF ConnType
    <2>3. /\ Understood(Message)' => Understood(Message)
          /\ WrapsAround(Message)' <=> WrapsAround(Message)
          /\ Message' = Message
      BY <1>6 DEF Message, Understood, WrapsAround
    <2>4. ConnInv'
      BY <1>1, <1>2, <1>3, <1>5, <1>6, <2>1, <2>2, <2>3 DEF ConnInv, Handling
    <2> QED BY <1>1, <1>6, <2>1, <2>4, ReadingKeeps DEF Handling
  <1>7. CASE EndProcess("killed")
    BY <1>7, EndKeeps DEF Ended
  <1> QED BY <1>6, <1>7 DEF ReadBody

LEMMA BodyEndsKeeps ==
    ASSUME Inv, BodyEnds
    PROVE  Inv'
  <1>1. /\ pc = "body" /\ serving # NoClient /\ pc' = "answer"
        /\ UNCHANGED <<running, backlog, serving, conn, client>>
    BY DEF BodyEnds, Inv, ConnInv, Handling
  <1>2. conn \in ConnType /\ conn' \in ConnType /\ pc' \in Handling
    BY <1>1, ServedClient DEF Handling
  <1>3. /\ conn.got < conn.want
        /\ Understood(Message) => conn.want = Message.announced
    BY <1>1 DEF Inv, ConnInv
  <1>4. Understood(Message) => client[serving].state = "gone"
    <2>1. Understood(Message) => conn.want < IntLimit
      BY <1>3 DEF Understood
    <2>2. conn.want < IntLimit => ToRead > 0
      BY <1>2, <1>3, AtMostIs DEF ConnType
    <2>3. ToRead \in Int
      <3>1. conn.want - conn.got \in Nat
        BY <1>2, <1>3 DEF ConnType
      <3> QED BY <3>1, IntIs DEF ToRead
    <2> QED BY <2>1, <2>2, <2>3 DEF BodyEnds, NothingMore
  <1>5. /\ Understood(Message)' => Understood(Message)
        /\ WrapsAround(Message)' <=> WrapsAround(Message)
        /\ Message' = Message
    BY <1>1 DEF Message, Understood, WrapsAround
  <1>6. ConnInv'
    BY <1>1, <1>3, <1>4, <1>5 DEF Inv, ConnInv, Handling
  <1> QED BY <1>1, <1>2, <1>6, ReadingKeeps

LEMMA StepKeeps ==
    ASSUME Inv, [Next]_vars
    PROVE  Inv'
  <1>1. CASE UNCHANGED vars
    BY <1>1 DEF vars, Inv, TypeOK, ConnInv, QueueInv, Message
  <1>2. ASSUME NEW c \in Clients, NEW m \in Messages, Connect(c, m) PROVE Inv'
    BY <1>2, ConnectKeeps
  <1>3. ASSUME NEW c \in Clients, Progress(c) PROVE Inv'
    BY <1>3, ProgressMoves, MovesKeeps
  <1>4. CASE Signal
    BY <1>4, SignalKeeps
  <1>5. CASE NoHeader
    BY <1>5, CloseKeeps DEF NoHeader, Inv, ConnInv, Handling
  <1>6. CASE Answer
    <2>1. serving # NoClient
      BY <1>6 DEF Answer, Inv, ConnInv, Handling
    <2> QED BY <1>6, <2>1, CloseKeeps, EndKeeps DEF Answer, Ended
  <1> QED BY <1>1, <1>2, <1>3, <1>4, <1>5, <1>6, CheckKeeps, AcceptKeeps,
             TurnAwayKeeps, ReadHeaderKeeps, ReadBodyKeeps, BodyEndsKeeps
          DEF Next, Server

--------------------------------------------------------------------------------
(* Theorems.                                                               *)

\* The types and the two invariants hold in every reachable state.
THEOREM ServerInvariant == Spec => []Inv
  <1>1. Init => Inv
    <2> SUFFICES ASSUME Init PROVE Inv
      OBVIOUS
    <2>1. backlog \in Seq(Clients) /\ Len(backlog) = 0 /\ DOMAIN backlog = {}
      BY DEF Init
    <2>2. client \in ClientTable /\ \A c \in Clients : client[c].state = "away"
      BY AwayType DEF Init, ClientTable, Away
    <2>3. TypeOK
      BY <2>1, <2>2, NoConnType, ServerAssumption DEF Init, TypeOK, ClientTable
    <2> QED BY <2>1, <2>2, <2>3 DEF Init, Inv, ConnInv, QueueInv, Handling
  <1>2. Inv /\ [Next]_vars => Inv'
    BY StepKeeps
  <1> QED BY <1>1, <1>2, PTL DEF Spec

\* Counters, queue and client records are of their types.
THEOREM ServerTypes == Spec => []TypeOK
  BY ServerInvariant, PTL DEF Inv

\* Both reading loops and every terminating zero stay inside the buffer,
\* however the bytes arrive and whatever number is found, unless the number is
\* negative and wraps around when the headers and the zero are added to it.
THEOREM BufferSafety == Spec => []StaysInBuffer
  <1>1. Inv => StaysInBuffer
    <2> SUFFICES ASSUME Inv, pc \in Handling, ~ WrapsAround(Message)
                 PROVE  /\ conn.total < conn.capacity
                        /\ pc = "body" => conn.total + AtMost < conn.capacity
      BY DEF StaysInBuffer
    <2>1. conn \in ConnType
      BY DEF Inv, TypeOK, ConnType
    <2>2. conn.total < conn.capacity
      BY DEF Inv, ConnInv, Handling
    <2>3. ASSUME pc = "body" PROVE conn.total + AtMost < conn.capacity
      <3>1. /\ conn.total = conn.header + conn.got /\ conn.got < conn.want
            /\ conn.header + conn.want < conn.capacity
        BY <2>3 DEF Inv, ConnInv
      <3>2. AtMost \in Nat /\ AtMost <= conn.want - conn.got
        BY <2>1, <3>1, AtMostIs DEF ConnType
      <3> QED BY <2>1, <3>1, <3>2 DEF ConnType
    <2> QED BY <2>2, <2>3
  <1> QED BY <1>1, ServerInvariant, PTL

\* What is answered are the headers and the body bytes counted; a client that
\* stays is answered only when all it announced has been read, if its length is
\* in a spelling the search finds and an int holds it.
THEOREM WholeRequests == Spec => []AnsweredWhole
  <1>1. Inv => AnsweredWhole
    <2> SUFFICES ASSUME Inv, pc = "answer"
                 PROVE  /\ conn.total = Message.header + conn.got
                        /\ conn.total <= client[serving].arrived
                        /\ client[serving].state = "open" /\ Understood(Message) =>
                               conn.got >= Message.announced
      BY DEF AnsweredWhole
    <2>1. serving # NoClient
      BY DEF Inv, ConnInv, Handling
    <2>2. conn \in ConnType /\ Message.announced \in Nat
      BY <2>1, ServedClient
    <2>3. /\ conn.total = Message.header + conn.got
          /\ conn.total <= client[serving].arrived
      BY <2>1 DEF Inv, ConnInv
    <2>4. Understood(Message) /\ client[serving].state = "open" =>
              ~ (conn.got < conn.want) /\ conn.want = Message.announced
      BY DEF Inv, ConnInv
    <2> QED BY <2>2, <2>3, <2>4 DEF ConnType
  <1> QED BY <1>1, ServerInvariant, PTL

--------------------------------------------------------------------------------
(* The queue of requests.                                                  *)

LEMMA PhaseIs ==
    /\ pc \in Ended => Phase = "shut"
    /\ pc \notin Ended /\ running => Phase = "open"
    /\ pc = "accept" /\ ~ running => Phase = "closing"
    /\ pc \notin Ended \cup {"accept"} /\ ~ running => Phase = "last"
  BY DEF Phase, Ended

LEMMA PhaseNext ==
    /\ pc' \in Ended => Phase' = "shut"
    /\ pc' \notin Ended /\ running' => Phase' = "open"
    /\ pc' = "accept" /\ ~ running' => Phase' = "closing"
    /\ pc' \notin Ended \cup {"accept"} /\ ~ running' => Phase' = "last"
  BY DEF Phase, Ended

LEMMA CloseRefines ==
    ASSUME Inv, pc \in Handling, CloseConnection
    PROVE  Queue!Finish
  <1>1. serving # NoClient
    BY DEF Inv, ConnInv
  <1>2. serving' = NoClient /\ pc' = "check" /\ UNCHANGED <<running, backlog>>
    BY DEF CloseConnection
  <1>3. Phase' = Phase
    <2>1. running \in BOOLEAN
      BY DEF Inv, TypeOK
    <2> QED BY <1>2, <2>1, PhaseIs, PhaseNext DEF Handling, Ended
  <1> QED BY <1>1, <1>2, <1>3 DEF Queue!Finish

LEMMA EndRefines ==
    ASSUME pc \notin Ended, Phase = "last" \/ serving # NoClient,
           NEW how \in Ended, EndProcess(how)
    PROVE  Queue!Shut
  <1>1. Phase # "shut"
    BY PhaseIs DEF Ended
  <1>2. backlog' = <<>> /\ serving' = NoClient /\ pc' = how
    BY DEF EndProcess
  <1>3. Phase' = "shut"
    BY <1>2, PhaseNext
  <1> QED BY <1>1, <1>2, <1>3 DEF Queue!Shut, Queue!Gone

\* Steps that leave backlog, connection and phase alone.
LEMMA QuietRefines ==
    ASSUME Inv, UNCHANGED <<running, backlog, serving>>,
           \/ pc' = pc
           \/ pc \in Handling /\ pc' \in Handling
           \/ pc = "check" /\ pc' = "accept" /\ running
    PROVE  UNCHANGED Queue!queue
  <1>1. running \in BOOLEAN
    BY DEF Inv, TypeOK
  <1>2. Phase' = Phase
    <2>1. CASE pc' = pc
      BY <2>1 DEF Phase
    <2>2. CASE pc \in Handling /\ pc' \in Handling
      BY <1>1, <2>2, PhaseIs, PhaseNext DEF Handling, Ended
    <2>3. CASE pc = "check" /\ pc' = "accept" /\ running
      BY <2>3, PhaseIs, PhaseNext DEF Ended
    <2> QED BY <2>1, <2>2, <2>3
  <1> QED BY <1>2 DEF Queue!queue

LEMMA ConnectRefines ==
    ASSUME Inv, NEW c \in Clients, NEW m \in Messages, Connect(c, m)
    PROVE  Queue!QueueNext
  <1>1. /\ pc \notin Ended /\ client[c].state = "away"
        /\ backlog' = Append(backlog, c) /\ UNCHANGED <<running, pc, serving>>
    BY DEF Connect
  <1>2. c # serving /\ \A i \in DOMAIN backlog : backlog[i] # c
    BY <1>1, ServerAssumption DEF Inv, QueueInv
  <1>3. Phase # "shut" /\ Phase' = Phase
    <2>1. Phase # "shut"
      BY <1>1, PhaseIs DEF Inv, TypeOK, Ended
    <2> QED BY <1>1, <2>1 DEF Phase
  <1> QED BY <1>1, <1>2, <1>3 DEF Queue!QueueNext, Queue!Arrive

LEMMA SignalRefines ==
    ASSUME Inv, Signal
    PROVE  Queue!QueueNext
  <1>1. Phase = "open" /\ Phase' \in {"closing", "last"}
    BY PhaseIs, PhaseNext DEF Signal
  <1> QED BY <1>1 DEF Signal, Queue!QueueNext, Queue!Close

\* The head of the backlog is served, or it is turned away.
LEMMA CallRefines ==
    ASSUME Inv, Accept \/ TurnAway
    PROVE  Queue!QueueNext
  <1>1. /\ pc = "accept" /\ backlog # <<>> /\ backlog' = Tail(backlog)
        /\ running' = running /\ pc' \in {"header", "check"}
        /\ serving = NoClient
    BY DEF Accept, TurnAway, Inv, ConnInv, Handling
  <1>2. running \in BOOLEAN /\ Head(backlog) \in Clients
    BY <1>1, RestOfBacklog DEF Inv, TypeOK
  <1>3. /\ Phase \in {"open", "closing"}
        /\ Phase' = IF Phase = "closing" THEN "last" ELSE Phase
    <2>1. CASE running
      BY <1>1, <2>1, PhaseIs, PhaseNext DEF Ended
    <2>2. CASE ~ running
      BY <1>1, <2>2, PhaseIs, PhaseNext DEF Ended
    <2> QED BY <1>2, <2>1, <2>2
  <1>4. CASE serving' = Head(backlog)
    BY <1>1, <1>2, <1>3, <1>4 DEF Queue!QueueNext, Queue!Call
  <1>5. CASE serving' = NoClient
    BY <1>1, <1>3, <1>5 DEF Queue!QueueNext, Queue!Call
  <1> QED BY <1>1, <1>4, <1>5 DEF Accept, TurnAway

LEMMA ServerRefines ==
    ASSUME Inv, Server
    PROVE  [Queue!QueueNext]_(Queue!queue)
  <1>1. CASE Check
    <2>1. CASE running
      BY <1>1, <2>1, QuietRefines DEF Check
    <2>2. CASE ~ running
      <3>1. pc = "check" /\ EndProcess("stopped")
        BY <1>1, <2>2 DEF Check
      <3>2. Phase = "last" /\ pc \notin Ended
        BY <2>2, <3>1, PhaseIs DEF Ended
      <3> QED BY <3>1, <3>2, EndRefines DEF Ended, Queue!QueueNext
    <2> QED BY <2>1, <2>2
  <1>2. CASE Accept \/ TurnAway
    BY <1>2, CallRefines
  <1>3. CASE ReadHeader
    <2>1. pc = "header"
      BY <1>3 DEF ReadHeader
    <2>2. \/ CloseConnection
          \/ /\ UNCHANGED <<running, backlog, serving>>
             /\ pc' = pc \/ pc' \in Handling
      BY <1>3 DEF ReadHeader, Handling
    <2> QED BY <2>1, <2>2, CloseRefines, QuietRefines DEF Handling, Queue!QueueNext
  <1>4. CASE NoHeader
    BY <1>4, CloseRefines DEF NoHeader, Handling, Queue!QueueNext
  <1>5. CASE ReadBody \/ BodyEnds
    <2>1. pc \in Handling /\ pc \notin Ended /\ serving # NoClient
      BY <1>5 DEF ReadBody, BodyEnds, Inv, ConnInv, Handling, Ended
    <2>2. \/ pc' \in Handling /\ UNCHANGED <<running, backlog, serving>>
          \/ EndProcess("killed")
      BY <1>5 DEF ReadBody, BodyEnds, Handling
    <2>3. CASE pc' \in Handling /\ UNCHANGED <<running, backlog, serving>>
      BY <2>1, <2>3, QuietRefines
    <2>4. CASE EndProcess("killed")
      BY <2>1, <2>4, EndRefines DEF Ended, Queue!QueueNext
    <2> QED BY <2>2, <2>3, <2>4
  <1>6. CASE Answer
    <2>1. pc = "answer" /\ serving # NoClient
      BY <1>6 DEF Answer, Inv, ConnInv, Handling
    <2>2. CASE CloseConnection
      BY <2>1, <2>2, CloseRefines DEF Handling, Queue!QueueNext
    <2>3. CASE EndProcess("killed")
      BY <2>1, <2>3, EndRefines DEF Ended, Queue!QueueNext
    <2> QED BY <1>6, <2>2, <2>3 DEF Answer
  <1> QED BY <1>1, <1>2, <1>3, <1>4, <1>5, <1>6 DEF Server

\* The server implements the queue of requests: connections are served one
\* at a time in order, and at most one more after the shutdown signal.
THEOREM ServerImplementsQueue == Spec => ImplementsQueue
  <1>1. Init => Queue!QueueInit
    BY PhaseIs DEF Init, Queue!QueueInit, Ended
  <1>2. ASSUME Inv, [Next]_vars
        PROVE  [Queue!QueueNext]_(Queue!queue)
    <2>1. CASE UNCHANGED vars
      BY <1>2, <2>1, QuietRefines DEF vars
    <2>2. ASSUME NEW c \in Clients, NEW m \in Messages, Connect(c, m)
          PROVE  [Queue!QueueNext]_(Queue!queue)
      BY <1>2, <2>2, ConnectRefines
    <2>3. ASSUME NEW c \in Clients, Progress(c)
          PROVE  [Queue!QueueNext]_(Queue!queue)
      <3>1. UNCHANGED <<running, pc, backlog, serving>>
        BY <1>2, <2>3, ProgressMoves DEF Moves
      <3> QED BY <1>2, <3>1, QuietRefines
    <2>4. CASE Signal
      BY <1>2, <2>4, SignalRefines
    <2>5. CASE Server
      BY <1>2, <2>5, ServerRefines
    <2> QED BY <1>2, <2>1, <2>2, <2>3, <2>4, <2>5 DEF Next
  <1> QED BY <1>1, <1>2, ServerInvariant, PTL
      DEF Spec, ImplementsQueue, Queue!QueueSpec
================================================================================
