------------------------------- MODULE HttpServer -------------------------------
(***************************************************************************)
(* The accept loop and the connection handler of server.c, and the clients *)
(* at the other end of the sockets.                                        *)
(*                                                                         *)
(* One thread does everything: it checks the running flag, blocks in       *)
(* accept, reads one request with blocking recv calls into one buffer,     *)
(* answers, closes, and starts over.  Meanwhile clients connect, deliver   *)
(* bytes in pieces of any size, or hang up, and a signal may clear the     *)
(* flag at any moment; it wakes neither accept nor recv, which the system  *)
(* restarts.                                                               *)
(*                                                                         *)
(* Sizes are counted in bytes and contents are left out.  Of a message the *)
(* model keeps the bytes up to and including the empty line after the      *)
(* headers, the bytes the client then sends, and the length it announces   *)
(* by the rules of HTTP.  The server does not read headers by these rules: *)
(* it looks for the text "Content-Length: ", or else "content-length: ",   *)
(* anywhere in what has arrived, and reads the number behind it.  That     *)
(* number, and the byte by which it has arrived, are the last two fields.  *)
(* A length spelled in another way is not found (number 0 at 0), and one   *)
(* quoted in a body is found, when it has arrived.                         *)
(***************************************************************************)
EXTENDS Integers, Sequences

CONSTANTS
    Clients,
    NoClient,
    Messages,          \* what clients send
    InitialCapacity,   \* 65536, the first size of the receive buffer
    IntLimit,          \* 2^31: int is -2^31 .. 2^31 - 1
    LongLimit,         \* 2^63: long is -2^63 .. 2^63 - 1, size_t 0 .. 2^64 - 1
    Backlog            \* 64, the connections the system queues

ASSUME ServerAssumption ==
    /\ NoClient \notin Clients
    /\ InitialCapacity \in Nat \ {0}
    /\ IntLimit \in Nat /\ InitialCapacity < IntLimit
    /\ LongLimit \in Nat /\ IntLimit <= LongLimit
    /\ Backlog \in Nat \ {0}
    /\ Messages \subseteq [header : Nat \ {0}, body : Nat, announced : Nat,
                           number : Int, at : Nat]

VARIABLES
    running,   \* g_keep_running
    pc,        \* where the server thread is
    backlog,   \* connections not accepted yet, oldest first
    serving,   \* the client of the open connection, or NoClient
    conn,      \* the variables of handle_http_client
    client     \* the clients: state, message, bytes that have arrived

vars == <<running, pc, backlog, serving, conn, client>>

(***************************************************************************)
(* The thread is at the loop condition, in accept, in the first or in the  *)
(* second recv loop, or about to answer; or the process has ended, by      *)
(* leaving the loop or killed by a signal.                                 *)
(***************************************************************************)
Handling == {"header", "body", "answer"}
Ended    == {"stopped", "killed"}

\* buf_capacity, total_bytes, header_len, content_length, body_bytes_read.
NoConn == [capacity |-> 0, total |-> 0, header |-> 0, want |-> 0, got |-> 0]

NewConn == [NoConn EXCEPT !.capacity = InitialCapacity]

NoMessage == [header |-> 0, body |-> 0, announced |-> 0, number |-> 0, at |-> 0]
Away      == [state |-> "away", message |-> NoMessage, arrived |-> 0]

Size(message) == message.header + message.body

TypeOK ==
    /\ running \in BOOLEAN
    /\ pc \in {"check", "accept"} \cup Handling \cup Ended
    /\ backlog \in Seq(Clients) /\ Len(backlog) <= Backlog
    /\ serving \in Clients \cup {NoClient}
    /\ conn \in [capacity : Nat, total : Nat, header : Nat, want : Nat, got : Nat]
    /\ client \in [Clients -> [state : {"away", "open", "gone"},
                               message : Messages \cup {NoMessage},
                               arrived : Nat]]

Init ==
    /\ running = TRUE
    /\ pc = "check"
    /\ backlog = <<>>
    /\ serving = NoClient
    /\ conn = NoConn
    /\ client = [c \in Clients |-> Away]

(***************************************************************************)
(* The other end: clients and the operating system.                        *)
(***************************************************************************)
Connect(c, message) ==
    /\ pc \notin Ended /\ Len(backlog) < Backlog
    /\ client[c].state = "away"
    /\ client' = [client EXCEPT ![c] =
                     [state |-> "open", message |-> message, arrived |-> 0]]
    /\ backlog' = Append(backlog, c)
    /\ UNCHANGED <<running, pc, serving, conn>>

Deliver(c, n) ==
    /\ client[c].state = "open"
    /\ client[c].arrived + n <= Size(client[c].message)
    /\ client' = [client EXCEPT ![c].arrived = @ + n]
    /\ UNCHANGED <<running, pc, backlog, serving, conn>>

\* Hanging up; a reset also takes back what the server has not read yet.
HangUp(c) ==
    /\ client[c].state = "open"
    /\ \/ client' = [client EXCEPT ![c].state = "gone"]
       \/ client' = [client EXCEPT ![c].state = "gone",
                        ![c].arrived = IF c = serving THEN conn.total ELSE 0]
    /\ UNCHANGED <<running, pc, backlog, serving, conn>>

\* handle_signal
Signal ==
    /\ running /\ pc \notin Ended
    /\ running' = FALSE
    /\ UNCHANGED <<pc, backlog, serving, conn, client>>

(***************************************************************************)
(* The loop of server_start.                                               *)
(***************************************************************************)
EndProcess(how) ==
    /\ pc' = how
    /\ backlog' = <<>> /\ serving' = NoClient /\ conn' = NoConn
    /\ client' = [c \in Clients |-> Away]
    /\ running' = running

\* The loop never looks at the flag.
FaultyCheck ==
    /\ pc = "check"
    /\ pc' = "accept"
    /\ UNCHANGED <<running, backlog, serving, conn, client>>

Check ==
    /\ pc = "check"
    /\ IF running
       THEN pc' = "accept" /\ UNCHANGED <<running, backlog, serving, conn, client>>
       ELSE EndProcess("stopped")

Accept ==
    /\ pc = "accept" /\ backlog # <<>>
    /\ serving' = Head(backlog) /\ backlog' = Tail(backlog)
    /\ conn' = NewConn
    /\ pc' = "header"
    /\ UNCHANGED <<running, client>>

\* accept fails for the connection, or there is no memory for its buffer.
TurnAway ==
    /\ pc = "accept" /\ backlog # <<>>
    /\ backlog' = Tail(backlog)
    /\ client' = [client EXCEPT ![Head(backlog)] = Away]
    /\ pc' = "check"
    /\ UNCHANGED <<running, serving, conn>>

(***************************************************************************)
(* handle_http_client.                                                     *)
(***************************************************************************)
Message == client[serving].message
Unread  == client[serving].arrived - conn.total

\* recv returns 0 or an error.
NothingMore == Unread = 0 /\ client[serving].state = "gone"

Smaller(a, b) == IF a <= b THEN a ELSE b

\* After an answer the loop goes straight back to accept.
FaultyCloseConnection ==
    /\ serving' = NoClient /\ conn' = NoConn
    /\ client' = [client EXCEPT ![serving] = Away]
    /\ pc' = "accept"
    /\ UNCHANGED <<running, backlog>>

CloseConnection ==
    /\ serving' = NoClient /\ conn' = NoConn
    /\ client' = [client EXCEPT ![serving] = Away]
    /\ pc' = "check"
    /\ UNCHANGED <<running, backlog>>

(***************************************************************************)
(* The conversions of content_length: atol stops at the limits of long,    *)
(* size_t wraps around, and the length of a recv is cast to int.           *)
(***************************************************************************)
Atol(number) ==
    IF number < -LongLimit THEN -LongLimit
    ELSE Smaller(number, LongLimit - 1)

AsSize(n) == n % (2 * LongLimit)

AsInt(n) ==
    LET low == n % (2 * IntLimit)
    IN  IF low < IntLimit THEN low ELSE low - 2 * IntLimit

Parsed(c) ==
    [c EXCEPT !.header = Message.header,
              !.want   = IF Message.at <= c.total THEN AsSize(Atol(Message.number)) ELSE 0,
              !.got    = c.total - Message.header]

\* The terminating zero is forgotten.
FaultyNeeded(c) == AsSize(c.header + c.want)

Needed(c) == AsSize(c.header + c.want + 1)

MoreExpected(c) == c.want > 0 /\ c.got < c.want

\* Reads until the empty line; then looks at the length and makes room.
\* What is asked of recv is less than the buffer and survives the cast.  No
\* block is larger than half of the address space: realloc refuses.
ReadHeader ==
    /\ pc = "header" /\ conn.total < conn.capacity - 1 /\ Unread > 0
    /\ LET n == Smaller(conn.capacity - 1 - conn.total, Unread)
           read == [conn EXCEPT !.total = @ + n]
           parsed == Parsed(read)
       IN  \/ /\ read.total < Message.header
              /\ conn' = read /\ pc' = pc
              /\ UNCHANGED <<running, backlog, serving, client>>
           \/ /\ read.total >= Message.header /\ ~ MoreExpected(parsed)
              /\ conn' = parsed /\ pc' = "answer"
              /\ UNCHANGED <<running, backlog, serving, client>>
           \/ /\ read.total >= Message.header /\ MoreExpected(parsed)
              /\ Needed(parsed) > parsed.capacity => Needed(parsed) < LongLimit
              /\ conn' = [parsed EXCEPT !.capacity =
                             IF Needed(parsed) > @ THEN Needed(parsed) ELSE @]
              /\ pc' = "body"
              /\ UNCHANGED <<running, backlog, serving, client>>
           \/ /\ read.total >= Message.header /\ MoreExpected(parsed)
              /\ Needed(parsed) > parsed.capacity
              /\ CloseConnection    \* realloc failed

\* The buffer is full, or the client is gone, and there was no empty line.
NoHeader ==
    /\ pc = "header"
    /\ conn.total >= conn.capacity - 1 \/ NothingMore
    /\ CloseConnection

\* The length of the next recv, as the cast leaves it.  A negative one is a
\* huge size_t again for the system, which refuses it or cuts it to what one
\* call may read.
ToRead == AsInt(conn.want - conn.got)
AtMost == IF ToRead >= 0 THEN ToRead ELSE IntLimit - 1

\* One recv is taken to be the whole body.
FaultyReadBody ==
    /\ pc = "body" /\ Unread > 0 /\ ToRead > 0
    /\ LET n == Smaller(ToRead, Unread)
       IN  conn' = [conn EXCEPT !.total = @ + n, !.got = @ + n]
    /\ pc' = "answer"
    /\ UNCHANGED <<running, backlog, serving, client>>

\* Bytes that land behind the buffer may end the process, or do nothing yet.
ReadBody ==
    /\ pc = "body" /\ Unread > 0 /\ AtMost > 0
    /\ LET n == Smaller(AtMost, Unread)
       IN  \/ /\ conn' = [conn EXCEPT !.total = @ + n, !.got = @ + n]
              /\ pc' = IF conn.got + n < conn.want THEN "body" ELSE "answer"
              /\ UNCHANGED <<running, backlog, serving, client>>
           \/ conn.total + n >= conn.capacity /\ EndProcess("killed")

\* The end of the connection does not end the loop.
FaultyBodyEnds ==
    /\ pc = "body" /\ NothingMore
    /\ UNCHANGED vars

\* recv returns 0 or an error, because the client is gone or because of the
\* length it was given: what there is of the body is handled all the same.
BodyEnds ==
    /\ pc = "body" /\ (NothingMore \/ ToRead <= 0)
    /\ pc' = "answer"
    /\ UNCHANGED <<running, backlog, serving, conn, client>>

\* Every path sends something and closes.  main installs no handler for
\* SIGPIPE: writing to a client that has hung up may end the process.
Answer ==
    /\ pc = "answer"
    /\ \/ CloseConnection
       \/ client[serving].state = "gone" /\ EndProcess("killed")

Server ==
    \/ Check
    \/ Accept
    \/ TurnAway
    \/ ReadHeader
    \/ NoHeader
    \/ ReadBody
    \/ BodyEnds
    \/ Answer

Progress(c) == (\E n \in 1 .. Size(client[c].message) : Deliver(c, n)) \/ HangUp(c)

Next ==
    \/ \E c \in Clients, m \in Messages : Connect(c, m)
    \/ \E c \in Clients : Progress(c)
    \/ Signal
    \/ Server

Spec == Init /\ [][Next]_vars

(***************************************************************************)
(* The server thread runs whenever it can.  No client stays silent for     *)
(* ever: each goes on sending what it has to send, or hangs up.            *)
(***************************************************************************)
FairSpec ==
    /\ Spec
    /\ WF_vars(Server)
    /\ \A c \in Clients : WF_vars(Progress(c))

(***************************************************************************)
(* Properties.                                                             *)
(***************************************************************************)
\* The number, as a size_t, wraps around when headers and zero are added.
WrapsAround(message) == message.number \in -(message.header + 1) .. -1

(***************************************************************************)
(* Every recv call and every terminating zero stays inside the buffer,     *)
(* however the bytes were cut into pieces, whether or not the buffer was   *)
(* enlarged between the two reading loops, and whatever number was found:  *)
(* except for a negative one that the sum of server.c:453 brings back to   *)
(* nothing, for which the buffer stays as small as it is.                  *)
(***************************************************************************)
StaysInBuffer ==
    pc \in Handling /\ ~ WrapsAround(Message) =>
        /\ conn.total < conn.capacity
        /\ pc = "body" => conn.total + AtMost < conn.capacity

\* The search finds in the headers the length the client announces, or it
\* announces none and none is found, and an int holds it.
Understood(message) ==
    /\ message.number = message.announced
    /\ message.at <= message.header
    /\ message.announced < IntLimit

(***************************************************************************)
(* What is answered are the headers and the body bytes counted, each once  *)
(* and all of this connection; and as long as the client has not hung up,  *)
(* they are everything it announced, if its length is understood.          *)
(***************************************************************************)
AnsweredWhole ==
    pc = "answer" =>
        /\ conn.total = Message.header + conn.got
        /\ conn.total <= client[serving].arrived
        /\ client[serving].state = "open" /\ Understood(Message) =>
               conn.got >= Message.announced

(***************************************************************************)
(* The server implements the queue of requests: connections are served in  *)
(* order, one at a time, and at most one after the shutdown signal.        *)
(***************************************************************************)
Phase ==
    CASE pc \in Ended                        -> "shut"
      [] pc \notin Ended /\ running          -> "open"
      [] pc = "accept" /\ ~ running          -> "closing"
      [] pc \notin Ended \cup {"accept"} /\ ~ running -> "last"

Queue == INSTANCE RequestQueue WITH
    Customers <- Clients, Nobody <- NoClient,
    waiting <- backlog, current <- serving, phase <- Phase

ImplementsQueue == Queue!QueueSpec

(***************************************************************************)
(* Whoever has connected is dealt with, unless the process ends first: no  *)
(* client is passed over, and no connection holds the thread for ever.     *)
(***************************************************************************)
EveryoneIsDealtWith ==
    \A c \in Clients :
        client[c].state # "away" ~> client[c].state = "away"

(***************************************************************************)
(* After the shutdown signal the process ends, provided that it is not     *)
(* blocked in accept with nobody waiting: it needs one more connection.    *)
(***************************************************************************)
ShutdownCompletes ==
    ~ running /\ (pc # "accept" \/ backlog # <<>>) ~> pc \in Ended
===============================================================================
