-------------------------------- MODULE Sockets --------------------------------
(***************************************************************************)
(* Assignment5/sockets/Sockets: client.c sends its message, closes its     *)
(* side for sending and reads until the server closes; server.c answers    *)
(* every piece that it reads with as many bytes of its own text.  A TCP    *)
(* connection delivers the bytes in order, in pieces of any size, or is    *)
(* reset, which both ends notice.  Either process may be killed.           *)
(***************************************************************************)
EXTENDS Integers

CONSTANTS MessageLength,   \* of the client's message and of the server's text: both
                           \* have 21 bytes
          BUFFERL,         \* of the receive buffers: 80
          Addresses        \* how many addresses the server's name has

ASSUME SocketsAssumption == {MessageLength, BUFFERL, Addresses} \subseteq Nat \ {0}

Program == {"server", "client"}

VARIABLES at,              \* where each program stands
          winsock,         \* WSAStartups less WSACleanups of each program
          lists,           \* address lists each program has obtained and not freed
          listener,        \* the server's sock
          socket,          \* the server's csock, the client's sock
          tried,           \* how many addresses the client has tried
          connection,
          bytes,           \* how many were asked (sent by the client), read by the
                           \* server, answered by it, heard (read by the client)
          shut             \* the programs that will send no more

socketVars == << at, winsock, lists, listener, socket, tried, connection, bytes, shut >>
exchanged == << connection, bytes, shut >>

Ended == {"done", "failed", "killed"}

SocketsInit ==
  /\ at = [server |-> "starting", client |-> "checking"]
  /\ winsock = [p \in Program |-> 0]
  /\ lists = [p \in Program |-> 0]
  /\ listener = "none"
  /\ socket = [p \in Program |-> "none"]
  /\ tried = 0
  /\ connection = "none"
  /\ bytes = [asked |-> 0, read |-> 0, answered |-> 0, heard |-> 0]
  /\ shut = {}

Goes(p, from, to) == at[p] = from /\ at' = [at EXCEPT ![p] = to]

WSACleanup(p) == winsock' = [winsock EXCEPT ![p] = @ - 1]
freeaddrinfo(p) == lists' = [lists EXCEPT ![p] = @ - 1]

\* Closing what is no socket changes nothing.
closesocket(p) == socket' = [socket EXCEPT ![p] = IF @ = "open" THEN "closed" ELSE @]

\* The end of a process resets a connection that it has not closed.
Dropped == connection' = (IF connection = "open" THEN "reset" ELSE connection)

-----------------------------------------------------------------------------
(***************************************************************************)
(* How both programs begin                                                 *)
(***************************************************************************)

\* A WSAStartup that fails is not cleaned up after.
WSAStartup(p) ==
  /\ \/ Goes(p, "starting", "resolving") /\ winsock' = [winsock EXCEPT ![p] = @ + 1]
     \/ Goes(p, "starting", "failed") /\ UNCHANGED winsock
  /\ UNCHANGED << lists, listener, socket, tried, exchanged >>

getaddrinfo(p) ==
  /\ \/ /\ Goes(p, "resolving", "opening")
        /\ lists' = [lists EXCEPT ![p] = @ + 1]
        /\ UNCHANGED winsock
     \/ Goes(p, "resolving", "failed") /\ WSACleanup(p) /\ UNCHANGED lists
  /\ UNCHANGED << listener, socket, tried, exchanged >>

\* socket() fails: neither the server nor the client tries another address.
SocketFails(p) ==
  /\ Goes(p, "opening", "failed")
  /\ freeaddrinfo(p)
  /\ WSACleanup(p)

-----------------------------------------------------------------------------
(***************************************************************************)
(* server.c                                                                *)
(***************************************************************************)

OpenListener ==
  /\ \/ /\ Goes("server", "opening", "binding")
        /\ listener' = "open"
        /\ UNCHANGED << winsock, lists >>
     \/ SocketFails("server") /\ UNCHANGED listener
  /\ UNCHANGED << socket, tried, exchanged >>

\* The addresses are not needed any more, whether bind fails or not.
Bind ==
  /\ freeaddrinfo("server")
  /\ \/ Goes("server", "binding", "listening") /\ UNCHANGED << winsock, listener >>
     \/ Goes("server", "binding", "failed") /\ listener' = "closed" /\ WSACleanup("server")
  /\ UNCHANGED << socket, tried, exchanged >>

Listen ==
  /\ \/ Goes("server", "listening", "accepting") /\ listener' = "listening" /\ UNCHANGED winsock
     \/ Goes("server", "listening", "failed") /\ listener' = "closed" /\ WSACleanup("server")
  /\ UNCHANGED << lists, socket, tried, exchanged >>

Accept ==
  /\ connection # "none"
  /\ Goes("server", "accepting", "receiving")
  /\ socket' = [socket EXCEPT !.server = "open"]
  /\ UNCHANGED << winsock, lists, listener, tried, exchanged >>

\* The error code is handed on where SOCKET_ERROR is expected: nothing is closed or
\* cleaned up and the server goes on without a socket.
\* Fault: it goes on, having closed its listening socket and cleaned up.
AcceptCleansUp ==
  /\ Goes("server", "accepting", "receiving")
  /\ socket' = [socket EXCEPT !.server = "invalid"]
  /\ listener' = "closed"
  /\ WSACleanup("server")
  /\ UNCHANGED << lists, tried, exchanged >>
AcceptFails ==
  /\ Goes("server", "accepting", "receiving")
  /\ socket' = [socket EXCEPT !.server = "invalid"]
  /\ UNCHANGED << winsock, lists, listener, tried, exchanged >>

Works(p) == socket[p] = "open" /\ connection = "open"

\* recv: a piece of what has arrived; at the end of it, the loop is left.
ServerRecv ==
  /\ Works("server")
  /\ \/ \E size \in 1 .. BUFFERL :
          /\ bytes.read + size <= bytes.asked
          /\ Goes("server", "receiving", "replying")
          /\ bytes' = [bytes EXCEPT !.read = @ + size]
     \/ /\ bytes.read = bytes.asked /\ "client" \in shut
        /\ Goes("server", "receiving", "shutting")
        /\ UNCHANGED bytes
  /\ UNCHANGED << winsock, lists, listener, socket, tried, connection, shut >>

\* As many bytes as were read last, and the loop goes on.  Fault: it does not.
SendOnce ==
  /\ Works("server")
  /\ Goes("server", "replying", "shutting")
  /\ bytes' = [bytes EXCEPT !.answered = bytes.read]
  /\ UNCHANGED << winsock, lists, listener, socket, tried, connection, shut >>
ServerSend ==
  /\ Works("server")
  /\ Goes("server", "replying", "receiving")
  /\ bytes' = [bytes EXCEPT !.answered = bytes.read]
  /\ UNCHANGED << winsock, lists, listener, socket, tried, connection, shut >>

ServerShutdown ==
  /\ Works("server")
  /\ Goes("server", "shutting", "done")
  /\ shut' = shut \cup {"server"}
  /\ closesocket("server")
  /\ WSACleanup("server")
  /\ UNCHANGED << lists, listener, tried, connection, bytes >>

\* recv, send or shutdown fails.
ServerFails ==
  /\ ~ Works("server")
  /\ \E from \in {"receiving", "replying", "shutting"} : Goes("server", from, "failed")
  /\ closesocket("server")
  /\ WSACleanup("server")
  /\ Dropped
  /\ UNCHANGED << lists, listener, tried, bytes, shut >>

\* What the server does when it can; accept may also wait for ever, or fail.
serverGoesOn ==
  \/ WSAStartup("server") \/ getaddrinfo("server") \/ OpenListener \/ Bind \/ Listen
  \/ Accept \/ ServerRecv \/ ServerSend \/ ServerShutdown \/ ServerFails

server == serverGoesOn \/ AcceptFails

-----------------------------------------------------------------------------
(***************************************************************************)
(* client.c                                                                *)
(***************************************************************************)

\* argc is 3, or the program says how it is used and ends.
ValidateParameters ==
  /\ \E to \in {"starting", "failed"} : Goes("client", "checking", to)
  /\ UNCHANGED << winsock, lists, listener, socket, tried, exchanged >>

OpenSocket ==
  /\ tried < Addresses
  /\ \/ /\ Goes("client", "opening", "connecting")
        /\ socket' = [socket EXCEPT !.client = "open"]
        /\ UNCHANGED << winsock, lists >>
     \/ SocketFails("client") /\ UNCHANGED socket
  /\ UNCHANGED << listener, tried, exchanged >>

\* From listen to the end of the server a connection can be made, accepted or not.
Listening == listener = "listening" /\ at.server \notin Ended

\* When connect fails, the socket is closed and the next address is tried.
Connect ==
  /\ \/ /\ Listening
        /\ Goes("client", "connecting", "sending")
        /\ connection' = "open"
        /\ freeaddrinfo("client")
        /\ UNCHANGED << socket, tried >>
     \/ /\ Goes("client", "connecting", "opening")
        /\ socket' = [socket EXCEPT !.client = "invalid"]
        /\ tried' = tried + 1
        /\ UNCHANGED << connection, lists >>
  /\ UNCHANGED << winsock, listener, bytes, shut >>

NoServer ==
  /\ tried = Addresses
  /\ Goes("client", "opening", "failed")
  /\ freeaddrinfo("client")
  /\ WSACleanup("client")
  /\ UNCHANGED << listener, socket, tried, exchanged >>

ClientSend ==
  /\ Works("client")
  /\ Goes("client", "sending", "shutting")
  /\ bytes' = [bytes EXCEPT !.asked = MessageLength]
  /\ UNCHANGED << winsock, lists, listener, socket, tried, connection, shut >>

\* Fault: the side for sending stays open.
StaysOpen ==
  /\ Works("client")
  /\ Goes("client", "shutting", "receiving")
  /\ UNCHANGED << winsock, lists, listener, socket, tried, exchanged >>
ClientShutdown ==
  /\ Works("client")
  /\ Goes("client", "shutting", "receiving")
  /\ shut' = shut \cup {"client"}
  /\ UNCHANGED << winsock, lists, listener, socket, tried, connection, bytes >>

\* recv until the server has closed; then the socket is closed.
ClientRecv ==
  /\ Works("client")
  /\ \E size \in 1 .. BUFFERL :
       /\ bytes.heard + size <= bytes.answered
       /\ Goes("client", "receiving", "receiving")
       /\ bytes' = [bytes EXCEPT !.heard = @ + size]
  /\ UNCHANGED << winsock, lists, listener, socket, tried, connection, shut >>

ClientEnds ==
  /\ Works("client")
  /\ bytes.heard = bytes.answered /\ "server" \in shut
  /\ Goes("client", "receiving", "done")
  /\ closesocket("client")
  /\ WSACleanup("client")
  /\ UNCHANGED << lists, listener, tried, exchanged >>

\* send or shutdown fails; or recv, after which the program ends in the same way,
\* returning 0 although it was not served.
ClientFails ==
  /\ connection = "reset"
  /\ \E from \in {"sending", "shutting", "receiving"} : Goes("client", from, "failed")
  /\ closesocket("client")
  /\ WSACleanup("client")
  /\ UNCHANGED << lists, listener, tried, exchanged >>

client ==
  \/ ValidateParameters \/ WSAStartup("client") \/ getaddrinfo("client") \/ OpenSocket
  \/ Connect \/ NoServer \/ ClientSend \/ ClientShutdown \/ ClientRecv \/ ClientEnds \/ ClientFails

-----------------------------------------------------------------------------
(***************************************************************************)
(* What may happen to them                                                 *)
(***************************************************************************)

Reset ==
  /\ connection = "open"
  /\ connection' = "reset"
  /\ UNCHANGED << at, winsock, lists, listener, socket, tried, bytes, shut >>

Kill(p) ==
  /\ at[p] \notin Ended
  /\ at' = [at EXCEPT ![p] = "killed"]
  /\ Dropped
  /\ UNCHANGED << winsock, lists, listener, socket, tried, bytes, shut >>

SocketsStep == server \/ client \/ Reset \/ \E p \in Program : Kill(p)

\* Nothing more can happen: a server that no client has reached waits for ever.
SocketsOver ==
  /\ at.client \in Ended
  /\ at.server \in Ended \/ (at.server = "accepting" /\ connection = "none")

-----------------------------------------------------------------------------
(***************************************************************************)
(* Properties, the first two stated of the programs in module Demos        *)
(***************************************************************************)

\* A client that reads to the end has had its whole message read and as many bytes
\* back, however the stream was cut in pieces (server.c:97-121, client.c:115-122).
SocketExchange == INSTANCE Exchange WITH
  requestRead <- bytes.read = MessageLength,
  replyRead <- bytes.heard = MessageLength,
  client <- CASE at.client = "done" -> "served"
              [] at.client \in Ended \ {"done"} -> "unserved"
              [] OTHER -> "waiting"

\* The client always ends, and so does a server that it has reached, whatever happens
\* to the other or to the connection.
SocketsEnd == <>(at.client \in Ended) /\ (connection # "none" ~> at.server \in Ended)

\* However a program ends by itself, it has cleaned up as often as it has started
\* Winsock: once, or not at all if it left before or WSAStartup failed (server.c:36-41,
\* client.c:40-53).  Likewise for the address list, and no socket of a connection or of
\* an attempt at one is open.  The server's listening socket is closed when bind or
\* listen fails; once accept has been called (server.c:89) it never is.
CleanedUpOnce ==
  /\ \A p \in Program :
       at[p] \in {"done", "failed"} => winsock[p] = 0 /\ lists[p] = 0 /\ socket[p] # "open"
  /\ at.server \in {"done", "failed"} =>
       (listener \in {"open", "listening"} <=> socket.server # "none")
=============================================================================
