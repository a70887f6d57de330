------------------------------- MODULE DemosProofs -------------------------------
(***************************************************************************)
(* The socket demo and the pipe demo implement Exchange, whatever the      *)
(* length of the message and of the buffers, and what the Fibonacci        *)
(* program prints is the sequence, whatever the length of its array.       *)
(***************************************************************************)
EXTENDS Demos, TLAPS

-----------------------------------------------------------------------------
(***************************************************************************)
(* The sockets                                                             *)
(***************************************************************************)

Place == {"checking", "starting", "resolving", "opening", "binding", "listening", "accepting",
          "connecting", "sending", "receiving", "replying", "shutting"} \cup Ended

SocketType ==
  /\ at \in [server : Place, client : Place]
  /\ winsock \in [Program -> Int]
  /\ lists \in [Program -> Int]
  /\ listener \in {"none", "open", "listening", "closed"}
  /\ socket \in [Program -> {"none", "open", "invalid", "closed"}]
  /\ bytes \in [asked : Nat, read : Nat, answered : Nat, heard : Nat]
  /\ shut \subseteq Program

\* No byte is answered before it was read, or heard before it was answered.
InOrder ==
  /\ bytes.heard <= bytes.answered
  /\ bytes.answered <= bytes.read
  /\ bytes.read <= bytes.asked
  /\ bytes.asked \in {0, MessageLength}

\* Who has closed a side has sent all there is to send on it.
SentBeforeShut ==
  /\ at["client"] \in {"shutting", "receiving"} \/ "client" \in shut
       => bytes.asked = MessageLength
  /\ at["server"] \in {"starting", "resolving", "opening", "binding", "listening", "accepting",
                       "receiving"}
       => bytes.answered = bytes.read
  /\ at["server"] = "shutting" \/ "server" \in shut
       => bytes.read = MessageLength /\ bytes.answered = MessageLength

\* A program has started Winsock once while it uses it, and has an address list from
\* getaddrinfo to the last use of the list.
Balanced ==
  \A p \in Program : at[p] # "killed" =>
    /\ winsock[p] = IF at[p] \in {"checking", "starting", "done", "failed"} THEN 0 ELSE 1
    /\ lists[p] = IF at[p] \in {"opening", "binding", "connecting"} THEN 1 ELSE 0

\* Which sockets there are, by where the programs stand.
SocketsByPlace ==
  /\ at["server"] \in {"starting", "resolving", "opening"} => listener = "none"
  /\ at["server"] \in {"binding", "listening"} => listener = "open"
  /\ at["server"] \in {"accepting", "receiving", "replying", "shutting"} => listener = "listening"
  /\ at["server"] \in {"starting", "resolving", "opening", "binding", "listening", "accepting"}
       => socket["server"] = "none"
  /\ at["server"] \in {"receiving", "replying", "shutting"} => socket["server"] # "none"
  /\ at["client"] \in {"checking", "starting", "resolving", "opening"} => socket["client"] # "open"

SocketInv ==
  SocketType /\ InOrder /\ SentBeforeShut /\ Balanced /\ SocketsByPlace /\ CleanedUpOnce

\* The invariant holds at the start.
LEMMA SocketInitInv == SocketsInit => SocketInv
<1> SUFFICES ASSUME SocketsInit PROVE SocketInv
  OBVIOUS
<1> USE SocketsAssumption DEF SocketsInit
<1>1. SocketType
  BY DEF SocketType, Place, Program, Ended
<1>2. InOrder /\ SentBeforeShut
  BY DEF InOrder, SentBeforeShut
<1>3. Balanced /\ SocketsByPlace /\ CleanedUpOnce
  BY DEF Balanced, SocketsByPlace, CleanedUpOnce, Program, Ended
<1> QED BY <1>1, <1>2, <1>3 DEF SocketInv

\* What a step of the server does keeps the invariant.
LEMMA ServerInv == ASSUME SocketInv, server PROVE SocketInv'
<1> USE SocketsAssumption
    DEF SocketInv, SocketType, Program, Place, Ended, Goes, WSACleanup, freeaddrinfo, exchanged
<1>1. CASE WSAStartup("server")
  <2>1. SocketType'
    BY <1>1 DEF WSAStartup
  <2>2. InOrder' /\ SentBeforeShut'
    BY <1>1 DEF WSAStartup, InOrder, SentBeforeShut
  <2>3. Balanced' /\ SocketsByPlace' /\ CleanedUpOnce'
    BY <1>1 DEF WSAStartup, Balanced, SocketsByPlace, CleanedUpOnce
  <2> QED BY <2>1, <2>2, <2>3
<1>2. CASE getaddrinfo("server")
  <2>1. SocketType'
    BY <1>2 DEF getaddrinfo
  <2>2. InOrder' /\ SentBeforeShut'
    BY <1>2 DEF getaddrinfo, InOrder, SentBeforeShut
  <2>3. Balanced' /\ SocketsByPlace' /\ CleanedUpOnce'
    BY <1>2 DEF getaddrinfo, Balanced, SocketsByPlace, CleanedUpOnce
  <2> QED BY <2>1, <2>2, <2>3
<1>3. CASE OpenListener
  <2>1. SocketType'
    BY <1>3 DEF OpenListener, SocketFails
  <2>2. InOrder' /\ SentBeforeShut'
    BY <1>3 DEF OpenListener, SocketFails, InOrder, SentBeforeShut
  <2>3. Balanced' /\ SocketsByPlace' /\ CleanedUpOnce'
    BY <1>3 DEF OpenListener, SocketFails, Balanced, SocketsByPlace, CleanedUpOnce
  <2> QED BY <2>1, <2>2, <2>3
<1>4. CASE Bind
  <2>1. SocketType'
    BY <1>4 DEF Bind
  <2>2. InOrder' /\ SentBeforeShut'
    BY <1>4 DEF Bind, InOrder, SentBeforeShut
  <2>3. Balanced' /\ SocketsByPlace' /\ CleanedUpOnce'
    BY <1>4 DEF Bind, Balanced, SocketsByPlace, CleanedUpOnce
  <2> QED BY <2>1, <2>2, <2>3
<1>5. CASE Listen
  <2>1. SocketType'
    BY <1>5 DEF Listen
  <2>2. InOrder' /\ SentBeforeShut'
    BY <1>5 DEF Listen, InOrder, SentBeforeShut
  <2>3. Balanced' /\ SocketsByPlace' /\ CleanedUpOnce'
    BY <1>5 DEF Listen, Balanced, SocketsByPlace, CleanedUpOnce
  <2> QED BY <2>1, <2>2, <2>3
<1>6. CASE Accept
  <2>1. SocketType'
    BY <1>6 DEF Accept
  <2>2. InOrder' /\ SentBeforeShut'
    BY <1>6 DEF Accept, InOrder, SentBeforeShut
  <2>3. Balanced' /\ SocketsByPlace' /\ CleanedUpOnce'
    BY <1>6 DEF Accept, Balanced, SocketsByPlace, CleanedUpOnce
  <2> QED BY <2>1, <2>2, <2>3
<1>7. CASE AcceptFails
  <2>1. SocketType'
    BY <1>7 DEF AcceptFails
  <2>2. InOrder' /\ SentBeforeShut'
    BY <1>7 DEF AcceptFails, InOrder, SentBeforeShut
  <2>3. Balanced' /\ SocketsByPlace' /\ CleanedUpOnce'
    BY <1>7 DEF AcceptFails, Balanced, SocketsByPlace, CleanedUpOnce
  <2> QED BY <2>1, <2>2, <2>3
<1>8. CASE ServerRecv
  <2>1. SocketType'
    BY <1>8 DEF ServerRecv
  <2>2. InOrder' /\ SentBeforeShut'
    BY <1>8 DEF ServerRecv, InOrder, SentBeforeShut
  <2>3. Balanced' /\ SocketsByPlace' /\ CleanedUpOnce'
    BY <1>8 DEF ServerRecv, Balanced, SocketsByPlace, CleanedUpOnce
  <2> QED BY <2>1, <2>2, <2>3
<1>9. CASE ServerSend
  <2>1. SocketType'
    BY <1>9 DEF ServerSend
  <2>2. InOrder' /\ SentBeforeShut'
    BY <1>9 DEF ServerSend, InOrder, SentBeforeShut
  <2>3. Balanced' /\ SocketsByPlace' /\ CleanedUpOnce'
    BY <1>9 DEF ServerSend, Balanced, SocketsByPlace, CleanedUpOnce
  <2> QED BY <2>1, <2>2, <2>3
<1>10. CASE ServerShutdown
  <2>1. SocketType'
    BY <1>10 DEF ServerShutdown, closesocket
  <2>2. InOrder' /\ SentBeforeShut'
    BY <1>10 DEF ServerShutdown, closesocket, InOrder, SentBeforeShut
  <2>3. Balanced' /\ SocketsByPlace' /\ CleanedUpOnce'
    BY <1>10 DEF ServerShutdown, closesocket, Balanced, SocketsByPlace, CleanedUpOnce
  <2> QED BY <2>1, <2>2, <2>3
<1>11. CASE ServerFails
  <2>1. SocketType'
    BY <1>11 DEF ServerFails, closesocket, Works
  <2>2. InOrder' /\ SentBeforeShut'
    BY <1>11 DEF ServerFails, closesocket, Works, InOrder, SentBeforeShut
  <2>3. Balanced' /\ SocketsByPlace' /\ CleanedUpOnce'
    BY <1>11 DEF ServerFails, closesocket, Works, Balanced, SocketsByPlace, CleanedUpOnce
  <2> QED BY <2>1, <2>2, <2>3
<1> QED BY <1>1, <1>2, <1>3, <1>4, <1>5, <1>6, <1>7, <1>8,
           <1>9, <1>10, <1>11
        DEF server, serverGoesOn

\* What a step of the client does keeps the invariant.
LEMMA ClientInv == ASSUME SocketInv, client PROVE SocketInv'
<1> USE SocketsAssumption
    DEF SocketInv, SocketType, Program, Place, Ended, Goes, WSACleanup, freeaddrinfo, exchanged
<1>1. CASE ValidateParameters
  <2>1. SocketType'
    BY <1>1 DEF ValidateParameters
  <2>2. InOrder' /\ SentBeforeShut'
    BY <1>1 DEF ValidateParameters, InOrder, SentBeforeShut
  <2>3. Balanced' /\ SocketsByPlace' /\ CleanedUpOnce'
    BY <1>1 DEF ValidateParameters, Balanced, SocketsByPlace, CleanedUpOnce
  <2> QED BY <2>1, <2>2, <2>3
<1>2. CASE WSAStartup("client")
  <2>1. SocketType'
    BY <1>2 DEF WSAStartup
  <2>2. InOrder' /\ SentBeforeShut'
    BY <1>2 DEF WSAStartup, InOrder, SentBeforeShut
  <2>3. Balanced' /\ SocketsByPlace' /\ CleanedUpOnce'
    BY <1>2 DEF WSAStartup, Balanced, SocketsByPlace, CleanedUpOnce
  <2> QED BY <2>1, <2>2, <2>3
<1>3. CASE getaddrinfo("client")
  <2>1. SocketType'
    BY <1>3 DEF getaddrinfo
  <2>2. InOrder' /\ SentBeforeShut'
    BY <1>3 DEF getaddrinfo, InOrder, SentBeforeShut
  <2>3. Balanced' /\ SocketsByPlace' /\ CleanedUpOnce'
    BY <1>3 DEF getaddrinfo, Balanced, SocketsByPlace, CleanedUpOnce
  <2> QED BY <2>1, <2>2, <2>3
<1>4. CASE OpenSocket
  <2>1. SocketType'
    BY <1>4 DEF OpenSocket, SocketFails
  <2>2. InOrder' /\ SentBeforeShut'
    BY <1>4 DEF OpenSocket, SocketFails, InOrder, SentBeforeShut
  <2>3. Balanced' /\ SocketsByPlace' /\ CleanedUpOnce'
    BY <1>4 DEF OpenSocket, SocketFails, Balanced, SocketsByPlace, CleanedUpOnce
  <2> QED BY <2>1, <2>2, <2>3
<1>5. CASE Connect
  <2>1. SocketType'
    BY <1>5 DEF Connect
  <2>2. InOrder' /\ SentBeforeShut'
    BY <1>5 DEF Connect, InOrder, SentBeforeShut
  <2>3. Balanced' /\ SocketsByPlace' /\ CleanedUpOnce'
    BY <1>5 DEF Connect, Balanced, SocketsByPlace, CleanedUpOnce
  <2> QED BY <2>1, <2>2, <2>3
<1>6. CASE NoServer
  <2>1. SocketType'
    BY <1>6 DEF NoServer
  <2>2. InOrder' /\ SentBeforeShut'
    BY <1>6 DEF NoServer, InOrder, SentBeforeShut
  <2>3. Balanced' /\ SocketsByPlace' /\ CleanedUpOnce'
    BY <1>6 DEF NoServer, Balanced, SocketsByPlace, CleanedUpOnce
  <2> QED BY <2>1, <2>2, <2>3
<1>7. CASE ClientSend
  <2>1. SocketType'
    BY <1>7 DEF ClientSend
  <2>2. InOrder' /\ SentBeforeShut'
    BY <1>7 DEF ClientSend, InOrder, SentBeforeShut
  <2>3. Balanced' /\ SocketsByPlace' /\ CleanedUpOnce'
    BY <1>7 DEF ClientSend, Balanced, SocketsByPlace, CleanedUpOnce
  <2> QED BY <2>1, <2>2, <2>3
<1>8. CASE ClientShutdown
  <2>1. SocketType'
    BY <1>8 DEF ClientShutdown
  <2>2. InOrder' /\ SentBeforeShut'
    BY <1>8 DEF ClientShutdown, InOrder, SentBeforeShut
  <2>3. Balanced' /\ SocketsByPlace' /\ CleanedUpOnce'
    BY <1>8 DEF ClientShutdown, Balanced, SocketsByPlace, CleanedUpOnce
  <2> QED BY <2>1, <2>2, <2>3
<1>9. CASE ClientRecv
  <2>1. SocketType'
    BY <1>9 DEF ClientRecv
  <2>2. InOrder' /\ SentBeforeShut'
    BY <1>9 DEF ClientRecv, InOrder, SentBeforeShut
  <2>3. Balanced' /\ SocketsByPlace' /\ CleanedUpOnce'
    BY <1>9 DEF ClientRecv, Balanced, SocketsByPlace, CleanedUpOnce
  <2> QED BY <2>1, <2>2, <2>3
<1>10. CASE ClientEnds
  <2>1. SocketType'
    BY <1>10 DEF ClientEnds, closesocket
  <2>2. InOrder' /\ SentBeforeShut'
    BY <1>10 DEF ClientEnds, closesocket, InOrder, SentBeforeShut
  <2>3. Balanced' /\ SocketsByPlace' /\ CleanedUpOnce'
    BY <1>10 DEF ClientEnds, closesocket, Balanced, SocketsByPlace, CleanedUpOnce
  <2> QED BY <2>1, <2>2, <2>3
<1>11. CASE ClientFails
  <2>1. SocketType'
    BY <1>11 DEF ClientFails, closesocket
  <2>2. InOrder' /\ SentBeforeShut'
    BY <1>11 DEF ClientFails, closesocket, InOrder, SentBeforeShut
  <2>3. Balanced' /\ SocketsByPlace' /\ CleanedUpOnce'
    BY <1>11 DEF ClientFails, closesocket, Balanced, SocketsByPlace, CleanedUpOnce
  <2> QED BY <2>1, <2>2, <2>3
<1> QED BY <1>1, <1>2, <1>3, <1>4, <1>5, <1>6, <1>7, <1>8,
           <1>9, <1>10, <1>11
        DEF client

\* A reset and a kill keep the invariant.
LEMMA SocketFaultInv == ASSUME SocketInv, Reset \/ \E p \in Program : Kill(p) PROVE SocketInv'
<1> USE DEF SocketInv, SocketType, InOrder, SentBeforeShut, Balanced, SocketsByPlace,
            CleanedUpOnce, Program, Place, Ended
<1>1. CASE Reset
  BY <1>1 DEF Reset
<1>2. CASE \E p \in Program : Kill(p)
  BY <1>2 DEF Kill
<1> QED BY <1>1, <1>2

\* The invariant is kept by every step of the sockets.
LEMMA SocketStepInv == SocketInv /\ [SocketsStep]_socketVars => SocketInv'
<1>1. ASSUME SocketInv, UNCHANGED socketVars PROVE SocketInv'
  BY <1>1 DEF socketVars, SocketInv, SocketType, InOrder, SentBeforeShut, Balanced,
              SocketsByPlace, CleanedUpOnce
<1> QED BY <1>1, ServerInv, ClientInv, SocketFaultInv DEF SocketsStep

\* The sockets start where Exchange starts.
LEMMA SocketExchangeInit == SocketsInit => SocketExchange!Init
BY SocketsAssumption DEF SocketsInit, SocketExchange!Init, Ended

\* Every step of the sockets is one of Exchange, or changes nothing that it knows.
LEMMA SocketExchangeStep ==
  ASSUME SocketInv, SocketInv', [SocketsStep]_socketVars
  PROVE  [SocketExchange!Next]_SocketExchange!vars
<1> USE DEF SocketExchange!Next, SocketExchange!vars, SocketExchange!ReadRequest,
            SocketExchange!ReadReply, SocketExchange!Serve, SocketExchange!GiveUp
<1>1. SocketType /\ SocketType' /\ InOrder /\ InOrder' /\ SentBeforeShut
  BY DEF SocketInv
<1>2. CASE server
  <2>1. CASE WSAStartup("server") \/ getaddrinfo("server") \/ OpenListener \/ Bind \/ Listen
    BY <1>1, <2>1 DEF WSAStartup, getaddrinfo, OpenListener, SocketFails, Bind, Listen, exchanged,
                      Goes, SocketType
  <2>2. CASE Accept \/ AcceptFails \/ ServerRecv \/ ServerSend \/ ServerShutdown \/ ServerFails
    BY <1>1, <2>2, SocketsAssumption
       DEF Accept, AcceptFails, ServerRecv, ServerSend, ServerShutdown, ServerFails, exchanged,
           Goes, SocketType, InOrder
  <2> QED BY <1>2, <2>1, <2>2 DEF server, serverGoesOn
<1>3. CASE client
  <2>1. CASE ClientRecv
    BY <2>1, <1>1, SocketsAssumption DEF ClientRecv, Goes, InOrder, SocketType, Ended
  <2>2. CASE ClientEnds
    BY <2>2, <1>1 DEF ClientEnds, exchanged, Goes, InOrder, SocketType, SentBeforeShut, Ended
  <2>3. CASE Connect \/ ClientSend \/ ClientShutdown
    BY <2>3, <1>1 DEF Connect, ClientSend, ClientShutdown, Goes, SocketType, Ended
  <2>4. CASE NoServer \/ ClientFails
    BY <2>4, <1>1 DEF NoServer, ClientFails, exchanged, Goes, SocketType, Ended
  <2>5. CASE ValidateParameters \/ WSAStartup("client") \/ getaddrinfo("client") \/ OpenSocket
    BY <2>5, <1>1 DEF ValidateParameters, WSAStartup, getaddrinfo, OpenSocket, SocketFails,
                      exchanged, Goes, SocketType, Ended
  <2> QED BY <1>3, <2>1, <2>2, <2>3, <2>4, <2>5 DEF client
<1>4. CASE Reset \/ UNCHANGED socketVars
  BY <1>4 DEF Reset, socketVars
<1>5. CASE \E p \in Program : Kill(p)
  BY <1>1, <1>5 DEF Kill, SocketType, Program, Ended
<1> QED BY <1>2, <1>3, <1>4, <1>5 DEF SocketsStep

-----------------------------------------------------------------------------
(***************************************************************************)
(* The pipes                                                               *)
(***************************************************************************)

\* What was taken from the pipe goes with where the programs stand.
PipeInv ==
  /\ requestTaken \in BOOLEAN
  /\ replyTaken \in BOOLEAN
  /\ requestTaken => serverp \notin {"creating", "connecting", "reading"}
  /\ "reply" \in messages \/ replyTaken => requestTaken
  /\ serverp \in {"replying", "flushing", "disconnecting"} => requestTaken
  /\ clientp \in {"waiting", "opening", "writing", "flushing", "reading"} => ~ replyTaken
  /\ clientp = "closing" => replyTaken

\* The invariant holds at the start.
LEMMA PipeInitInv == PipesInit => PipeInv
BY DEF PipesInit, PipeInv

\* The invariant is kept by every step of the pipes.
LEMMA PipeStepInv == PipeInv /\ [PipesStep]_pipeVars => PipeInv'
<1> SUFFICES ASSUME PipeInv, [PipesStep]_pipeVars PROVE PipeInv'
  OBVIOUS
<1> USE DEF PipeInv
<1>1. CASE CreateNamedPipe
  BY <1>1 DEF CreateNamedPipe
<1>2. CASE ConnectNamedPipe
  BY <1>2 DEF ConnectNamedPipe
<1>3. CASE ReadRequest
  BY <1>3 DEF ReadRequest
<1>4. CASE WriteReply
  BY <1>4 DEF WriteReply
<1>5. CASE FlushReply
  BY <1>5 DEF FlushReply
<1>6. CASE Disconnect
  BY <1>6 DEF Disconnect
<1>7. CASE WaitNamedPipe
  BY <1>7 DEF WaitNamedPipe
<1>8. CASE OpenPipe
  BY <1>8 DEF OpenPipe
<1>9. CASE WriteRequest
  <2>1. messages' = messages \/ messages' = messages \cup {"request"}
    BY <1>9 DEF WriteRequest
  <2>2. "reply" \in messages' => "reply" \in messages
    BY <2>1
  <2> QED BY <1>9, <2>2 DEF WriteRequest
<1>10. CASE FlushRequest
  BY <1>10 DEF FlushRequest
<1>11. CASE ReadReply
  BY <1>11 DEF ReadReply
<1>12. CASE CloseHandle
  BY <1>12 DEF CloseHandle
<1>13. CASE KillServer \/ KillClient
  BY <1>13 DEF KillServer, KillClient
<1>14. CASE UNCHANGED pipeVars
  BY <1>14 DEF pipeVars
<1> QED BY <1>1, <1>2, <1>3, <1>4, <1>5, <1>6, <1>7, <1>8,
           <1>9, <1>10, <1>11, <1>12, <1>13, <1>14
        DEF PipesStep, serverStep, clientStep

\* The pipes start where Exchange starts.
LEMMA PipeExchangeInit == PipesInit => PipeExchange!Init
BY DEF PipesInit, PipeExchange!Init

\* Every step of the pipes is one of Exchange, or changes nothing that it knows.
LEMMA PipeExchangeStep ==
  ASSUME PipeInv, [PipesStep]_pipeVars
  PROVE  [PipeExchange!Next]_PipeExchange!vars
<1> USE DEF PipeInv, PipeExchange!Next, PipeExchange!vars, PipeExchange!ReadRequest,
            PipeExchange!ReadReply, PipeExchange!Serve, PipeExchange!GiveUp
<1>1. CASE serverStep
  BY <1>1 DEF serverStep, CreateNamedPipe, ConnectNamedPipe, ReadRequest, WriteReply, FlushReply,
              Disconnect
<1>2. CASE clientStep
  BY <1>2 DEF clientStep, WaitNamedPipe, OpenPipe, WriteRequest, FlushRequest, ReadReply,
              CloseHandle
<1>3. CASE KillServer \/ KillClient
  BY <1>3 DEF KillServer, KillClient, PipeEnded
<1>4. CASE UNCHANGED pipeVars
  BY <1>4 DEF pipeVars
<1> QED BY <1>1, <1>2, <1>3, <1>4 DEF PipesStep

-----------------------------------------------------------------------------
(***************************************************************************)
(* The Fibonacci thread                                                    *)
(***************************************************************************)

FibType ==
  /\ Param \in Int
  /\ Fib \in [0 .. MAX_COUNT -> Nat]
  /\ i \in Nat \ {0, 1}
  /\ printed \in Seq(Nat)

\* The thread exists while main waits, and has ended when main prints.
Handshake ==
  /\ fibMain \in {"checking", "creating", "refused"} => fibThread = "none"
  /\ fibMain \notin {"checking", "refused"} => Param \in 0 .. MAX_COUNT
  /\ fibMain = "printing" => fibThread = "ended"
  /\ fibMain \notin {"printing", "done"} \/ fibThread = "none" => printed = << >>
  /\ fibMain = "done" => fibThread \in {"none", "ended"}

\* What the thread has stored is the sequence as far as i.
Stored ==
  /\ fibThread \in {"adding", "ended"} =>
       /\ Fib[0] = 0 /\ Fib[1] = 1
       /\ \A k \in 2 .. MAX_COUNT : k < i => Fib[k] = Fib[k - 1] + Fib[k - 2]
  /\ fibThread \in {"none", "filling"} => i = 2
  /\ fibThread = "ended" => i > MAX_COUNT \/ i > Param

\* What main has printed are the first elements.
PrintedStored ==
  /\ printed # << >> => Len(printed) <= Param + 1
  /\ \A k \in 1 .. Len(printed) : printed[k] = Fib[k - 1]
  /\ fibMain = "done" /\ fibThread # "none" => Len(printed) = Param + 1

FibInv == FibType /\ Handshake /\ Stored /\ PrintedStored

\* The invariant holds at the start.
LEMMA FibInitInv == FibInit => FibInv
BY MaxCountAssumption DEF FibInit, FibInv, FibType, Handshake, Stored, PrintedStored

\* The thread's steps keep the invariant.
LEMMA ThreadInv == ASSUME FibInv, FirstTwo \/ Add PROVE FibInv'
<1> USE MaxCountAssumption DEF FibInv
<1>1. Handshake' /\ PrintedStored'
  BY DEF FirstTwo, Add, Handshake, PrintedStored
<1>2. CASE FirstTwo
  BY <1>1, <1>2 DEF FirstTwo, FibType, Stored
<1>3. CASE Add
  <2>1. CASE i <= MAX_COUNT /\ i <= Param
    <3>1. /\ Fib' = [Fib EXCEPT ![i] = Fib[i - 1] + Fib[i - 2]] /\ i' = i + 1
          /\ fibThread = "adding" /\ fibThread' = "adding"
          /\ UNCHANGED << Param, printed >>
      BY <1>3, <2>1 DEF Add
    <3>2. Fib[i - 1] + Fib[i - 2] \in Nat
      BY <2>1 DEF FibType
    <3>3. FibType'
      <4>1. Fib' \in [0 .. MAX_COUNT -> Nat]
        BY <3>1, <3>2 DEF FibType
      <4>2. i' \in Nat \ {0, 1}
        BY <3>1 DEF FibType
      <4> QED BY <3>1, <4>1, <4>2 DEF FibType
    <3>4. /\ \A k \in 0 .. MAX_COUNT : k < i => Fib'[k] = Fib[k]
          /\ Fib'[i] = Fib[i - 1] + Fib[i - 2]
      BY <2>1, <3>1 DEF FibType
    <3>5. Stored'
      BY <2>1, <3>1, <3>4 DEF FibType, Stored
    <3> QED BY <1>1, <3>3, <3>5
  <2>2. CASE ~ (i <= MAX_COUNT /\ i <= Param)
    <3>1. FibType' /\ Stored'
      BY <1>3, <2>2 DEF Add, FibType, Stored
    <3> QED BY <1>1, <3>1
  <2> QED BY <2>1, <2>2
<1> QED BY <1>2, <1>3

\* The steps of main keep the invariant.
LEMMA MainInv == ASSUME FibInv, ReadParam \/ CreateThread \/ WaitForSingleObject \/ Printf PROVE FibInv'
<1> USE MaxCountAssumption DEF FibInv
<1>1. CASE ReadParam
  BY <1>1 DEF ReadParam, FibType, Handshake, Stored, PrintedStored
<1>2. CASE CreateThread \/ WaitForSingleObject
  BY <1>2 DEF CreateThread, WaitForSingleObject, Signalled, FibType, Handshake, Stored, PrintedStored
<1>3. CASE Printf
  <2>1. Handshake' /\ Stored'
    BY <1>3 DEF Printf, Handshake, Stored
  <2>2. CASE Len(printed) <= Param
    <3>1. /\ Len(printed) \in 0 .. MAX_COUNT
          /\ printed' = Append(printed, Fib[Len(printed)])
          /\ fibMain' = "printing" /\ UNCHANGED << Param, Fib, i >>
      BY <1>3, <2>2 DEF Printf, FibType, Handshake
    <3>2. Fib[Len(printed)] \in Nat
      BY <3>1 DEF FibType
    <3>3. FibType'
      BY <3>1, <3>2 DEF FibType
    <3>4. /\ Len(printed') = Len(printed) + 1
          /\ printed'[Len(printed) + 1] = Fib[Len(printed)]
          /\ \A k \in 1 .. Len(printed) : printed'[k] = printed[k]
      BY <3>1, <3>2 DEF FibType
    <3>5. \A k \in 1 .. Len(printed') : printed'[k] = Fib'[k - 1]
      BY <3>1, <3>4 DEF PrintedStored
    <3>6. PrintedStored'
      BY <2>2, <3>1, <3>4, <3>5 DEF FibType, PrintedStored
    <3> QED BY <2>1, <3>3, <3>6
  <2>3. CASE ~ Len(printed) <= Param
    <3>1. FibType' /\ PrintedStored'
      BY <1>3, <2>3 DEF Printf, FibType, PrintedStored, Handshake
    <3> QED BY <2>1, <3>1
  <2> QED BY <2>2, <2>3
<1> QED BY <1>1, <1>2, <1>3

\* The invariant is kept by every step of the Fibonacci program.
LEMMA FibStepInv == FibInv /\ [FibStep]_fibVars => FibInv'
<1>1. ASSUME FibInv, UNCHANGED fibVars PROVE FibInv'
  BY <1>1 DEF fibVars, FibInv, FibType, Handshake, Stored, PrintedStored
<1> QED BY <1>1, ThreadInv, MainInv DEF FibStep

\* The invariant implies what is asked of the output.
LEMMA FibPrinted == FibInv => SequencePrinted
<1> SUFFICES ASSUME FibInv PROVE SequencePrinted
  OBVIOUS
<1> USE MaxCountAssumption DEF FibInv
<1>1. fibMain = "done" /\ fibThread # "none" => Len(printed) = Param + 1
  BY DEF PrintedStored
<1>2. ASSUME NEW k \in 1 .. Len(printed)
      PROVE  printed[k] = IF k <= 2 THEN k - 1 ELSE printed[k - 1] + printed[k - 2]
  <2>1. fibThread = "ended" /\ Param \in 0 .. MAX_COUNT /\ Len(printed) <= Param + 1
    BY DEF Handshake, PrintedStored, FibType
  <2>2. k - 1 \in 0 .. MAX_COUNT /\ k - 1 < i
    BY <2>1 DEF Stored, FibType
  <2>3. printed[k] = Fib[k - 1]
    BY DEF PrintedStored
  <2>4. CASE k <= 2
    BY <2>1, <2>3, <2>4 DEF Stored
  <2>5. CASE k > 2
    <3>1. Fib[k - 1] = Fib[(k - 1) - 1] + Fib[(k - 1) - 2]
      BY <2>1, <2>2, <2>5 DEF Stored
    <3>2. k - 1 \in 1 .. Len(printed) /\ k - 2 \in 1 .. Len(printed)
      BY <2>5 DEF FibType
    <3>3. printed[k - 1] = Fib[(k - 1) - 1] /\ printed[k - 2] = Fib[(k - 2) - 1]
      BY <3>2 DEF PrintedStored
    <3> QED BY <2>3, <2>5, <3>1, <3>3
  <2> QED BY <2>4, <2>5
<1> QED BY <1>1, <1>2 DEF SequencePrinted

-----------------------------------------------------------------------------
(***************************************************************************)
(* The theorems                                                            *)
(***************************************************************************)

Inv == SocketInv /\ PipeInv /\ FibInv

\* A step of the demos is one of each program or leaves its variables alone.
LEMMA StepOfEach ==
  [DemosNext]_demosVars => [SocketsStep]_socketVars /\ [PipesStep]_pipeVars /\ [FibStep]_fibVars
BY DEF DemosNext, OfSockets, OfPipes, OfFib, DemosOver, demosVars

\* The order of the bytes, what was taken from the pipe and what the array holds
\* are as SocketInv, PipeInv and FibInv say in every reachable state.
THEOREM Invariance == DemosSpec => []Inv
<1>1. DemosInit => Inv
  BY SocketInitInv, PipeInitInv, FibInitInv DEF DemosInit, Inv
<1>2. Inv /\ [DemosNext]_demosVars => Inv'
  BY StepOfEach, SocketStepInv, PipeStepInv, FibStepInv DEF Inv
<1> QED BY <1>1, <1>2, PTL DEF DemosSpec

\* A program of the sockets that ends by itself has undone every WSAStartup and every
\* getaddrinfo that succeeded, once, and has no socket of a connection open; only the
\* server's listening socket is left open, when accept has been called (server.c:36-94,
\* client.c:40-126).
THEOREM CleanedUp == DemosSpec => []CleanedUpOnce
<1>1. Inv => CleanedUpOnce
  BY DEF Inv, SocketInv
<1> QED BY <1>1, Invariance, PTL

\* What is printed is the Fibonacci sequence, all of it at the end (FibSeq.c:58).
THEOREM SequenceRight == DemosSpec => []SequencePrinted
<1>1. Inv => SequencePrinted
  BY FibPrinted DEF Inv
<1> QED BY <1>1, Invariance, PTL

\* The sockets and the pipes implement Exchange: a client that ends well has had its
\* request read and its reply, however the bytes were cut (server.c:97-121,
\* client.c:115-122, serverp.c:41-67, clientp.c:41-68).
THEOREM ExchangeImplemented == DemosSpec => ImplementExchange
<1>1. DemosInit => SocketExchange!Init /\ PipeExchange!Init
  BY SocketExchangeInit, PipeExchangeInit DEF DemosInit
<1>2. Inv /\ Inv' /\ [DemosNext]_demosVars => [SocketExchange!Next]_SocketExchange!vars
  BY StepOfEach, SocketExchangeStep DEF Inv
<1>3. Inv /\ [DemosNext]_demosVars => [PipeExchange!Next]_PipeExchange!vars
  BY StepOfEach, PipeExchangeStep DEF Inv
<1> QED BY <1>1, <1>2, <1>3, Invariance, PTL
        DEF DemosSpec, ImplementExchange, SocketExchange!Spec, PipeExchange!Spec

-----------------------------------------------------------------------------
(***************************************************************************)
(* When the Fibonacci thread stores behind its array                       *)
(***************************************************************************)

\* The elements the thread has not come to are as they were, those it has stored are
\* positive but for the first, and it goes no further than asked.
Reached ==
  /\ fibThread \in {"none", "filling", "adding", "ended"}
  /\ \A k \in 2 .. MAX_COUNT : k >= i => Fib[k] = 0
  /\ fibThread \in {"adding", "ended"} => \A k \in 1 .. MAX_COUNT : k < i => Fib[k] > 0
  /\ i = 2 \/ i <= Param + 1

\* The element behind the array is stored once the thread is past it, and then the
\* argument was MAX_COUNT itself.
StoredBehind == (ArrayKept <=> i <= MAX_COUNT) /\ (~ ArrayKept => Param = MAX_COUNT)

LEMMA ReachedInit == FibInit => Reached
BY MaxCountAssumption DEF FibInit, Reached

LEMMA ReachedNext == FibInv /\ Reached /\ [FibStep]_fibVars => Reached'
<1> SUFFICES ASSUME FibInv, Reached, [FibStep]_fibVars PROVE Reached'
  OBVIOUS
<1> USE MaxCountAssumption DEF Reached
<1>1. FibType /\ Handshake /\ Stored
  BY DEF FibInv
<1>2. CASE ReadParam \/ CreateThread
  BY <1>1, <1>2 DEF ReadParam, CreateThread, Handshake, Stored, FibType
<1>3. CASE FirstTwo
  BY <1>1, <1>3 DEF FirstTwo, FibType, Stored
<1>4. CASE Add
  <2>1. CASE i <= MAX_COUNT /\ i <= Param
    <3>1. /\ Fib' = [Fib EXCEPT ![i] = Fib[i - 1] + Fib[i - 2]] /\ i' = i + 1
          /\ fibThread = "adding" /\ Param' = Param
      BY <1>4, <2>1 DEF Add
    <3>2. /\ i \in 2 .. MAX_COUNT /\ Param \in Int
          /\ Fib[i - 1] \in Nat /\ Fib[i - 2] \in Nat /\ Fib[i - 1] > 0
      BY <1>1, <2>1, <3>1 DEF FibType
    <3>3. /\ \A k \in 0 .. MAX_COUNT : k # i => Fib'[k] = Fib[k]
          /\ Fib'[i] > 0
      BY <1>1, <3>1, <3>2 DEF FibType
    <3>4. \A k \in 1 .. MAX_COUNT : k < i + 1 => Fib'[k] > 0
      BY <3>1, <3>2, <3>3
    <3>5. \A k \in 2 .. MAX_COUNT : k >= i + 1 => Fib'[k] = 0
      BY <3>2, <3>3
    <3>6. fibThread' = "adding"
      BY <1>4, <2>1 DEF Add
    <3> QED
      BY <2>1, <3>1, <3>2, <3>4, <3>5, <3>6
  <2>2. CASE ~ (i <= MAX_COUNT /\ i <= Param)
    BY <1>4, <2>2 DEF Add
  <2> QED BY <2>1, <2>2
<1>5. CASE WaitForSingleObject \/ Printf \/ UNCHANGED fibVars
  BY <1>5 DEF WaitForSingleObject, Printf, fibVars
<1> QED BY <1>2, <1>3, <1>4, <1>5 DEF FibStep

LEMMA ReachedBehind == FibInv /\ Reached => StoredBehind
<1> SUFFICES ASSUME FibInv, Reached PROVE StoredBehind
  OBVIOUS
<1> USE MaxCountAssumption
<1>1. /\ Param \in Int /\ i \in Nat /\ i >= 2 /\ MAX_COUNT \in Nat /\ MAX_COUNT >= 2
      /\ Handshake /\ Stored
  BY DEF FibInv, FibType
<1>2. i <= MAX_COUNT => Fib[MAX_COUNT] = 0
  BY <1>1 DEF Reached
<1>3. i > MAX_COUNT => Fib[MAX_COUNT] # 0 /\ Param = MAX_COUNT
  <2> SUFFICES ASSUME i > MAX_COUNT PROVE Fib[MAX_COUNT] # 0 /\ Param = MAX_COUNT
    OBVIOUS
  <2>1. i # 2
    BY <1>1
  <2>2. fibThread \in {"adding", "ended"}
    BY <1>1, <2>1 DEF Reached, Stored
  <2>3. Param >= MAX_COUNT
    BY <1>1, <2>1 DEF Reached
  <2>4. Param \in 0 .. MAX_COUNT
    BY <1>1, <2>2 DEF Handshake
  <2>5. Fib[MAX_COUNT] > 0
    BY <1>1, <2>2 DEF Reached
  <2>6. Fib[MAX_COUNT] \in Nat
    BY <1>1 DEF FibInv, FibType
  <2> QED
    BY <1>1, <2>3, <2>4, <2>5, <2>6
<1> QED
  BY <1>1, <1>2, <1>3 DEF StoredBehind, ArrayKept

\* The element behind the array is stored exactly when the thread comes past it, which
\* takes the one argument that the check lets through and the message excludes
\* (FibSeq.c:19, 40-42): for every other argument the array is kept.
THEOREM ArrayKeptBelow == DemosSpec => [](StoredBehind /\ (Param # MAX_COUNT => ArrayKept))
<1>1. DemosInit => Reached
  BY ReachedInit DEF DemosInit
<1>2. Inv /\ Reached /\ [DemosNext]_demosVars => Reached'
  BY StepOfEach, ReachedNext DEF Inv
<1>3. Inv /\ Reached => StoredBehind /\ (Param # MAX_COUNT => ArrayKept)
  BY ReachedBehind DEF Inv, StoredBehind
<1> QED BY <1>1, <1>2, <1>3, Invariance, PTL DEF DemosSpec
=============================================================================
