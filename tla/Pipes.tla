--------------------------------- MODULE Pipes ---------------------------------
(***************************************************************************)
(* Assignment5/sockets/Pipes: serverp.c and clientp.c exchange one message *)
(* and one reply over a named pipe in message mode.  FlushFileBuffers      *)
(* waits until the other end has read everything; DisconnectNamedPipe      *)
(* throws away what has not been read.  Either process may be killed.      *)
(***************************************************************************)

VARIABLES serverp, clientp,   \* where each program stands
          pipe,               \* "none", "free", "connected", "broken"
          messages,           \* in the pipe: "request", "reply"
          requestTaken, replyTaken   \* which of the two was read

pipeVars == << serverp, clientp, pipe, messages, requestTaken, replyTaken >>

PipeEnded == {"done", "failed", "killed"}

PipesInit ==
  /\ serverp = "creating"
  /\ clientp = "waiting"
  /\ pipe = "none"
  /\ messages = {}
  /\ requestTaken = FALSE
  /\ replyTaken = FALSE

-----------------------------------------------------------------------------
(***************************************************************************)
(* serverp.c                                                               *)
(***************************************************************************)

CreateNamedPipe ==
  /\ serverp = "creating"
  /\ \/ serverp' = "connecting" /\ pipe' = "free"
     \/ serverp' = "failed" /\ UNCHANGED pipe
  /\ UNCHANGED << clientp, messages, requestTaken, replyTaken >>

\* The client may have opened the pipe already, or even be gone again; the result is
\* not looked at.
ConnectNamedPipe ==
  /\ serverp = "connecting"
  /\ pipe # "free"
  /\ serverp' = "reading"
  /\ UNCHANGED << clientp, pipe, messages, requestTaken, replyTaken >>

\* ReadFile, repeated until it succeeds.
ReadRequest ==
  /\ serverp = "reading"
  /\ "request" \in messages
  /\ messages' = messages \ {"request"}
  /\ requestTaken' = TRUE
  /\ serverp' = "replying"
  /\ UNCHANGED << clientp, pipe, replyTaken >>

WriteReply ==
  /\ serverp = "replying"
  /\ IF pipe = "connected"
     THEN serverp' = "flushing" /\ messages' = messages \cup {"reply"}
     ELSE serverp' = "failed" /\ UNCHANGED messages
  /\ UNCHANGED << clientp, pipe, requestTaken, replyTaken >>

\* FlushFileBuffers of the server.  Fault: it does not wait.
NotFlushed == TRUE
Flushed == "reply" \notin messages \/ pipe # "connected"

FlushReply ==
  /\ serverp = "flushing"
  /\ Flushed
  /\ serverp' = "disconnecting"
  /\ UNCHANGED << clientp, pipe, messages, requestTaken, replyTaken >>

Disconnect ==
  /\ serverp = "disconnecting"
  /\ pipe' = "broken"
  /\ messages' = {}
  /\ serverp' = "done"
  /\ UNCHANGED << clientp, requestTaken, replyTaken >>

serverStep ==
  CreateNamedPipe \/ ConnectNamedPipe \/ ReadRequest \/ WriteReply \/ FlushReply \/ Disconnect

-----------------------------------------------------------------------------
(***************************************************************************)
(* clientp.c                                                               *)
(***************************************************************************)

\* WaitNamedPipe fails at once when no such pipe exists.
WaitNamedPipe ==
  /\ clientp = "waiting"
  /\ clientp' = IF pipe = "free" THEN "opening" ELSE "failed"
  /\ UNCHANGED << serverp, pipe, messages, requestTaken, replyTaken >>

\* CreateFile.
OpenPipe ==
  /\ clientp = "opening"
  /\ IF pipe = "free" THEN clientp' = "writing" /\ pipe' = "connected"
                      ELSE clientp' = "failed" /\ UNCHANGED pipe
  /\ UNCHANGED << serverp, messages, requestTaken, replyTaken >>

WriteRequest ==
  /\ clientp = "writing"
  /\ IF pipe = "connected"
     THEN clientp' = "flushing" /\ messages' = messages \cup {"request"}
     ELSE clientp' = "failed" /\ UNCHANGED messages
  /\ UNCHANGED << serverp, pipe, requestTaken, replyTaken >>

FlushRequest ==
  /\ clientp = "flushing"
  /\ "request" \notin messages \/ pipe # "connected"
  /\ clientp' = "reading"
  /\ UNCHANGED << serverp, pipe, messages, requestTaken, replyTaken >>

\* ReadFile, repeated until it succeeds.
ReadReply ==
  /\ clientp = "reading"
  /\ "reply" \in messages
  /\ messages' = messages \ {"reply"}
  /\ replyTaken' = TRUE
  /\ clientp' = "closing"
  /\ UNCHANGED << serverp, pipe, requestTaken >>

CloseHandle ==
  /\ clientp = "closing"
  /\ clientp' = "done"
  /\ pipe' = "broken"
  /\ UNCHANGED << serverp, messages, requestTaken, replyTaken >>

clientStep ==
  WaitNamedPipe \/ OpenPipe \/ WriteRequest \/ FlushRequest \/ ReadReply \/ CloseHandle

-----------------------------------------------------------------------------

\* The end of a process breaks the pipe and may take its message along; a pipe that
\* nobody has opened yet is gone with its server.
KillServer ==
  /\ serverp \notin PipeEnded
  /\ serverp' = "killed"
  /\ pipe' = (IF pipe = "connected" THEN "broken" ELSE IF pipe = "free" THEN "none" ELSE pipe)
  /\ messages' \in {messages, messages \ {"reply"}}
  /\ UNCHANGED << clientp, requestTaken, replyTaken >>

KillClient ==
  /\ clientp \notin PipeEnded
  /\ clientp' = "killed"
  /\ pipe' = (IF pipe = "connected" THEN "broken" ELSE pipe)
  /\ messages' \in {messages, messages \ {"request"}}
  /\ UNCHANGED << serverp, requestTaken, replyTaken >>

PipesStep == serverStep \/ clientStep \/ KillServer \/ KillClient

\* Nothing more can happen.  A program whose ReadFile fails because the pipe is
\* broken repeats it for ever, and a server waits for ever for a client that came too
\* early.
Spins(at, message) == at = "reading" /\ message \notin messages /\ pipe # "connected"
PipesOver ==
  /\ clientp \in PipeEnded \/ Spins(clientp, "reply")
  /\ \/ serverp \in PipeEnded \/ Spins(serverp, "request")
     \/ serverp = "connecting" /\ pipe = "free"

-----------------------------------------------------------------------------
(***************************************************************************)
(* Properties, stated of the programs in module Demos                      *)
(***************************************************************************)

\* A client that ends well has had its message read and has read the reply
\* (serverp.c:41-67, clientp.c:41-68).
PipeExchange == INSTANCE Exchange WITH
  requestRead <- requestTaken,
  replyRead <- replyTaken,
  client <- CASE clientp = "done" -> "served"
              [] clientp \in {"failed", "killed"} -> "unserved"
              [] OTHER -> "waiting"

\* Once the client has the pipe open both programs end, unless one is killed: the
\* server does not disconnect before its reply was read (serverp.c:70-71), whichever
\* end is faster.
PipesEnd ==
  clientp = "writing" ~> \/ clientp = "done" /\ serverp = "done"
                         \/ clientp = "killed" \/ serverp = "killed"
=============================================================================
