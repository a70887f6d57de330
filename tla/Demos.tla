---------------------------------- MODULE Demos ----------------------------------
(***************************************************************************)
(* The three small programs about processes and threads, of which one is   *)
(* run: the sockets, the pipes or the Fibonacci thread.                    *)
(***************************************************************************)
EXTENDS Sockets, Pipes, FibSeq

VARIABLE demo

demosVars == << demo, socketVars, pipeVars, fibVars >>

DemosInit == demo \in {"sockets", "pipes", "fib"} /\ SocketsInit /\ PipesInit /\ FibInit

OfSockets(step) == demo = "sockets" /\ step /\ UNCHANGED << demo, pipeVars, fibVars >>
OfPipes(step) == demo = "pipes" /\ step /\ UNCHANGED << demo, socketVars, fibVars >>
OfFib(step) == demo = "fib" /\ step /\ UNCHANGED << demo, socketVars, pipeVars >>

DemosOver ==
  /\ \/ demo = "sockets" /\ SocketsOver
     \/ demo = "pipes" /\ PipesOver
     \/ demo = "fib" /\ FibOver
  /\ UNCHANGED demosVars

DemosNext == OfSockets(SocketsStep) \/ OfPipes(PipesStep) \/ OfFib(FibStep) \/ DemosOver

\* The server and the client of the pair that is run go on if they can; accept need not
\* fail.
serverOfPair == OfSockets(serverGoesOn) \/ OfPipes(serverStep)
clientOfPair == OfSockets(client) \/ OfPipes(clientStep)
DemosFairness == WF_demosVars(serverOfPair) /\ WF_demosVars(clientOfPair)

DemosSpec == DemosInit /\ [][DemosNext]_demosVars /\ DemosFairness

\* Both pairs of programs exchange a request and a reply as Exchange promises
\* (serverp.c:41-67 and clientp.c:41-68; server.c:97-121 and client.c:100-122).
ImplementExchange == SocketExchange!Spec /\ PipeExchange!Spec

\* The programs of the pair that is run end, as far as SocketsEnd and PipesEnd say
\* (serverp.c:70, server.c:121, client.c:106).
ProgramsEnd == (demo = "sockets" => SocketsEnd) /\ PipesEnd
=============================================================================
