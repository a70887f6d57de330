------------------------------- MODULE MCPrograms -------------------------------
(***************************************************************************)
(* One of the small programs about processes and threads is run: a pair    *)
(* that exchanges messages, the Fibonacci thread or MiniShell.             *)
(***************************************************************************)
EXTENDS MCMiniShell, Demos

allVars == << vars, demosVars >>

ProgramsInit ==
  /\ demo \in {"sockets", "pipes", "fib", "shell"}
  /\ SocketsInit /\ PipesInit /\ FibInit
  /\ Init

OfShell(step) == demo = "shell" /\ step /\ UNCHANGED demosVars

ProgramsNext == (DemosNext /\ UNCHANGED vars) \/ OfShell(Next)

\* Of MiniShell only wait is asked to return when it can.
ProgramsSpec ==
  ProgramsInit /\ [][ProgramsNext]_allVars /\ DemosFairness /\ WF_allVars(OfShell(Wait))
=============================================================================
