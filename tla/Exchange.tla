-------------------------------- MODULE Exchange --------------------------------
(***************************************************************************)
(* What the socket demo and the pipe demo of Assignment5/sockets promise,  *)
(* with neither connection nor bytes: a client that ends well has had its  *)
(* request read, all of it, and has read the whole reply to it.  Either    *)
(* may give up at any time.                                                *)
(***************************************************************************)

VARIABLES requestRead,    \* the server has read the whole request
          replyRead,      \* the client has read the whole reply
          client          \* "waiting", "served" or "unserved"

vars == << requestRead, replyRead, client >>

Init ==
  /\ requestRead = FALSE
  /\ replyRead = FALSE
  /\ client = "waiting"

ReadRequest ==
  /\ ~ requestRead
  /\ requestRead' = TRUE
  /\ UNCHANGED << replyRead, client >>

ReadReply ==
  /\ requestRead
  /\ client = "waiting"
  /\ ~ replyRead
  /\ replyRead' = TRUE
  /\ UNCHANGED << requestRead, client >>

Serve ==
  /\ replyRead
  /\ client = "waiting"
  /\ client' = "served"
  /\ UNCHANGED << requestRead, replyRead >>

GiveUp ==
  /\ client = "waiting"
  /\ client' = "unserved"
  /\ UNCHANGED << requestRead, replyRead >>

Next == ReadRequest \/ ReadReply \/ Serve \/ GiveUp

Spec == Init /\ [][Next]_vars
=============================================================================
