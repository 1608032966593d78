------------------------ MODULE StockEventRefinement ------------------------
(***************************************************************************)
(* The event server against the inventory it promises.  A request arrives  *)
(* when its line is complete, takes effect in handle_cmd, and is answered  *)
(* by the reply, after the save a trade makes.  This is for clients that   *)
(* send a line, wait for the reply and keep the connection meanwhile, for  *)
(* quantities that overflow no int, and for a server nobody stops.         *)
(***************************************************************************)
EXTENDS StockEventServer

\* The request of a client that waits for its reply.
Requested(c) == IF cur = c THEN req ELSE inbox[c][1].req
Handled(c)   == cur = c /\ phase \in {"open", "write", "reply"}

\* What has become of the request of client c.
Call(c) ==
    IF ~waiting[c] THEN [phase |-> "idle"]
    ELSE IF Handled(c) THEN [phase |-> "done", reply |-> response]
    ELSE [phase |-> "pending", req |-> Requested(c)]

Inventory == INSTANCE StockInventory WITH
    inv <- stock, heard <- got, Request <- Trades \cup {Show, Junk},
    call <- [c \in Client |-> Call(c)]

\* However the lines of several clients arrive and interleave, the server is
\* the atomic inventory of StockInventory (handle_clients, handle_cmd, buy
\* and sell).
ImplementsInventory == Inventory!Spec
=============================================================================
