------------------------ MODULE StockThreadRefinement ------------------------
(***************************************************************************)
(* The thread server against the inventory it promises.  As long as no two *)
(* requests overlap, the server is that inventory: connections, closing    *)
(* saves and the end of the process may overlap them as they like.  A      *)
(* trade takes effect at its Store, a refusal when it is found, a show     *)
(* with its last row.                                                      *)
(***************************************************************************)
EXTENDS StockThreadServer

\* A thread between a line and the end of its memset of response.
Serving(c) ==
    (cmd[c] # Eof /\ pc[c] # "read") \/ pc[c] \in {"farewell", "unseat", "wipe"}

\* The clients take turns: one sends a line when no other has one under way.
OneRequest == \A c, d \in Client : Serving(c) /\ Serving(d) => c = d

SerialSpec == Init /\ [][Next /\ OneRequest']_vars

\* The request of client c has taken effect.  Of one that a reset cut off
\* before its reply nothing more is said.
Performed(c) ==
    CASE cmd[c].op = "show" -> pc[c] \in {"leave", "closeState", "reply", "exit", "exited"}
      [] cmd[c].op = "junk" -> pc[c] \in {"put", "reply", "exit", "exited"}
      [] cmd[c].op = "eof"  -> FALSE
      [] OTHER              -> pc[c] \in {"seek", "put", "open", "dump", "close", "reply",
                                         "exit", "exited"}

\* The answer to it.
Said(c) ==
    IF cmd[c].op = "show"
    THEN [k \in 1..Len(ShowOrder) |-> Row(ShowOrder[k], stock[ShowOrder[k]])]
    ELSE <<text[c]>>

Unasked(c) ==
    pc[c] \in {"off", "read", "clear", "finish", "uncount", "gone"} \/ cmd[c] = Eof

Call(c) ==
    IF Unasked(c) THEN [phase |-> "idle"]
    ELSE IF Performed(c) THEN [phase |-> "done", reply |-> Said(c)]
    ELSE [phase |-> "pending", req |-> cmd[c]]

Inventory == INSTANCE StockInventory WITH
    inv <- stock, heard <- got, Request <- Trades \cup {Show, Junk},
    call <- [c \in Client |-> Call(c)]

\* Every request takes effect at one instant between its line and its reply.
ImplementsInventory == Inventory!Spec
=============================================================================
