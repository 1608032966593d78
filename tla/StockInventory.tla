--------------------------- MODULE StockInventory ---------------------------
(***************************************************************************)
(* What a stock server promises its clients, whatever its concurrency      *)
(* model: every request takes effect at one instant between its arrival    *)
(* and its answer, on one inventory shared by all clients, and the client  *)
(* that sent it receives the answer of that instant.  Both servers of      *)
(* Lab 3 are compared with this specification.                             *)
(***************************************************************************)
EXTENDS Integers, Sequences, FiniteSets

CONSTANTS
    Client,     \* connections
    Item,       \* stock IDs of the inventory
    Initial,    \* what stock.txt holds of each item at start-up
    IntMax,     \* INT_MAX
    Request     \* the requests a client may send

VARIABLES
    inv,        \* the amount left of each item
    call,       \* per client: idle, a pending request, or an answer on its way
    heard       \* per client: the last answer it received

vars == <<inv, call, heard>>

Idle       == [phase |-> "idle"]
Pending(r) == [phase |-> "pending", req |-> r]
Done(s)    == [phase |-> "done", reply |-> s]

\* The answer to `show': one row per item, by increasing ID.
Listing(amounts) ==
    LET rows == 1..Cardinality(Item)
        ids  == CHOOSE s \in [rows -> Item] : \A j, k \in DOMAIN s : j < k => s[j] < s[k]
    IN  [k \in rows |-> <<"row", ids[k], amounts[ids[k]]>>]

\* What a trade would leave of its item.
Balance(r) == IF r.op = "buy" THEN inv[r.id] - r.qty ELSE inv[r.id] + r.qty

Init ==
    /\ inv = Initial
    /\ call = [c \in Client |-> Idle]
    /\ heard = [c \in Client |-> <<>>]

Ask(c) ==
    /\ call[c] = Idle
    /\ \E r \in Request : call' = [call EXCEPT ![c] = Pending(r)]
    /\ UNCHANGED <<inv, heard>>

Reply(c, s) == call' = [call EXCEPT ![c] = Done(s)] /\ UNCHANGED heard

List(c, r) ==
    /\ r.op = "show"
    /\ Reply(c, Listing(inv)) /\ UNCHANGED inv

Trade(c, r) ==
    /\ r.op \in {"buy", "sell"} /\ r.id \in Item
    /\ Balance(r) \in 0..IntMax
    /\ inv' = [inv EXCEPT ![r.id] = Balance(r)]
    /\ Reply(c, <<<<r.op>>>>)

Refuse(c, r) ==
    /\ r.op \in {"buy", "sell"} /\ r.id \in Item
    /\ Balance(r) \notin 0..IntMax
    /\ Reply(c, <<<<"short">>>>) /\ UNCHANGED inv

UnknownItem(c, r) ==
    /\ r.op \in {"buy", "sell"} /\ r.id \notin Item
    /\ \E n \in 1..2 : Reply(c, [k \in 1..n |-> <<"none">>])   \* said once or twice
    /\ UNCHANGED inv

Reject(c, r) ==
    /\ r.op = "junk"
    /\ Reply(c, <<<<"invalid">>>>) /\ UNCHANGED inv

Perform(c) ==
    /\ call[c].phase = "pending"
    /\ LET r == call[c].req
       IN  List(c, r) \/ Trade(c, r) \/ Refuse(c, r) \/ UnknownItem(c, r) \/ Reject(c, r)

Answer(c) ==
    /\ call[c].phase = "done"
    /\ heard' = [heard EXCEPT ![c] = call[c].reply]
    /\ call' = [call EXCEPT ![c] = Idle]
    /\ UNCHANGED inv

Next == \E c \in Client : Ask(c) \/ Perform(c) \/ Answer(c)

Spec == Init /\ [][Next]_vars
=============================================================================
