--------------------------- MODULE StockEventServer ---------------------------
(***************************************************************************)
(* The select-based stock server, Lab 3/task_1/stockserver.c: one thread,  *)
(* a pool of client slots, and the clients at the other end of the         *)
(* sockets.                                                                *)
(*                                                                         *)
(* The server's thread is interrupted by nothing but the clients' sends    *)
(* and a kill, so a step is the stretch between two points where these     *)
(* matter: select, accept, one slot of handle_clients, a read that blocks, *)
(* the body of handle_cmd, the fopen and the fclose of a save, the reply.  *)
(* The tree is a function from IDs to amounts, stock.txt likewise.         *)
(***************************************************************************)
EXTENDS Integers, Sequences, FiniteSets

CONSTANTS
    Client,     \* connections
    None,       \* clientfd[i] = -1
    Slots,      \* size of clientfd[] (FD_SETSIZE)
    Ids,        \* stock IDs a client may name
    Item,       \* stock IDs of stock.txt
    Initial,    \* amount of each item in stock.txt at the first start
    Qty,        \* quantities a client may send
    IntMax,     \* INT_MAX of the platform's int
    Ops,        \* kinds of line the clients of this instance send
    Pipelining, \* clients that send before they have their reply
    Splitting,  \* clients whose lines may arrive in two pieces
    Rude,       \* clients that may close in mid-line or before their reply
    Budget,     \* bound: lines a connection sends in its life
    Kills       \* bound: kills and restarts of the process

ASSUME ConstantsOK ==
    /\ IsFiniteSet(Client) /\ None \notin Client /\ "listen" \notin Client
    /\ Slots \in Nat \ {0}
    /\ IsFiniteSet(Item) /\ Item \subseteq Ids /\ Ids \subseteq Int
    /\ IntMax \in Nat /\ Qty \subseteq -(IntMax+1)..IntMax
    /\ Initial \in [Item -> -(IntMax+1)..IntMax]
    /\ Budget \in Nat /\ Kills \in Nat

VARIABLES
    stock,      \* left_stock of the nodes of the tree; its domain is the tree's
    file,       \* rows of stock.txt
    proc,       \* "running" or "dead"
    phase,      \* where the event loop is
    slot,       \* clientfd[]
    maxi, nready, active,
    ready,      \* ready_set: clients, and "listen" for the listening socket
    i,          \* the loop variable of handle_clients
    cur,        \* the client being served, None outside handle_cmd
    req,        \* the line being handled
    response,
    \* the sockets and their clients
    backlog,    \* connections waiting for accept
    link,       \* "none", "queued", "open", "shut" (end of file), "reset", "gone"
    inbox,      \* pieces of text in the socket, sent and not yet read
    midline,    \* the client has sent a piece of a line and not its end
    waiting,    \* the client has sent a line and not had its reply
    got,        \* the last reply a client received
    budget, kills,
    lost        \* history: whole lines the server read and then dropped

core    == <<stock, file, proc>>
pool    == <<slot, maxi, active, ready>>
loop    == <<phase, nready, i>>
serving == <<cur, req, response>>
wires   == <<backlog, link, inbox, midline, waiting, got, budget>>
vars    == <<core, pool, loop, serving, wires, kills, lost>>

Trades == [op : {"buy", "sell"}, id : Ids, qty : Qty]
Show   == [op |-> "show"]
Junk   == [op |-> "junk"]
Exit   == [op |-> "exit"]
Lines  == {r \in Trades \cup {Show, Junk, Exit} : r.op \in Ops}

\* A piece of a connection's text: a whole line, a line up to somewhere in
\* its middle, or the end of such a line.
Whole(r) == [kind |-> "whole", req |-> r]
Part(r)  == [kind |-> "part", req |-> r]
Rest     == [kind |-> "rest"]

NoFile == [k \in {} |-> 0]
Row(k, n) == <<"row", k, n>>
Say(m) == <<<<m>>>>

\* Arithmetic on int, wrapped around as the build does.
Wrap(n) == IF n > IntMax THEN n - 2 * (IntMax + 1)
           ELSE IF n < -(IntMax + 1) THEN n + 2 * (IntMax + 1)
           ELSE n

\* The in-order walk of show_stock.
ShowOrder == CHOOSE s \in [1..Cardinality(DOMAIN stock) -> DOMAIN stock] :
                 \A j, k \in DOMAIN s : j < k => s[j] < s[k]
Listing == [k \in 1..Cardinality(DOMAIN stock) |-> Row(ShowOrder[k], stock[ShowOrder[k]])]

-----------------------------------------------------------------------------
Init ==
    /\ stock = Initial /\ file = Initial /\ proc = "running"
    /\ phase = "select" /\ nready = 0 /\ i = 1
    /\ slot = [k \in 1..Slots |-> None] /\ maxi = 0 /\ active = 0 /\ ready = {}
    /\ cur = None /\ req = Junk /\ response = <<>>
    /\ backlog = <<>> /\ link = [c \in Client |-> "none"]
    /\ inbox = [c \in Client |-> <<>>]
    /\ midline = [c \in Client |-> <<>>] /\ waiting = [c \in Client |-> FALSE]
    /\ got = [c \in Client |-> <<>>]
    /\ budget = [c \in Client |-> Budget]
    /\ kills = 0 /\ lost = 0

-----------------------------------------------------------------------------
\* The clients (stockclient.c, multiclient.c and others).

Connected(c) == link[c] \in {"queued", "open"}

Connect(c) ==
    /\ link[c] = "none" /\ proc = "running"
    /\ link' = [link EXCEPT ![c] = "queued"] /\ backlog' = Append(backlog, c)
    /\ UNCHANGED <<core, pool, loop, serving, inbox, midline, waiting, got, budget, kills, lost>>

MaySend(c) ==
    /\ Connected(c) /\ proc = "running" /\ budget[c] > 0
    /\ waiting[c] => c \in Pipelining

Send(c, pieces, open) ==
    /\ inbox' = [inbox EXCEPT ![c] = @ \o pieces]
    /\ midline' = [midline EXCEPT ![c] = open]
    /\ UNCHANGED <<core, pool, loop, serving, backlog, link, got, kills, lost>>

SendLine(c) ==
    /\ MaySend(c) /\ midline[c] = <<>>
    /\ \E r \in Lines : Send(c, <<Whole(r)>>, <<>>)
    /\ budget' = [budget EXCEPT ![c] = @ - 1]
    /\ waiting' = [waiting EXCEPT ![c] = TRUE]

SendPart(c) ==
    /\ MaySend(c) /\ midline[c] = <<>> /\ c \in Splitting
    /\ \E r \in Lines : Send(c, <<Part(r)>>, <<r>>)
    /\ budget' = [budget EXCEPT ![c] = @ - 1]
    /\ UNCHANGED waiting

SendRest(c) ==
    /\ Connected(c) /\ proc = "running" /\ midline[c] # <<>>
    /\ Send(c, <<Rest>>, <<>>)
    /\ waiting' = [waiting EXCEPT ![c] = TRUE]
    /\ UNCHANGED budget

\* Closing with a reply unread resets the connection.
Close(c) ==
    /\ link[c] = "open"
    /\ c \in Rude \/ (~waiting[c] /\ midline[c] = <<>>)
    /\ \E l \in {"shut"} \cup (IF c \in Rude THEN {"reset"} ELSE {}) :
          link' = [link EXCEPT ![c] = l]
    /\ UNCHANGED <<core, pool, loop, serving, backlog, inbox, midline, waiting, got, budget, kills, lost>>

-----------------------------------------------------------------------------
\* The event loop.

At(p) == proc = "running" /\ phase = p

Readable_Listen ==          \* mutant: FD_SET(connfd, &p->read_set) missing
    IF backlog # <<>> THEN {"listen"} ELSE {}

\* select returns the descriptors that can be read without blocking: the
\* listening socket with a connection, a client with text or an end of file.
Readable == {c \in Client : /\ \E k \in 1..Slots : slot[k] = c
                            /\ inbox[c] # <<>> \/ link[c] \in {"shut", "reset"}}
            \cup (IF backlog # <<>> THEN {"listen"} ELSE {})

Select ==
    /\ At("select") /\ Readable # {}
    /\ ready' = Readable /\ nready' = Cardinality(Readable) /\ i' = 1
    /\ phase' = IF "listen" \in Readable THEN "accept" ELSE "scan"
    /\ UNCHANGED <<core, slot, maxi, active, serving, wires, kills, lost>>

FreeSlots == {k \in 1..Slots : slot[k] = None}

AddClient_Uncounted ==      \* mutant: active_clients++ missing
    /\ At("accept") /\ FreeSlots # {}
    /\ LET k == CHOOSE k \in FreeSlots : \A m \in FreeSlots : k <= m IN
          /\ slot' = [slot EXCEPT ![k] = Head(backlog)]
          /\ maxi' = IF k > maxi THEN k ELSE maxi
    /\ link' = [link EXCEPT ![Head(backlog)] = IF @ = "queued" THEN "open" ELSE @]
    /\ backlog' = Tail(backlog)
    /\ nready' = nready - 1 /\ phase' = "scan"
    /\ UNCHANGED <<core, active, ready, i, serving, inbox, midline, waiting, got, budget,
                   kills, lost>>

AddClient ==        \* Accept and add_client
    /\ At("accept") /\ FreeSlots # {}
    /\ LET k == CHOOSE k \in FreeSlots : \A m \in FreeSlots : k <= m IN
          /\ slot' = [slot EXCEPT ![k] = Head(backlog)]
          /\ maxi' = IF k > maxi THEN k ELSE maxi
    /\ link' = [link EXCEPT ![Head(backlog)] = IF @ = "queued" THEN "open" ELSE @]
    /\ backlog' = Tail(backlog)
    /\ active' = active + 1 /\ nready' = nready - 1 /\ phase' = "scan"
    /\ UNCHANGED <<core, ready, i, serving, inbox, midline, waiting, got, budget, kills, lost>>

TooManyClients ==   \* app_error ends the process
    /\ At("accept") /\ FreeSlots = {}
    /\ nready' = nready - 1 /\ proc' = "dead"
    /\ UNCHANGED <<stock, file, pool, phase, i, serving, wires, kills, lost>>

\* handle_clients goes on while i <= maxi and nready > 0.
Scanning == At("scan") /\ i <= maxi /\ nready > 0
Ready(k) == slot[k] # None /\ slot[k] \in ready

SkipSlot ==
    /\ Scanning /\ ~Ready(i)
    /\ i' = i + 1
    /\ UNCHANGED <<core, pool, phase, nready, serving, wires, kills, lost>>

RemoveClient_StillReady ==  \* mutant: nready-- only for a client with a line
    /\ Scanning /\ Ready(i)
    /\ LET c == slot[i] IN
          /\ inbox[c] = <<>> /\ link[c] = "shut"
          /\ link' = [link EXCEPT ![c] = "gone"]
    /\ slot' = [slot EXCEPT ![i] = None] /\ active' = active - 1
    /\ i' = i + 1
    /\ UNCHANGED <<core, nready, maxi, ready, phase, serving, backlog, inbox, midline, waiting,
                   got, budget, kills, lost>>

RemoveClient ==     \* end of file with nothing read
    /\ Scanning /\ Ready(i)
    /\ LET c == slot[i] IN
          /\ inbox[c] = <<>> /\ link[c] = "shut"
          /\ link' = [link EXCEPT ![c] = "gone"]
    /\ slot' = [slot EXCEPT ![i] = None] /\ active' = active - 1
    /\ nready' = nready - 1 /\ i' = i + 1
    /\ UNCHANGED <<core, maxi, ready, phase, serving, backlog, inbox, midline, waiting,
                   got, budget, kills, lost>>

\* A line that ends with the connection instead of its newline: handle_cmd
\* knows "show" and "exit" only with the newline, and a trade may have lost
\* its quantity or the last digits of it.
CutShort(r) ==
    {Junk} \cup {t \in Trades : /\ t.op = r.op /\ t.id = r.id
                               /\ IF r.qty < 0 THEN t.qty \in r.qty..-1 ELSE t.qty \in 0..r.qty}
Unterminated(r) == IF r \in Trades THEN CutShort(r) ELSE {Junk}

\* The whole lines among pieces that end up in a rio_t nobody keeps.
Wasted(pieces) == Cardinality({k \in DOMAIN pieces : pieces[k].kind \in {"whole", "rest"}})

\* handle_clients copies p->clientrio[i] and reads through the copy: one
\* read() empties the socket, the first line is handled and what follows it
\* disappears with the copy.  A line without its end leaves the server in
\* read() until there is more.
TakeText ==
    /\ Scanning /\ Ready(i) /\ inbox[slot[i]] # <<>>
    /\ LET c == slot[i]
           p == inbox[c]
           n == IF p[1].kind = "part" /\ Len(p) > 1 THEN 2 ELSE 1   \* pieces used
       IN  /\ \/ /\ p[1].kind # "part" \/ n = 2 \/ link[c] = "shut"
                 /\ phase' = "handle"
                 /\ req' \in IF p[1].kind = "rest" THEN {Junk}
                             ELSE IF p[1].kind = "part" /\ n = 1 THEN Unterminated(p[1].req)
                             ELSE {p[1].req}
              \/ /\ p[1].kind = "part" /\ n = 1 /\ link[c] # "shut"
                 /\ phase' = "block" /\ req' = p[1].req
           /\ cur' = c
           /\ inbox' = [inbox EXCEPT ![c] = <<>>]
           /\ lost' = lost + Wasted(SubSeq(p, n + 1, Len(p)))
    /\ nready' = nready - 1 /\ i' = i + 1
    /\ UNCHANGED <<core, pool, response, backlog, link, midline, waiting, got, budget, kills>>

ReadMore ==         \* the read() the server is blocked in returns
    /\ At("block")
    /\ \/ /\ inbox[cur] # <<>> /\ UNCHANGED req
          /\ lost' = lost + Wasted(Tail(inbox[cur]))
       \/ /\ inbox[cur] = <<>> /\ link[cur] = "shut"
          /\ req' \in Unterminated(req) /\ UNCHANGED lost
    /\ inbox' = [inbox EXCEPT ![cur] = <<>>]
    /\ phase' = "handle"
    /\ UNCHANGED <<core, pool, nready, i, cur, response, backlog, link, midline, waiting,
                   got, budget, kills>>

\* read() or write() fails on a reset connection: unix_error ends the process.
Broken ==
    /\ proc = "running" /\ proc' = "dead"
    /\ \/ Scanning /\ Ready(i) /\ inbox[slot[i]] = <<>> /\ link[slot[i]] = "reset"
       \/ phase = "block" /\ inbox[cur] = <<>> /\ link[cur] = "reset"
       \/ phase = "reply" /\ link[cur] = "reset"
    /\ UNCHANGED <<stock, file, pool, loop, serving, wires, kills, lost>>

EndScan ==          \* then save_stock if there is no client left
    /\ At("scan") /\ (i > maxi \/ nready <= 0)
    /\ phase' = IF active = 0 THEN "open" ELSE "select"
    /\ UNCHANGED <<core, pool, nready, i, serving, wires, kills, lost>>

-----------------------------------------------------------------------------
\* handle_cmd, buy and sell.

Respond(text, next) ==
    /\ At("handle") /\ response' = response \o text /\ phase' = next
    /\ UNCHANGED <<file, proc, pool, nready, i, cur, req, wires, kills, lost>>

HandleShow == req = Show /\ Respond(Listing, "reply") /\ UNCHANGED stock
HandleJunk == req = Junk /\ Respond(Say("invalid"), "reply") /\ UNCHANGED stock

\* find_stock says that there is no such ID, and sell says it once more.
HandleUnknown ==
    /\ req \in Trades /\ req.id \notin DOMAIN stock
    /\ Respond(IF req.op = "buy" THEN Say("none") ELSE Say("none") \o Say("none"), "reply")
    /\ UNCHANGED stock

Short(r) == stock[r.id] < r.qty

HandleShort ==
    /\ req \in Trades /\ req.op = "buy" /\ req.id \in DOMAIN stock /\ Short(req)
    /\ Respond(Say("short"), "reply")
    /\ UNCHANGED stock

HandleBuy_Unsaved ==        \* mutant: buy() without save_stock
    /\ req \in Trades /\ req.op = "buy" /\ req.id \in DOMAIN stock /\ ~Short(req)
    /\ stock' = [stock EXCEPT ![req.id] = Wrap(@ - req.qty)]
    /\ Respond(Say("buy"), "reply")

HandleBuy ==
    /\ req \in Trades /\ req.op = "buy" /\ req.id \in DOMAIN stock /\ ~Short(req)
    /\ stock' = [stock EXCEPT ![req.id] = Wrap(@ - req.qty)]
    /\ Respond(Say("buy"), "open")

HandleSell ==
    /\ req \in Trades /\ req.op = "sell" /\ req.id \in DOMAIN stock
    /\ stock' = [stock EXCEPT ![req.id] = Wrap(@ + req.qty)]
    /\ Respond(Say("sell"), "open")

HandleExit ==       \* an empty reply, then exit(0)
    /\ At("handle") /\ req = Exit
    /\ got' = [got EXCEPT ![cur] = IF link[cur] = "open" THEN <<>> ELSE @]
    /\ waiting' = [waiting EXCEPT ![cur] = FALSE]
    /\ active' = active - 1 /\ response' = <<>> /\ proc' = "dead"
    /\ UNCHANGED <<stock, file, slot, maxi, ready, loop, cur, req, backlog, link, inbox,
                   midline, budget, kills, lost>>

SaveOpen ==         \* fopen("stock.txt", "w") truncates
    /\ At("open")
    /\ file' = NoFile /\ phase' = "write"
    /\ UNCHANGED <<stock, proc, pool, nready, i, serving, wires, kills, lost>>

SaveClose ==        \* save_to_file's rows reach the file with fclose
    /\ At("write")
    /\ file' = stock /\ phase' = IF cur = None THEN "select" ELSE "reply"
    /\ UNCHANGED <<stock, proc, pool, nready, i, serving, wires, kills, lost>>

Reply_Keep ==               \* mutant: the memset of response missing
    /\ At("reply")
    /\ \/ link[cur] = "open" /\ got' = [got EXCEPT ![cur] = response] /\ UNCHANGED link
       \/ /\ link[cur] = "shut" /\ UNCHANGED got
          /\ \E l \in {"shut", "reset"} : link' = [link EXCEPT ![cur] = l]
    /\ waiting' = [waiting EXCEPT ![cur] = FALSE]
    /\ cur' = None /\ phase' = "scan"
    /\ UNCHANGED <<core, pool, nready, i, req, response, backlog, inbox, midline, budget,
                   kills, lost>>

Reply ==            \* Rio_writen and memset, then the next slot
    /\ At("reply")
    /\ \/ link[cur] = "open" /\ got' = [got EXCEPT ![cur] = response] /\ UNCHANGED link
       \/ /\ link[cur] = "shut" /\ UNCHANGED got      \* nobody reads it
          /\ \E l \in {"shut", "reset"} : link' = [link EXCEPT ![cur] = l]
    /\ waiting' = [waiting EXCEPT ![cur] = FALSE]
    /\ response' = <<>> /\ cur' = None /\ phase' = "scan"
    /\ UNCHANGED <<core, pool, nready, i, req, backlog, inbox, midline, budget, kills, lost>>

-----------------------------------------------------------------------------
\* The process is killed (^C is the only way to stop it but "exit"), and
\* started again: load_stock, init_pool.

Kill ==
    /\ proc = "running" /\ kills < Kills
    /\ proc' = "dead" /\ kills' = kills + 1
    /\ UNCHANGED <<stock, file, pool, loop, serving, wires, lost>>

Restart ==
    /\ proc = "dead" /\ kills < Kills
    /\ proc' = "running" /\ stock' = file /\ kills' = kills + 1
    /\ phase' = "select" /\ nready' = 0 /\ i' = 1
    /\ slot' = [k \in 1..Slots |-> None] /\ maxi' = 0 /\ active' = 0 /\ ready' = {}
    /\ cur' = None /\ response' = <<>> /\ backlog' = <<>>
    /\ link' = [c \in Client |-> IF link[c] = "none" THEN "none" ELSE "gone"]
    /\ inbox' = [c \in Client |-> <<>>] /\ midline' = [c \in Client |-> <<>>]
    /\ waiting' = [c \in Client |-> FALSE]
    /\ UNCHANGED <<file, req, got, budget, lost>>

-----------------------------------------------------------------------------
Handle == HandleShow \/ HandleJunk \/ HandleUnknown \/ HandleShort \/ HandleBuy
            \/ HandleSell \/ HandleExit

Server == Select \/ AddClient \/ TooManyClients \/ SkipSlot \/ RemoveClient \/ TakeText
            \/ ReadMore \/ Broken \/ EndScan \/ Handle \/ SaveOpen \/ SaveClose \/ Reply

Clients == \E c \in Client : Connect(c) \/ SendLine(c) \/ SendPart(c) \/ SendRest(c) \/ Close(c)

\* Nothing more can happen: no process, or no client to serve.
Quiet ==
    /\ proc = "dead" \/ (phase = "select" /\ Readable = {})
    /\ UNCHANGED vars

Next == Server \/ Clients \/ Kill \/ Restart \/ Quiet

Spec == Init /\ [][Next]_vars

\* The server's thread runs whenever it is not blocked.
FairSpec == Spec /\ WF_vars(Server)

\* And every client finishes the line it has begun.
FinishSpec == FairSpec /\ \A c \in Client : WF_vars(SendRest(c))

-----------------------------------------------------------------------------
Pieces == [kind : {"whole", "part"}, req : Trades \cup {Show, Junk, Exit}] \cup {Rest}

TypeOK ==
    /\ stock \in [Item -> -(IntMax+1)..IntMax] \cup {NoFile}
    /\ file \in [Item -> -(IntMax+1)..IntMax] \cup {NoFile}
    /\ proc \in {"running", "dead"}
    /\ phase \in {"select", "accept", "scan", "block", "handle", "open", "write", "reply"}
    /\ slot \in [1..Slots -> Client \cup {None}] /\ maxi \in 0..Slots
    /\ active \in Nat /\ nready \in Nat /\ i \in Nat \ {0}
    /\ ready \in SUBSET (Client \cup {"listen"})
    /\ cur \in Client \cup {None} /\ req \in Trades \cup {Show, Junk, Exit}
    /\ backlog \in Seq(Client)
    /\ link \in [Client -> {"none", "queued", "open", "shut", "reset", "gone"}]
    /\ inbox \in [Client -> Seq(Pieces)]
    /\ waiting \in [Client -> BOOLEAN] /\ budget \in [Client -> 0..Budget]
    /\ kills \in 0..Kills /\ lost \in Nat

\* Whenever the server is not in a save, stock.txt holds its inventory: a
\* kill outside a save and a restart lose nothing, and a client has no answer
\* before its trade is in the file (buy and sell save before handle_cmd
\* replies, lines 154, 168, 241).
FileCurrent == phase \notin {"open", "write"} => file = stock

\* Within handle_clients nready counts exactly the ready clients that the
\* loop has still to reach, so that `if (p->nready <= 0) break' never leaves
\* one of them out and the loop never runs past the last.
NReadyExact ==
    phase = "scan" \/ cur # None =>
        nready = Cardinality({k \in i..Slots : Ready(k)})

\* active_clients is the number of slots in use, and every slot in use is
\* one that handle_clients looks at.
SlotsExact ==
    /\ active = Cardinality({k \in 1..Slots : slot[k] # None})
    /\ \A k \in 1..Slots : slot[k] # None => k <= maxi
    /\ \A j, k \in 1..Slots : slot[j] = slot[k] /\ slot[j] # None => j = k

\* The pool's books are right, whatever comes, goes and breaks off.
PoolExact == NReadyExact /\ (proc = "running" => SlotsExact)

\* No line a client has sent disappears: the pool keeps the RIO state of
\* each client (Lab 3/README.md:33).
NoLineLost == lost = 0

\* A client that has sent a line gets a reply, or the server ends.
Answered == \A c \in Client : waiting[c] ~> (~waiting[c] \/ proc = "dead")
=============================================================================
