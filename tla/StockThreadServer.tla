-------------------------- MODULE StockThreadServer --------------------------
(***************************************************************************)
(* The thread-per-client stock server, Lab 3/task_2/stockserver.c.         *)
(*                                                                         *)
(* One worker thread serves each connection and the main thread accepts    *)
(* them.  A step is one access to state that threads share: a semaphore    *)
(* operation, the read or the write of a left_stock or of active_clients,  *)
(* the strlen and the copy of a strcat on the shared response buffer, the  *)
(* fopen, a row and the fclose of a save.  Thread-local work rides with    *)
(* the next access.  exit(0) stops no other thread before its very end.    *)
(*                                                                         *)
(* The tree of items never changes its shape after load_stock, so it is a  *)
(* function from IDs to amounts with two orders of its keys: the in-order  *)
(* walk of show_stock and the pre-order walk of save_to_file.  Prices      *)
(* never change and are left out.  A file is a sequence of rows of one     *)
(* width: what is left of a longer save under a shorter one that overlaps  *)
(* it is not told apart from a row.                                        *)
(***************************************************************************)
EXTENDS Integers, Sequences, FiniteSets

CONSTANTS
    Client,     \* connections, each with its worker thread
    Ids,        \* stock IDs a client may name
    Item,       \* stock IDs of stock.txt
    Initial,    \* amount of each item in stock.txt at start-up
    ShowOrder,  \* the items in the order show_stock walks the tree
    FileOrder,  \* the items in the order save_to_file visits them
    Qty,        \* quantities a client may send
    IntMax,     \* INT_MAX of the platform's int
    Ops,        \* kinds of line the clients of this instance send
    Budget      \* bound: lines a connection sends in its life

ASSUME ConstantsOK ==
    /\ IsFiniteSet(Client)
    /\ Ids \subseteq Int /\ Item \subseteq Ids /\ Qty \subseteq Int
    /\ IntMax \in Nat /\ Qty \subseteq -(IntMax+1)..IntMax
    /\ Initial \in [Item -> 0..IntMax]
    /\ ShowOrder \in Seq(Item) /\ FileOrder \in Seq(Item)
    /\ \A i \in Item : \E j \in 1..Len(ShowOrder), k \in 1..Len(FileOrder) :
          ShowOrder[j] = i /\ FileOrder[k] = i
    /\ \A j, k \in 1..Len(ShowOrder) : j < k => ShowOrder[j] < ShowOrder[k]
    /\ Budget \in Nat

VARIABLES
    \* shared by the threads of the process
    stock,          \* left_stock of each node of the tree
    itemMutex,      \* the mutex of each item
    mutex,          \* protects readcnt
    stateMutex,     \* state_mutex: readers against active_clients
    readcnt,
    activeClients,
    seen,           \* what a thread, or main for its new one, loaded of it
    response,       \* the text of response[] up to its first NUL, in lines
    file,           \* rows of stock.txt
    proc,           \* the process: running, in some thread's exit(0), or dead
    \* the main thread
    mainPc, conn,
    \* each worker thread and its locals
    pc, cmd, upd, text, pos, todo, buf,
    \* the clients
    budget,         \* lines left to send
    got,            \* last reply received
    \* history: what the successful trades add up to, the items on which two
    \* trades overlapped, and whether the last save overlapped another save or
    \* the assignment of a trade
    net, raced, mixed

trading == <<stock, itemMutex, upd, net, raced>>
sems    == <<mutex, stateMutex, readcnt>>
reply   == <<response, text, pos, got>>
disk    == <<file, buf, mixed>>
conns   == <<mainPc, conn, activeClients, seen, budget>>
vars    == <<trading, sems, reply, disk, conns, proc, pc, cmd, todo>>

Trades == [op : {"buy", "sell"}, id : Ids, qty : Qty]
Show   == [op |-> "show"]
Junk   == [op |-> "junk"]
Eof    == [op |-> "eof"]      \* no request in hand
Cmd    == Trades \cup {Show, Junk, Eof}

Row(i, n) == <<"row", i, n>>
Hole  == <<"hole">>     \* bytes of a file that nobody wrote
Token == {Row(i, n) : i \in Item, n \in 0..IntMax}
            \cup {<<m>> : m \in {"buy", "sell", "short", "none", "invalid", "hole"}}

\* Addition of two ints, wrapped around as the build does.
Wrap(n) == IF n > IntMax THEN n - 2 * (IntMax + 1)
           ELSE IF n < -(IntMax + 1) THEN n + 2 * (IntMax + 1)
           ELSE n

\* Mutant: buying adds and selling takes away.
Updated_Swapped(r) == Wrap(IF r.op = "buy" THEN stock[r.id] + r.qty ELSE stock[r.id] - r.qty)

\* What process_stock computes as updated_stock.
Updated(r) == Wrap(IF r.op = "buy" THEN stock[r.id] - r.qty ELSE stock[r.id] + r.qty)

\* Mutant: the check of updated_stock is off by one.
Refused_Off(r) == Updated(r) < -1

Refused(r) == Updated(r) < 0

\* strcat(response, t) once strlen found its end at p: a NUL follows the
\* copy, and text copied beyond the present end stays invisible.
Put(s, p, t) == IF p <= Len(s) + 1 THEN Append(SubSeq(s, 1, p - 1), t) ELSE s

\* Mutant: the stream is never closed, its buffer never written.
Overlay_Lost(rows, at, f) == f

\* A write of `rows' behind the first `at' rows of a file, which another
\* stream may have truncated since.
Overlay(rows, at, f) ==
    LET end  == at + Len(rows)
        size == IF end > Len(f) THEN end ELSE Len(f)
    IN  IF rows = <<>> THEN f
        ELSE [k \in 1..size |-> IF at < k /\ k <= end THEN rows[k - at]
                                ELSE IF k <= Len(f) THEN f[k] ELSE Hole]

-----------------------------------------------------------------------------
Init ==
    /\ stock = Initial
    /\ itemMutex = [i \in Item |-> 1]
    /\ mutex = 1 /\ stateMutex = 1 /\ readcnt = 0
    /\ activeClients = 0 /\ seen = [c \in Client |-> 0] /\ mainPc = "accept" /\ conn \in Client
    /\ response = <<>>
    /\ file = [k \in 1..Len(FileOrder) |-> Row(FileOrder[k], Initial[FileOrder[k]])]
    /\ proc = "running"
    /\ pc = [c \in Client |-> "off"]
    /\ cmd = [c \in Client |-> Eof]
    /\ upd = [c \in Client |-> 0]
    /\ text = [c \in Client |-> <<"invalid">>]
    /\ pos = [c \in Client |-> 1]
    /\ todo = [c \in Client |-> <<>>]
    /\ buf = [c \in Client |-> <<>>]
    /\ budget = [c \in Client |-> Budget]
    /\ got = [c \in Client |-> <<>>]
    /\ net = [i \in Item |-> 0]
    /\ raced = {} /\ mixed = FALSE

Alive         == proc # "dead"
At(c, l)      == Alive /\ pc[c] = l
Goto(c, l)    == pc' = [pc EXCEPT ![c] = l]
Say(c, t)     == text' = [text EXCEPT ![c] = t]

-----------------------------------------------------------------------------
\* The main thread: accept, count the client, create its thread.

Accept(c) ==
    /\ Alive /\ mainPc = "accept" /\ pc[c] = "off"
    /\ mainPc' = "lockState" /\ conn' = c
    /\ UNCHANGED <<trading, sems, reply, disk, activeClients, seen, budget, proc, pc, cmd, todo>>

\* Mutant: waits until there are no clients.
MainLockState_Alone ==
    /\ Alive /\ mainPc = "lockState" /\ stateMutex = 1 /\ activeClients = 0
    /\ stateMutex' = 0 /\ seen' = [seen EXCEPT ![conn] = activeClients] /\ mainPc' = "count"
    /\ UNCHANGED <<trading, mutex, readcnt, reply, disk, conn, activeClients, budget,
                   proc, pc, cmd, todo>>

MainLockState ==        \* P(&state_mutex); the load of active_clients++
    /\ Alive /\ mainPc = "lockState" /\ stateMutex = 1
    /\ stateMutex' = 0 /\ seen' = [seen EXCEPT ![conn] = activeClients] /\ mainPc' = "count"
    /\ UNCHANGED <<trading, mutex, readcnt, reply, disk, conn, activeClients, budget,
                   proc, pc, cmd, todo>>

StartThread ==          \* its store; V(&state_mutex); Pthread_create
    /\ Alive /\ mainPc = "count"
    /\ activeClients' = seen[conn] + 1 /\ stateMutex' = 1
    /\ Goto(conn, "read") /\ mainPc' = "accept"
    /\ UNCHANGED <<trading, mutex, readcnt, reply, disk, conn, seen, budget, proc, cmd, todo>>

-----------------------------------------------------------------------------
\* A line arrives, or the connection ends.

Lines == {r \in Trades \cup {Show, Junk, [op |-> "cut"]} : r.op \in Ops}

\* sscanf leaves the fields a line lacks uninitialised and its result is not
\* looked at, so a cut trade runs as any trade or as none.
Parsed(line) == IF line.op = "cut" THEN Trades \cup {Junk} ELSE {line}

Entry(r) == CASE r.op = "show" -> "enter"
              [] r.op = "junk" -> "seek"
              [] OTHER         -> "quote"

ReadLine(c) ==
    /\ At(c, "read") /\ budget[c] > 0
    /\ budget' = [budget EXCEPT ![c] = @ - 1]
    /\ \E line \in Lines : \E r \in Parsed(line) :
          /\ cmd' = [cmd EXCEPT ![c] = r]
          /\ Goto(c, Entry(r))
    /\ Say(c, <<"invalid">>)
    /\ todo' = [todo EXCEPT ![c] = ShowOrder]
    /\ UNCHANGED <<trading, sems, response, pos, got, disk, mainPc, conn, activeClients, seen, proc>>

Hangup(c) ==
    /\ At(c, "read")
    /\ cmd' = [cmd EXCEPT ![c] = Eof] /\ Goto(c, "open")
    /\ UNCHANGED <<trading, sems, reply, disk, conns, proc, todo>>

ReadExit(c) ==      \* the line "exit", whose fate is below
    /\ At(c, "read") /\ budget[c] > 0 /\ "exit" \in Ops
    /\ cmd' = [cmd EXCEPT ![c] = Eof] /\ Goto(c, "farewell")
    /\ UNCHANGED <<trading, sems, reply, disk, conns, proc, todo>>

-----------------------------------------------------------------------------
\* show_stock: the readers' side of a readers-writers lock around the walk.

Enter(c) ==         \* P(&mutex); readcnt++
    /\ At(c, "enter") /\ mutex = 1
    /\ mutex' = 0 /\ readcnt' = readcnt + 1
    /\ Goto(c, IF readcnt = 0 THEN "lockState" ELSE "openMutex")
    /\ UNCHANGED <<trading, stateMutex, reply, disk, conns, proc, cmd, todo>>

LockState(c) ==     \* the first reader: P(&state_mutex)
    /\ At(c, "lockState") /\ stateMutex = 1
    /\ stateMutex' = 0 /\ Goto(c, "openMutex")
    /\ UNCHANGED <<trading, mutex, readcnt, reply, disk, conns, proc, cmd, todo>>

OpenMutex(c) ==     \* V(&mutex)
    /\ At(c, "openMutex")
    /\ mutex' = 1 /\ Goto(c, IF todo[c] = <<>> THEN "leave" ELSE "row")
    /\ UNCHANGED <<trading, stateMutex, readcnt, reply, disk, conns, proc, cmd, todo>>

ReadRow(c) ==       \* snprintf of the next node of the in-order walk
    /\ At(c, "row")
    /\ LET i == Head(todo[c]) IN Say(c, Row(i, stock[i]))
    /\ todo' = [todo EXCEPT ![c] = Tail(@)] /\ Goto(c, "seek")
    /\ UNCHANGED <<trading, sems, response, pos, got, disk, conns, proc, cmd>>

\* Mutant: the reader leaves without P(&mutex).
Leave_NoMutex(c) ==
    /\ At(c, "leave")
    /\ mutex' = mutex /\ readcnt' = readcnt - 1 /\ Goto(c, "closeState")
    /\ UNCHANGED <<trading, stateMutex, reply, disk, conns, proc, cmd, todo>>

Leave(c) ==         \* P(&mutex); readcnt--
    /\ At(c, "leave") /\ mutex = 1
    /\ mutex' = 0 /\ readcnt' = readcnt - 1 /\ Goto(c, "closeState")
    /\ UNCHANGED <<trading, stateMutex, reply, disk, conns, proc, cmd, todo>>

\* Mutant: the last reader keeps state_mutex unless it is not the last.
CloseState_OffByOne(c) ==
    /\ At(c, "closeState")
    /\ stateMutex' = IF readcnt = 1 THEN 1 ELSE stateMutex
    /\ mutex' = 1 /\ Goto(c, "reply")
    /\ UNCHANGED <<trading, readcnt, reply, disk, conns, proc, cmd, todo>>

CloseState(c) ==    \* the last reader: V(&state_mutex); then V(&mutex)
    /\ At(c, "closeState")
    /\ stateMutex' = IF readcnt = 0 THEN 1 ELSE stateMutex
    /\ mutex' = 1 /\ Goto(c, "reply")
    /\ UNCHANGED <<trading, readcnt, reply, disk, conns, proc, cmd, todo>>

-----------------------------------------------------------------------------
\* process_stock: the new amount is computed, and checked, before the item's
\* mutex is taken.

InFlight(c, i) == pc[c] \in {"lockItem", "store"} /\ cmd[c].id = i

\* A thread between the fopen and the fclose of a save.
Saving(c) == pc[c] \in {"dump", "close"}

Refuse(c) ==        \* no such ID, or a negative updated_stock
    /\ At(c, "quote")
    /\ \/ cmd[c].id \notin Item /\ Say(c, <<"none">>)
       \/ cmd[c].id \in Item /\ Refused(cmd[c]) /\ Say(c, <<"short">>)
    /\ Goto(c, "seek")
    /\ UNCHANGED <<trading, sems, response, pos, got, disk, conns, proc, cmd, todo>>

Quote(c) ==
    /\ At(c, "quote") /\ cmd[c].id \in Item /\ ~Refused(cmd[c])
    /\ upd' = [upd EXCEPT ![c] = Updated(cmd[c])]
    /\ raced' = raced \cup {i \in {cmd[c].id} : \E d \in Client : InFlight(d, i)}
    /\ Goto(c, "lockItem")
    /\ UNCHANGED <<stock, itemMutex, net, sems, reply, disk, conns, proc, cmd, todo>>

LockItem(c) ==      \* P(&stock->data.mutex)
    /\ At(c, "lockItem") /\ itemMutex[cmd[c].id] = 1
    /\ itemMutex' = [itemMutex EXCEPT ![cmd[c].id] = 0]
    /\ Goto(c, "store")
    /\ UNCHANGED <<stock, upd, net, raced, sems, reply, disk, conns, proc, cmd, todo>>

Store(c) ==         \* left_stock = updated_stock; V(&stock->data.mutex)
    /\ At(c, "store")
    /\ LET r == cmd[c] IN
          /\ stock' = [stock EXCEPT ![r.id] = upd[c]]
          /\ itemMutex' = [itemMutex EXCEPT ![r.id] = 1]
          /\ net' = [net EXCEPT ![r.id] = IF r.op = "buy" THEN @ - r.qty ELSE @ + r.qty]
          /\ Say(c, <<r.op>>)
    /\ mixed' = (mixed \/ \E d \in Client : Saving(d))
    /\ Goto(c, "seek")
    /\ UNCHANGED <<upd, raced, sems, response, pos, got, file, buf, conns, proc, cmd, todo>>

-----------------------------------------------------------------------------
\* Text goes to the one response buffer with strcat, then to the client.

Seek(c) ==          \* strcat's search for the end of response
    /\ At(c, "seek")
    /\ pos' = [pos EXCEPT ![c] = Len(response) + 1] /\ Goto(c, "put")
    /\ UNCHANGED <<trading, sems, response, text, got, disk, conns, proc, cmd, todo>>

\* Mutants: show_stock returns after its first row; a success is answered
\* before it is saved.
AfterPut_EarlyReturn(c) ==
    IF cmd[c].op # "show" /\ text[c] \in {<<"buy">>, <<"sell">>} THEN "open" ELSE "reply"
AfterPut_NoSave(c) ==
    IF cmd[c].op = "show" THEN IF todo[c] = <<>> THEN "leave" ELSE "row" ELSE "reply"

AfterPut(c) ==
    IF cmd[c].op = "show" THEN IF todo[c] = <<>> THEN "leave" ELSE "row"
    ELSE IF text[c] \in {<<"buy">>, <<"sell">>} THEN "open"
    ELSE "reply"

PutText(c) ==       \* strcat's copy
    /\ At(c, "put")
    /\ response' = Put(response, pos[c], text[c]) /\ Goto(c, AfterPut(c))
    /\ UNCHANGED <<trading, sems, text, pos, got, disk, conns, proc, cmd, todo>>

Reply(c) ==         \* Rio_writen(fd, response, MAXLINE)
    /\ At(c, "reply")
    /\ got' = [got EXCEPT ![c] = response] /\ Goto(c, "clear")
    /\ UNCHANGED <<trading, sems, response, text, pos, disk, conns, proc, cmd, todo>>

\* Mutant: the response is not cleared.
Clear_Keep(c) ==
    /\ At(c, "clear")
    /\ Goto(c, "read")
    /\ UNCHANGED <<trading, sems, reply, disk, conns, proc, cmd, todo>>

Clear(c) ==         \* memset(response, 0, sizeof(response))
    /\ At(c, "clear")
    /\ response' = <<>> /\ Goto(c, "read")
    /\ UNCHANGED <<trading, sems, text, pos, got, disk, conns, proc, cmd, todo>>

-----------------------------------------------------------------------------
\* save_stock, after each successful trade and at the end of a connection.

OpenFile(c) ==      \* fopen("stock.txt", "w") truncates
    /\ At(c, "open")
    /\ file' = <<>> /\ buf' = [buf EXCEPT ![c] = <<>>]
    /\ todo' = [todo EXCEPT ![c] = FileOrder]
    /\ mixed' = \E d \in Client : Saving(d)
    /\ Goto(c, IF FileOrder = <<>> THEN "close" ELSE "dump")
    /\ UNCHANGED <<trading, sems, reply, conns, proc, cmd>>

DumpRow(c) ==       \* fprintf of one node into the stream's buffer
    /\ At(c, "dump")
    /\ LET i == Head(todo[c]) IN buf' = [buf EXCEPT ![c] = Append(@, Row(i, stock[i]))]
    /\ todo' = [todo EXCEPT ![c] = Tail(@)]
    /\ Goto(c, IF Len(todo[c]) = 1 THEN "close" ELSE "dump")
    /\ UNCHANGED <<trading, sems, reply, file, mixed, conns, proc, cmd>>

\* The rows of c's stream that are in the file already: all it has formatted
\* but those in its buffer.
Written(c) == Len(FileOrder) - Len(todo[c]) - Len(buf[c])

AfterClose(c) == IF cmd[c] = Eof THEN "finish" ELSE "reply"

CloseFile(c) ==     \* fclose writes the buffer at the stream's offset
    /\ At(c, "close")
    /\ file' = Overlay(buf[c], Written(c), file)
    /\ Goto(c, AfterClose(c))
    /\ UNCHANGED <<trading, sems, reply, buf, mixed, conns, proc, cmd, todo>>

-----------------------------------------------------------------------------
\* The end of a worker thread: P, active_clients--, V.

\* Mutant: active_clients is changed without state_mutex.
Finish_NoLock(c) ==
    /\ At(c, "finish")
    /\ stateMutex' = 0 /\ seen' = [seen EXCEPT ![c] = activeClients] /\ Goto(c, "uncount")
    /\ UNCHANGED <<trading, mutex, readcnt, reply, disk, mainPc, conn, activeClients, budget,
                   proc, cmd, todo>>

Finish(c) ==        \* P(&state_mutex); the load of active_clients--
    /\ At(c, "finish") /\ stateMutex = 1
    /\ stateMutex' = 0 /\ seen' = [seen EXCEPT ![c] = activeClients] /\ Goto(c, "uncount")
    /\ UNCHANGED <<trading, mutex, readcnt, reply, disk, mainPc, conn, activeClients, budget,
                   proc, cmd, todo>>

Uncount(c) ==       \* its store; V(&state_mutex)
    /\ At(c, "uncount")
    /\ activeClients' = seen[c] - 1 /\ stateMutex' = 1 /\ Goto(c, "gone")
    /\ UNCHANGED <<trading, mutex, readcnt, reply, disk, mainPc, conn, seen, budget,
                   proc, cmd, todo>>

-----------------------------------------------------------------------------
\* The end of the process.  A client's "exit" takes its thread through a
\* reply, active_clients-- without state_mutex and a memset of response to
\* exit(0), all beside the other threads.  exit(0) flushes the open streams
\* while the others run on, and what they format later is written or lost.
\* The text the farewell carries is left out.

Farewell(c) ==      \* Rio_writen(fd, response, MAXLINE); the load of active_clients--
    /\ At(c, "farewell")
    /\ seen' = [seen EXCEPT ![c] = activeClients] /\ Goto(c, "unseat")
    /\ UNCHANGED <<trading, sems, reply, disk, mainPc, conn, activeClients, budget,
                   proc, cmd, todo>>

Unseat(c) ==        \* its store
    /\ At(c, "unseat")
    /\ activeClients' = seen[c] - 1 /\ Goto(c, "wipe")
    /\ UNCHANGED <<trading, sems, reply, disk, mainPc, conn, seen, budget, proc, cmd, todo>>

Wipe(c) ==          \* memset(response, 0, sizeof(response))
    /\ At(c, "wipe")
    /\ response' = <<>> /\ Goto(c, "exit")
    /\ UNCHANGED <<trading, sems, text, pos, got, disk, conns, proc, cmd, todo>>

Exit(c) ==          \* exit(0)
    /\ At(c, "exit")
    /\ proc' = "exiting" /\ Goto(c, "exited")
    /\ UNCHANGED <<trading, sems, reply, disk, conns, cmd, todo>>

Unflushed(c) == Saving(c) /\ buf[c] # <<>>

FlushStream(c) ==
    /\ proc = "exiting" /\ Unflushed(c)
    /\ file' = Overlay(buf[c], Written(c), file) /\ buf' = [buf EXCEPT ![c] = <<>>]
    /\ UNCHANGED <<trading, sems, reply, mixed, conns, proc, pc, cmd, todo>>

ExitDone ==
    /\ proc = "exiting" /\ \A c \in Client : ~Unflushed(c)
    /\ proc' = "dead"
    /\ UNCHANGED <<trading, sems, reply, disk, conns, pc, cmd, todo>>

Reset(c) ==         \* the client has reset the connection: unix_error's exit(0)
    /\ "reset" \in Ops
    /\ \/ At(c, "read") /\ cmd' = [cmd EXCEPT ![c] = Eof]
       \/ (At(c, "reply") \/ At(c, "farewell")) /\ cmd' = cmd
    /\ Goto(c, "exit")
    /\ UNCHANGED <<trading, sems, reply, disk, conns, proc, todo>>

BrokenPipe(c) ==    \* SIGPIPE: the client left before its reply
    /\ At(c, "reply") \/ At(c, "farewell")
    /\ "pipe" \in Ops /\ proc' = "dead"
    /\ UNCHANGED <<trading, sems, reply, disk, conns, pc, cmd, todo>>

-----------------------------------------------------------------------------
MainStep == MainLockState \/ StartThread

Exiting == ExitDone \/ \E c \in Client : FlushStream(c)

Step(c) ==
    \/ Enter(c) \/ LockState(c) \/ OpenMutex(c) \/ ReadRow(c) \/ Leave(c) \/ CloseState(c)
    \/ Refuse(c) \/ Quote(c) \/ LockItem(c) \/ Store(c)
    \/ Seek(c) \/ PutText(c) \/ Reply(c) \/ Clear(c)
    \/ OpenFile(c) \/ DumpRow(c) \/ CloseFile(c) \/ Finish(c) \/ Uncount(c)
    \/ Farewell(c) \/ Unseat(c) \/ Wipe(c) \/ Exit(c)

Outside(c) ==
    \/ Accept(c) \/ ReadLine(c) \/ ReadExit(c) \/ Hangup(c) \/ Reset(c) \/ BrokenPipe(c)

Next == MainStep \/ Exiting \/ \E c \in Client : Step(c) \/ Outside(c)

Spec == Init /\ [][Next]_vars

\* The scheduler runs every thread that can run, one in exit(0) included.
FairSpec ==
    /\ Spec /\ WF_vars(MainStep) /\ WF_vars(Exiting)
    /\ \A c \in Client : WF_vars(Step(c))

-----------------------------------------------------------------------------
\* Types.

Pcs == {"off", "read", "enter", "lockState", "openMutex", "row", "leave", "closeState",
        "quote", "lockItem", "store", "seek", "put", "reply", "clear",
        "open", "dump", "close", "finish", "uncount", "gone",
        "farewell", "unseat", "wipe", "exit", "exited"}

SyncType ==
    /\ mutex \in {0, 1} /\ stateMutex \in {0, 1} /\ readcnt \in Int
    /\ activeClients \in Int /\ seen \in [Client -> Int] /\ mainPc \in {"accept", "lockState", "count"}
    /\ conn \in Client /\ proc \in {"running", "exiting", "dead"}
TradeType ==
    /\ stock \in [Item -> 0..IntMax] /\ itemMutex \in [Item -> {0, 1}]
    /\ upd \in [Client -> 0..IntMax]
    /\ net \in [Item -> Int] /\ raced \in SUBSET Item
TextType ==
    /\ response \in Seq(Token) /\ got \in [Client -> Seq(Token)]
    /\ text \in [Client -> Token] /\ pos \in [Client -> Nat \ {0}]
FileType == file \in Seq(Token) /\ buf \in [Client -> Seq(Token)] /\ mixed \in BOOLEAN
ThreadType ==
    /\ pc \in [Client -> Pcs] /\ cmd \in [Client -> Cmd]
    /\ todo \in [Client -> Seq(Item)] /\ budget \in [Client -> 0..Budget]

\* The type of every variable.  Of the amounts it says that no interleaving
\* and no quantity a client sends takes left_stock below 0 or past INT_MAX.
TypeOK == SyncType /\ TradeType /\ TextType /\ FileType /\ ThreadType

-----------------------------------------------------------------------------
\* Safety of the semaphores.

Counted(c) ==
    /\ cmd[c].op = "show"
    /\ pc[c] \in {"lockState", "openMutex", "row", "seek", "put", "leave"}

\* A thread between P(&mutex) and V(&mutex).
InMutex(c) == pc[c] \in {"lockState", "openMutex", "closeState"}

\* A thread past P(&state_mutex) whose V is still to come: as one of the
\* readers inside, or around active_clients.
Reading(c)   == (Counted(c) /\ pc[c] # "lockState") \/ pc[c] = "closeState"
Counting(c)  == pc[c] = "uncount"
MainCounting == mainPc = "count"

\* show_stock's protocol: readcnt is the number of readers between their
\* readcnt++ and their readcnt--, so that the first takes state_mutex and the
\* last gives it back.
ReadersCounted == readcnt = Cardinality({c \in Client : Counted(c)})

\* A thread that has changed active_clients on its way to exit(0).
Unseated(c) == pc[c] \in {"wipe", "exit", "exited"}

\* active_clients counts the connections from the store of main's ++ to that
\* of their thread's --, though both are a load and a store among threads:
\* state_mutex makes no change of it be lost (stockserver.c:180-182, 265-267).
\* Only until a thread ends the process: line 139 takes no lock, and from
\* then on the count may be off by any thread.
ClientsCounted ==
    (\A c \in Client : ~Unseated(c)) =>
        activeClients = Cardinality({c \in Client : pc[c] \notin {"off", "gone"}})

\* No semaphore of the readers-writers protocol is lost: each is taken
\* exactly while some thread is on its way to give it back.
SemaphoresOwned ==
    /\ mutex = 0 <=> \E c \in Client : InMutex(c)
    /\ stateMutex = 0 <=> (MainCounting \/ \E c \in Client : Reading(c) \/ Counting(c))

-----------------------------------------------------------------------------
\* Safety of the trades.

\* An item's amount is what it started with plus every trade the server has
\* called a success, as long as no two trades of this item overlapped: the
\* only way process_stock loses a trade is a second one between the
\* computation of updated_stock (line 102) and its assignment (line 111).
NoLossWithoutRace ==
    \A i \in Item \ raced : stock[i] = Initial[i] + net[i]

\* The same without the condition, which is what "synchronised access" to the
\* shared inventory promises (Lab 3/README.md:62).
EveryTradeCounts == \A i \in Item : stock[i] = Initial[i] + net[i]

-----------------------------------------------------------------------------
\* Safety of the file.

Image == [k \in 1..Len(FileOrder) |-> Row(FileOrder[k], stock[FileOrder[k]])]

\* A trade that has been stored and whose save has not begun.
Unsaved(c) ==
    /\ cmd[c] # Eof /\ text[c] \in {<<"buy">>, <<"sell">>}
    /\ pc[c] \in {"seek", "put", "open"}

\* Whenever no save is under way or due, stock.txt has every trade, and so
\* does the file that a process leaves behind that ends at such a moment:
\* unless the last save overlapped another one, or the assignment of a trade
\* by another thread (stockserver.c:111-115, 231-236).
NoLagWithoutOverlap ==
    (~mixed /\ \A c \in Client : ~Saving(c) /\ ~Unsaved(c)) => file = Image

-----------------------------------------------------------------------------
\* Liveness.  Both properties rest on Budget: readers that overlapped without
\* end would keep state_mutex from main and from ending threads.

\* No thread hangs in the nest of mutex, state_mutex and an item's mutex: a
\* worker that has taken a line comes back for the next one, a connection
\* that has ended is taken off the count, and a thread that has come to
\* exit(0) ends the process.
RequestAnswered ==
    \A c \in Client : (pc[c] # "off") ~> (pc[c] \in {"read", "gone"} \/ proc = "dead")

\* An accepted connection gets its thread.
ConnectionServed ==
    \A c \in Client : (mainPc # "accept" /\ conn = c) ~> (pc[c] # "off" \/ proc = "dead")

=============================================================================
