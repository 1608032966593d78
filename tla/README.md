# Models and proofs for the System Programming projects

The repository holds four independent programs. This directory models them in
TLA+, checks the models with TLC on small instances and proves the main safety
results with TLAPS. `PROJECT.json` is the index: components, runs, the lines of
code behind each definition, findings, hazards and theorems.

## The system's parts

| Part | Code | State it keeps | Operations |
|---|---|---|---|
| Stock server, threads | Lab 3/task_2/stockserver.c | BST of items, `response`, `readcnt`, `mutex`, `state_mutex`, item mutexes, `active_clients`, stock.txt | `show`, `buy`, `sell`, `exit`, end of a connection |
| Stock server, select | Lab 3/task_1/stockserver.c | BST, `response`, the pool (`clientfd`, `maxi`, `nready`, `ready_set`), `active_clients`, stock.txt | the same commands, accept, remove |
| Clients | Lab 3 stockclient.c, multiclient.c | a socket | send a line, read a reply, close |
| csapp | Lab 3 csapp.c | `rio_t` buffers | robust reads and writes, error wrappers that call `exit(0)` |
| Allocator | Lab 4/src/mm.c | the heap's words, `heap_listp` | `mm_init`, `mm_malloc`, `mm_free`, `mm_realloc` |
| Shell | Lab 2/src/myshell.c | `jobs[]`, `now`, `last_pid`, `explicit_wait`, signal masks, pipes | commands, `jobs`, `fg`, `bg`, `kill`, SIGCHLD handler |
| Lists, hash tables, bitmaps | Lab 1/src | links, buckets, words of bits | the Pintos library and its additions |
| Interpreter | Lab 1/src/main.c | ten slots and a flag per kind | create, delete, dumpdata, one command per operation |

Both servers load stock.txt, run a line-based protocol over TCP and rewrite
the whole file after each successful trade. In task_2 every connection has a
thread, and the threads share the tree, the text of the reply and the file. In
task_1 one thread serves a pool of sockets. The shell meets its children
through SIGCHLD, which may come at almost any instruction. The allocator and
Lab 1 are sequential libraries: what is hard there is a long sequence of calls
over one linked structure.

What makes each part correct:

- *Servers*: each reply answers the line of its client; no successful trade is
  lost; amounts stay in the range of `int`; a success is in the file before the
  client hears of it; the file survives the end of the process; every line is
  answered and every connection served.
- *Pool*: `nready`, `maxi` and `active_clients` agree with the slots.
- *Allocator*: the blocks tile the heap, the free list is the set of free
  blocks, neighbours are merged, user data stays, malloc fails only when full.
- *Shell*: a foreground command returns when, and only when, its job ended or
  stopped; the table shows the jobs that exist, in the state they have.
- *Pipelines*: the ends of a pipe are with its two commands and nobody else, so
  the end of one command reaches the others.
- *csapp*: bytes arrive in order whatever part of them a call moves; a line of
  the server is what the client sent at once; one reply to each.
- *Lab 1*: the structures behave as sequences, sets and bit vectors.

## The modules

| Module | Models |
|---|---|
| `StockInventory` | what both servers promise: an atomic inventory; each request takes effect once, between arrival and answer |
| `StockThreadServer` | task_2: main thread, one worker per connection, semaphores, `response`, saves, `exit` |
| `StockThreadRefinement` | its refinement mapping to `StockInventory` |
| `StockThreadServer_proofs` | TLAPS proofs about `StockThreadServer` |
| `StockEventServer` | task_1: event loop, pool, lines in pieces, commands, saves, kill and restart |
| `StockEventRefinement` | its refinement mapping to `StockInventory` |
| `StockEventServer_proofs` | TLAPS proofs about `StockEventServer`: the pool, the types, the file, and that it implements `StockInventory` |
| `MallocHeap` | mm.c, word by word |
| `MallocHeap_proofs` | TLAPS proofs of the seven invariants of `MallocHeap` |
| `ShellJobs` | myshell.c's job control: jobs[], eval, fg, bg, kill, SIGCHLD handler |
| `ShellJobs_proofs` | TLAPS proofs about `ShellJobs` |
| `ShellPipeline` | parse_pipe's commands, the pipes of a line, what fork, dup2 and close do with their ends |
| `ShellPipeline_proofs` | TLAPS proofs about `ShellPipeline` |
| `RequestReply` | what client and server promise each other: requests and replies alternate |
| `RioDialogue` | one client, its server and the robust I/O of csapp.c between them, byte by byte |
| `RioDialogue_proofs` | TLAPS proofs about `RioDialogue`, among them that it implements `RequestReply` |
| `PintosList` | list.c's links, assignment by assignment; what lists and buckets are made of |
| `ListCommands` | the list commands of main.c over `PintosList`: sort, unique, splice, shuffle, ... |
| `PintosHash` | hash.c and the hash commands over `PintosList` |
| `PintosHash_proofs` | TLAPS proofs about `PintosHash` and the functions of `PintosList` it calls |
| `PintosBitmap` | bitmap.c and the bitmap commands |
| `Interpreter` | main.c of Lab 1: composes the three, quit and abort |
| `Interpreter_proofs` | TLAPS proofs about `ListCommands`, `PintosBitmap` and the whole session, quit and abort included |
| `MCStockThreadServer`, `MCStockEventServer`, `MCInterpreter` | constants of the instances for TLC |

### StockThreadServer

`pc[c]` says where the worker of connection `c` is; a step is the stretch from
one access to shared state to the next: `P` and `V`, the load and the store of
`active_clients++` and `--` (`seen` is what was loaded), the read of an amount
(`Quote`, line 102), its store under the item's mutex (`Store`, 110-112), the
two halves of `strcat` (`Seek` finds the end, `PutText` copies), the write to
the socket and the memset (`Reply`, `Clear`, 159-160), `fopen`, each `fprintf`
and `fclose` of a save (`OpenFile`, `DumpRow`, `CloseFile`). Main is `Accept`,
`MainLockState`, `StartThread`.

A line "exit" takes its thread through `ReadExit`, `Farewell` (138), `Unseat`
(139, the decrement without `state_mutex`), `Wipe` (140) and `Exit` (141), and
all other threads run beside these steps, and beside exit(0) too, until it has
flushed the open streams (`FlushStream`, `ExitDone`). A connection that was reset
takes the same way out through `unix_error` (`Reset`: EPIPE has a signal of its
own, `BrokenPipe`, which ends the process at once and flushes nothing).

The tree never changes its shape after `load_stock`, so it is the function
`stock` with its in-order and pre-order sequences as constants. A file is a
sequence of rows; a stream writes its buffer at its own offset (`Written`), over
whatever another one has written, and bytes nobody wrote are a `Hole`. Every row
has one width: two overlapping saves of rows of different widths can also leave
half a row, which is not told apart. A line with
missing fields (`cut`) runs as any trade or none, because sscanf leaves its
variables uninitialised. `net`, `raced` and `mixed` are history: what the successful
trades add up to, which items had overlapping trades, and whether the last save
overlapped another one or the store of a trade.

What the code promises when threads overlap is little, and the properties say
what that little is. `ClientsCounted` holds until a thread reaches line 139,
`NoLossWithoutRace` for items without overlapping trades, `NoLagWithoutOverlap`
for a file whose last save ran alone. Of the replies nothing holds: all threads
build them in one buffer. `StockThreadRefinement` therefore compares the server
with the atomic inventory for clients that take turns with their requests
(`SerialSpec`), and everything else overlaps them: connections that begin and
end, closing saves, the steps of exit. The closing save (178-179) of one
connection may then leave a file behind the next client's trade, which
`NoLagWithoutOverlap` excepts through `mixed`.

### StockEventServer

The one thread meets the world only at select, accept, reads and writes. A step
is one of those, one slot of `handle_clients`, the body of one command, or one
half of a save. The text in a socket is a sequence of pieces: whole lines,
beginnings and ends of lines. `TakeText` empties the socket as one `read()` does
and keeps the first line; the rest is lost with the copy of the `rio_t`
(line 181). A beginning of a line without its end leaves the server in phase
`block`. A client that closes under a reply resets its connection, which ends
the process (`Broken`). `Kill` and `Restart` may come anywhere.

### MallocHeap

The heap is a function from word addresses to integers; tags, links and user
data lie in the same words, so a wrong write is seen by whoever reads the word.
The operators have the names of the C functions and macros and take and return
a heap. A call is one step: the allocator is sequential. The user frees and
reallocates only what it holds, and writes every byte it asked for, right away;
this is what makes `PayloadIntact` a test of every other call. Pointers are one
word of four bytes, as `NEXT_FP(p)` at `p + WSIZE` requires.

### ShellJobs

`pc` is where the shell's main program is, `handler` where sigchld_handler is,
which runs on top of it: while it is not "no" the main program stands still.
`Deliver` starts it at any step with SIGCHLD pending and not blocked: anywhere
but between the last fork of a command and addjob (`blocked`), and also in
sigsuspend (`pc = "suspend"`), which unblocks SIGCHLD. The handler's blocking
waitpid for the foreground job is `WaitForeground`, one round of its loop
`WaitAny`, its return, which ends the sigsuspend, `HandlerEnd`.

A child is running, stopped, a zombie or gone, and `news` marks a stop or a
continuation that no waitpid has reported; a later change replaces it, as in the
kernel. Children end, stop and go on at any moment, which covers ^C, ^Z and
signals from other terminals. Process numbers are given out again once reaped.
parse_job reads `jobs[n].pid` twice, to check it (`Builtin`, 703) and to return
it (`Target`, 709); the handler may delete the job in between, and pid 0 then
means the whole process group to kill and waitpid (`Group`). `find_jobnum` of a
job that is gone runs off its end, so `FgBranch` takes either branch then. A shell that waits for
a signal with no child left stays so: `Ended` has that state.

### ShellPipeline

`pc` is where main and eval are with the current line: `MakePipes` is the loop
over pipe() (a failing one ends the shell, `PipeError`), `Fork` and `EvalBuiltin`
the two ways through eval, `CloseEnds` the parent's loop after the last command
(239-244), `WaitLast` the foreground wait. A child copies the shell's table of
descriptors when it is forked, and then goes on by itself: `Dup2` (179-195),
`CloseInherited` (196-201), the program. A pipe end is `<<line, i, "r" or "w">>`
for `fd[i-1]` of a line, so the model knows which line a descriptor is of after
the array has been used again. What programs do is external: one whose input is
the terminal makes bytes, the others copy input to output, any of them may stop
(`Quit`, also a failing execvp), the end of the input and SIGPIPE stop them.

`CloseEnds` is in the branch for programs: when the last command of a line is a
builtin or empty (`ls | cd`, `ls |`) the shell keeps both ends of every pipe of
the line, all later children inherit them, and the readers never see their end.
`EndsBelong` and `LineEnds` except these lines (`Leaks`), and fail without that.
Waiting, jobs and signals are the matter of `ShellJobs`; here the wait ends when
the last command does.

### RioDialogue

The client is the loop of stockclient.c (multiclient.c's is the same with texts
it makes up), the server either the thread of task_2 or the loop of task_1,
which differ in what happens to the `rio_t` (`NextLine`). The bytes of a
direction are numbered as they are handed to rio_writen, and a byte is its
number; what a buffer holds then shows order, loss and repetition. Of the
client's text only the positions of newlines matter, and the model chooses them.

`Put` is one write(), of any part of the rest; `Fill` one read() of rio_read and
`Interrupted` one that returns -1 with EINTR; `Copy` is the memcpy from rio_buf.
`ServerCopy` is one round of rio_readlineb, `ClientCopy` one of rio_readnb.
`Handle` is handle_cmd, of which only the MAXLINE bytes of the reply matter here.
Either side may end at any point (`ClientEnds`, `ServerEnds`), after which the
other one's write may succeed and reach nobody; rio_readnb's count is not looked
at, so the client goes on (`ClientShort`) and prints what is in its buffer.

It supports what the two servers' modules take for granted: that a line arrives
as it was sent and that a reply is whole. `RequestReply` is its abstract
specification: no reply unasked for, none twice, no request handled twice.
`Replied` except a client whose last line has no newline: rio_readlineb reads on
and rio_readnb waits for a reply, for ever.

### Interpreter and its libraries

A command is one step. `PintosList` keeps a memory with the `next` and `prev`
of every element; each operator is a function of list.c, with its assignments
in their order, so what aliasing pointers do is what happens. `ListCommands`
runs the loops of list_sort (natural merge sort), list_unique, list_reverse on
it. A loop is `Loop(s, Round, n)`, its body an operator of one round (`Flip`,
`MergeElem`, `MergeRun`, `UniqueElem`) that leaves `s` alone once the exit condition
holds; so `n` need only be large enough, and `LoopBound`, the number of cells in
memory, is: no loop over a list has more rounds than that.

`live` are the items malloc gave that were neither freed nor leaked. Few commands
take items out of it: pop and remove (freed), create over a list in use
and list_unique without a second list (leaked, `Duplicates`), and quit. So
`ListsSound` fails for any other command that drops an item (`Held(links) = live`).
Memory that is not live has no links, as nothing can read it.

`PintosHash` puts its buckets in two places in memory, so the array that rehash
leaves and the one it fills are apart; `Moved` is its loop, one element per round
(`MoveNext`), with `next` read before the element goes. Equality is equality of hash values, as
hash_less compares those. That matters: hash_int maps more than half of all
integers onto the value of another one (61134643 and 67108879 give 2618389428),
and of two such integers the table takes one only, a plain divergence from
"find an element equal to E". The run has such a pair. `applied` is history:
hash_apply leaves elements in the buckets of their old values, and until the
next new array `hash_find` may miss them.

`PintosBitmap` lays the words end to end. orl, andl and xorl change 32 bits, a
word has 64, so bits 32 to 63 of each word stay as malloc left them, whatever
bitmap_mark promises; `asked` is what the calls ask for, and equals the bits
that can be reached. A bitmap of up to 32 bits, as in the Lab's commands, is
right; a longer one is not.

bitmap_mark, bitmap_reset and bitmap_flip have no ASSERT on the position, so the
model lets them change any bit of the last word, behind `bit_cnt` too, but not
beyond that word.

Calls that C leaves open are not made: a position past the end of the memory
(`list_swap` with the tail), a range spliced into itself, `list_unique`
with its own list for the duplicates (it may not return), a slot that was never
created. `delete list0` does nothing: main.c compares "list0" with "list".

## The runs

Passing runs of the thread server:

- `ThreadService`: two clients, one line each (`show`, `buy`, `sell`, `exit`, a
  line with fields missing), one item, quantities -1 and 3 with INT_MAX 3, so sums
  wrap, and connections that are reset or closed before a reply: amounts, lost trades, semaphores, `readcnt`,
  `active_clients`, the file, and the end of every wait, beside a thread that is
  on its way through exit. Larger instances are the matter of the proofs.
- `ThreadInventory`: two clients that take turns, two lines of every kind each,
  resets and SIGPIPE, two items and an unknown ID: refinement of `StockInventory`, and the file.
  Both may be connected at once, or one after the other while the first one's
  closing save still runs.

Neither checks deadlock: the server stops when its process has ended, when all
connections are over, or when a client sends nothing. That no thread hangs is what
`RequestAnswered` and `ConnectionServed` are for. These two rest on `Budget`:
readers that overlapped without end would keep `state_mutex` from main and from
ending threads for ever, and no property covers that.

Passing runs of the event server:

- `EventService`: three clients for two slots, so that slots are reused and one
  connection is too many; one of them sends in pieces and resets; `exit`, two
  kills and restarts. The pool's books, the file, and `Answered` under
  `FinishSpec`.
- `EventInventory`: two clients with two lines each, in pieces, refine
  `StockInventory`. Here clients wait for their replies, quantities are
  positive and no sum overflows: of two lines sent at once the server loses one
  (`EventLostLine`), and `sell` adds any quantity unchecked (line 166).

Passing runs of the allocator:

- `HeapSafety`: three pointers, blocks of 16 and 24 bytes, a heap of 56 bytes
  that grows chunk by chunk, requests of 0 and beyond the sign bit, and a second
  `mm_init` over used words: splits, both kinds of remainder, all four cases of
  coalesce and all branches of realloc occur.

Passing runs of the shell:

- `ShellJobControl`: three processes, a table of three slots and pipelines of
  two commands, one stop. With three of each the table fills, `now` wraps and
  meets a slot in use, and signals of two children merge while a third is waited
  for; a foreground command that has ended gives the prompt back.

- `ShellPipelines`: two lines of up to three commands, five in all, so that a
  pipeline in the background runs beside the next line and a middle command has
  a pipe on both sides; five descriptors, too few once a leaking line has left its ends behind.
  Deadlock is checked: the shell at its prompt may wait for ever, nothing else.

Passing run of the client, the server and csapp:

- `RioExchange`: MAXLINE 4, a rio_buf of 2 bytes and a connection of 3, seven
  bytes of text: every write and read can be short, a reply takes several
  refills, a line can be longer than MAXLINE - 1, and there is room for three
  pieces. Deadlock is not checked: both may have ended, and an unterminated line
  does leave both waiting.

Passing run of the interpreter:

- `InterpreterSafety`: two lists with four items and three values, so that runs
  of equals, sorted and unsorted runs and splices in both directions occur; a
  table whose bucket counts are scaled down (`MinBuckets` and `BestPerBucket` are
  4 and 2 in the code, 1 and 1 here), so that it grows and shrinks with four
  elements; bitmaps of up to five bits in words of four, of which the
  instructions reach two. `OrderingRight` and `MovesRight` compare the
  functions of list.c with the operations on sequences, from every state.

Runs that end in a violation, each of a statement of Lab 3/README.md or of a
comment in myshell.c (quoted under "findings"):

| Run | Property | What happens |
|---|---|---|
| `ThreadLostTrade` | `EveryTradeCounts` | two trades compute from one old amount |
| `EventLostLine` | `NoLineLost` | a second line read ahead is dropped |
| `ShellFgHangs` | `ForegroundReturns` | a job that ends before fg sleeps is reaped too early |

Some properties hold only in the setting of their run, and the model shows why:
under `Spec` in place of `SerialSpec`, `ImplementsInventory` fails, as all threads
build their replies in one buffer; `NoLagWithoutOverlap` without `~mixed` fails when
the older of two overlapping saves lands last; `ClientsCounted` without its
condition fails at line 139; without `FinishSpec` a half-sent line blocks the
event loop and `Answered` fails; a size within 15 of SIZE_MAX wraps to a block of
8 bytes and `HeapTiled` and `BlockFits` fail.

Bounds: `Budget` (lines per connection), `Kills`, `Resets`, `MaxHeap`, `Stops`,
`MaxStages`, `Lines`, `MaxCommands`, `MaxText`, `Cap` (of a pipe and of a connection), the number of process numbers and the small `IntMax` and `SizeMod`
are the only ones, and each is a constant; so are the number of items, `IntMod`
and `MaxBits` of the interpreter.
Symmetry in the clients is used in runs of safety properties only.

### Fairness

`FairSpec` of the thread server has weak fairness for main and for each worker:
the kernel runs every runnable thread. A client owes nothing: no fairness for
lines or hang-ups. The event server's `FairSpec` has weak fairness for its one thread;
`FinishSpec` adds that a client finishes a line it has begun, which
`EventService` needs: the loop reads a line to its end. The shell's `FairSpec` has
weak fairness for the shell and its handler together, one process, and none for
the user and the children: `CommandReturns` starts from a child that has ended.

`ShellPipeline`'s `FairSpec` has weak fairness for the shell and for each child,
up to exec by the shell's code and then as a program that goes on reading and
writing; programs need not stop by themselves, and the user types nothing by
necessity. `RioDialogue`'s has weak fairness for client and server, and for the
reads apart from EINTR: an interrupted read is tried again and not interrupted
for ever. Fgets and the ends of both sides have none.

## What is proved

Proved by TLAPS, for every set of clients and items, every initial stock and
every INT_MAX, from the assumptions `ConstantsOK` on the constants:

- `TypeCorrect`: `Spec => []TypeOK` of the thread server. The inductive
  invariant adds `LocalsOK`: while a thread is between its check and its store,
  the item exists and the computed amount is in range; while it is in a walk,
  rows remain. That is why no interleaving takes an amount below 0, although
  the check comes before the lock.
- `LossNeedsRace`: `Spec => []NoLossWithoutRace`. Strengthened by: for a trade
  in flight on an item that is not raced, the computed amount is still the one
  its item would have, and it is the only one in flight.
- `ReadcntCorrect`, `NoSemaphoreLost`: from one invariant that counts the readers
  and names the owner of each semaphore; the counting step (`ReadersChange`) is a
  lemma on cardinalities.
- `ClientsAreCounted`: `Spec => []ClientsCounted`. It adds that until a thread has
  done line 139 what was loaded of `active_clients` is still what it is when it is
  stored, as `state_mutex` is held in between.
- `FileLagsOnlyByOverlap`: `Spec => []NoLagWithoutOverlap`. While the last save ran
  alone the rows in its buffer and in the file are those of `stock`, for each place
  that the save has come past.
- `FileIsCurrent`: `Spec => []FileCurrent` of the event server: only a trade
  changes the inventory and it goes straight into its save.
- `PoolIsExact` and `TypeCorrect` of the event server, which rest on each other
  (a counter is a natural number because it counts). `PoolInv` adds where a
  connection can be (in the listening socket's queue, then in one slot, and only
  then in the ready set), that a client being served has a slot, and that
  between select and accept nready counts the listening socket too.
- `ServesAtomically`: the event server implements `StockInventory`, under the
  assumptions of the run `EventInventory`: no client pipelines, hangs up early or
  says `exit`, nobody kills the server (`Undisturbed`), and no trade a client
  could send overflows an int (`[]NoOverflow`, which a negative amount left by
  `sell` breaks too). `TalkInv` says where the line of each client is: not begun,
  begun, complete in the socket, in the server's read(), in handle_cmd; so the
  server never reads a piece of one line together with another line.
- `TurnsServeAtomically`: `SerialSpec => ImplementsInventory`, for any number of
  clients that take turns. The invariant says what `response`, the rest of the walk
  and the reply under construction are at each step of the one thread that has a
  request, whatever the others do with the file, the semaphores and
  `active_clients`; that the walk of the tree is the only listing in order of the
  IDs makes `show` the reply of the abstract request.
- `TableCorrect`, `NoZombieLeft`, `SuspendedCorrect`, `EvalWaitCorrect` and
  `TypeCorrect` of the shell, from one invariant: between fork and addjob a job
  is known to nobody (SIGCHLD is blocked); whatever waitpid could report is
  signalled or being handled; a job shown as suspended is stopped or about to be
  reported; while eval waits, the flag is set and its child not reaped.

- `EndsAreWhereTheyBelong`: `Spec => []EndsBelong` of `ShellPipeline`, for any
  number and length of lines. `PipeInv` adds what the children inherit: the
  shell holds ends of the current line only while it forks, or of lines that
  leak; a child that is set up holds no end of its own line but those it put on
  its input and output; a line not yet read has no children.
- `BytesArriveInOrder` and `PiecesAreLines`: `Spec => []BytesInOrder` and
  `Spec => []FramesAgree` of `RioDialogue`, for every MAXLINE, RIO_BUFSIZE,
  connection and text. `DialogueInv` adds the whole stream of a direction (what
  the callers have, then rio_buf, then the connection are the bytes in order,
  up to what is written), where lines end (a newline the server has not had is
  the last byte of its piece; a line of the server begins no earlier than its
  piece, so MAXLINE - 1 bytes reach the end of it), and whose turn it is (the
  client waits with the reply before it read in full, or the server has answered
  and the rest of MAXLINE bytes is on its way). The empty rio_buf after a line
  is what makes the select loop's copy of the `rio_t` harmless for a client that
  waits for its replies.

- `DialogueImplements`: every step of `RioDialogue` is a step of `RequestReply`
  or a stutter. `Tallies`, beside `DialogueInv`, ties the counts to the bytes: a
  request counts as served when the server has its last byte or has answered
  its piece, as heard when the client has the whole reply.
- `HeapInvariant` and from it `HeapAlwaysTiled`, `FreeListAlwaysExact`,
  `AlwaysCoalesced`, `NeverLeaks`, `PayloadAlwaysIntact`, `BlocksAlwaysFit` and
  `FailsAlwaysWhenFull`: all seven invariants of `MallocHeap`, for every number
  of users, heap size, CHUNKSIZE and set of sizes, from `HeapConstants` and
  `RequestsFit` (see below).
- `HashInvariant` and from it `HashTableSound`, `HashFindsAll` and `HashIsSet`:
  `TableSound`, `FindsWhatIsThere` and `StaysASet` of `PintosHash`, for every number
  of items, every hash function, least bucket count and elements per bucket, from
  `HashConstants` alone (see below).
- `ListInvariant`: `ListSpec => []ListInv`, for every set of lists, items and
  integers, from `ListConstants`. From it `ListLinksSound`, `ListMovesRight` and
  `ListOrderingRight`: `ListsSound`, `MovesRight` and `OrderingRight`, so also that
  list_sort is a stable sort for lists of every length (see below).
- `LowBitsRight`: `BitmapSpec => []LowBitsExact`, for every width of word and
  every reach of the instructions. It needs that DIV_ROUND_UP gives enough words
  (`RoomForBits`).
- `SessionInvariant` and from it `SessionListsSound`, `SessionOrderingRight`,
  `SessionMovesRight`, `SessionTableSound`, `SessionFindsAll`, `SessionLowBits` and
  `SessionStaysASet`: all seven properties of the run `InterpreterSafety`, of
  `Spec` itself, with quit, abort and every command.

### The proof about the allocator

The invariants of `MallocHeap` read the words. `HeapInv`, the inductive one,
says what lies behind them: there are blocks `B` with sizes `sz` and marks `al`
that tile the heap (`Shape`), their tags are in the words (`Tagged`), the links
are a list of the free ones (`Linked`: both directions, and a rank that falls
along the list, so that it has no cycle), no two free ones are neighbours, and
the others are what the user holds, with its data (`Served`).

The proof goes through the operators in the order in which mm.c builds them:

- `RemoveFree` and `AddFree`: the list of any set `F` of blocks becomes that of
  `F` without or with one block, and only words of links and the prologue's
  change.
- `MergeShape`, `SplitShape`, `GrowShape`: the geometry alone, without words.
- `Coalesce`: from a heap that is whole but for one block, free and in no list,
  whose tags do not matter (`Loose`), to a whole one: all four cases, and the
  first block's missing neighbour. mm_free, place and extend_heap end in it.
- `Place`, `Extend`, `MmInit`, `MmMalloc`, `MmRealloc`: each makes a whole heap of
  a whole one, says which blocks are held after it and that the others keep
  their sizes and words (`Kept`). Realloc in place and by memcpy also bring the
  words of the old block along (`Brought`).
- `InvStep` puts the user's calls on top of these, `WalkIsBlocks` shows that the
  walk of the invariants meets exactly `B`.

`find_fit` and `Walk` are recursive functions. That they exist is proved and not
assumed: a function that follows links until a stop is given by the least closed
sets of addresses (`Reach`), whatever the links are. So that this can be said of
it, `find_fit` ends at a link out of the heap; `FreeListExact` says there is none.

`RequestsFit` excludes the sizes from SIZE_MAX - 14 up. There mm_malloc's
rounding wraps and gives a block of 8 bytes or less, so the theorems are
false without it; `mm_realloc` refuses such sizes itself (line 226), `mm_malloc`
does not. The sizes of `HeapSafety` satisfy it.

### The proof about the hash table

`TableSound` and `FindsWhatIsThere` speak of walks. `HashInv`, the inductive
invariant, speaks of the links alone: there is a function `own` from cells to the
list they are in and a rank that falls along `next` (`Linked`), `next` and `prev`
undo one another within a list, cells without a list are not linked (`Blank`),
`elem_cnt` is the number of elements that `own` has, and without hash_apply `own`
is what find_bucket says (`Placed`).

- `InsertLinked`, `RemoveLinked`, `MadeLinked`, `FreedLinked`: what list_insert,
  list_remove, list_init and free do to `own`. Nothing in them is about hashing.
- `WalkIs`, `ChainIs`: a walk ends, is `Sound` and meets the elements of its list,
  each once; the loops over all buckets meet `own`'s elements.
- `MoveOne`, `MoveOn`, `MovedIs`: the loops of rehash, with `Moving` as their
  invariant: an element is in its new bucket or in an old one still to come, and
  `elem` is the first of the present one. Elements left plus buckets left fall
  in every round, so the rounds of `Moved` are enough for all of them.
- `RehashWhole`, `InsertWhole`, `RemoveWhole`, `InitWhole`: each leaves a whole
  table (`Whole`) with the elements it should have; `FindIs` says what find_elem
  finds.
- One lemma per command: it keeps `HashInv`, and no count of equal elements grows
  from 1 on (`Stays`).

That BucketsFor never asks for more than `MaxBuckets` is proved from its
monotony. `HashSpec` has every command but the end of the program; that one is
in the proof about the session.

### The proof about the lists and the session

The functions of list.c follow pointers, and what is said of them is said of
sequences. `Holds(m, S)` relates the two: every list of `S` is linked both ways
from its head over the elements of its sequence to its tail, no element is in
two places, heads and tails of other lists are not linked. `ListInv`, the
inductive invariant, is that memory holds the sequences its walks give, that an
element in none of them has no links (`Clean`), and that the elements in them are
the live ones. Unlike `ListsSound`, `Holds` can be stated of a memory half
way through a command, with any `S`.

- `Cut` and `Paste` of sequences are what one function does to them:
  `InsertHolds`, `RemoveHolds` and `SpliceIs` turn a memory that holds `S` into one
  that holds the cut and pasted sequences. Underneath are two exchanges of links,
  one that closes a gap (`CutHolds`) and one that links a chain in between two
  cells (`LinkIn`); a splice is both. `SpliceIs` covers a move within one list in
  both directions and the empty range.
- `WalkHolds`: the walk of a memory that holds `S` is `S[l]`; so no walk is cut
  short, and there is only one `S`.
- `LoopRuns`, `LoopStays`: a loop whose round `k` goes from the set `I[k - 1]` to
  `I[k]` runs, and ends in `I[n]`. The invariant of a loop is a function from rounds
  to sets, so no operator is a parameter; `Induct` of `PintosHash_proofs` (a set that
  has 0 and the successor of each number it has, up to n, has all up to n) does
  the induction.
- list_reverse: after `k` rounds the links of the first `k` cells are `Turned`;
  between the loop and the four assignments after it no list is whole.
- list_unique: after the first `y` elements (`Weeded`) the list is what `Picked` has
  kept of them, followed by the rest; what it has dropped is behind the other list.
- list_sort: `RunEndIs` (find_end_of_run ends at the first fall), `Merging` (while
  two runs become one, what lies before `a0` does not fall and is not above what
  is left of the second run), `Graded` (the elements have grades 1 to `r`, one
  more wherever the data fall, so the list is `r` runs) and `Passing`: a pass that
  counts `c` runs has `2c <= r + 1`, so `LoopBound` passes leave one. Stability
  rides along as a bijection from new to old places that keeps equals in order
  (`Arranged`); each splice of a merge lifts an element over greater ones only
  (`Lifted`).
- list_insert_ordered, list_max and list_min: `PutMeans`, and `MostAt` with the
  direction as a parameter.
- `SessionInv` is `ListInv`, `BitmapInv` and, until quit, `HashInv`; after quit the
  table's memory is freed and `HashEnded`. `QuitInv`, `HashQuitEnds` and
  `BitmapQuitInv` are what quit does to the three, to the lists in any order of
  the slots.

Only model-checked: liveness (`Answered`, `Replied` and the others need fairness and
ENABLED, which are out of the prover's reach), and the three violations. Every
invariant and every action property of the passing runs is a theorem.

## What is not modelled, and why

- Prices, `total_bytes` and `maxfd`: no behaviour depends on them here.
- The sizes of `response`, `stack[100]`, `tmp`, `cmd[20]`, `buf[MAXLINE]`: the
  texts of the models have no length.
- A server blocked in write() by a client that does not read.
- Memory below sequential consistency; `strcat`'s copy and a row's `fprintf`
  are single steps.
- The shell's `jobs` and `cd`, and the text of its commands (`entire_line`
  grows with every command and is never cleared); lines of more than MAX_PIPE
  commands, which parse_pipe writes past the end of `cmdpipe` before main counts
  them. parse_line takes characters apart and keeps no state.
- Several clients on one `RioDialogue`: each connection has buffers of its own.
- csapp's rio_readn (not called) and plain wrappers, echo.c, debug.c and hex_dump.c: no state of the
  system.
- Programs that misuse the allocator (double free, writes past the size).

## Plan

Done: the two servers with `StockInventory`, their refinements and proofs;
`MallocHeap` and its proofs; `ShellJobs` and its proofs; the libraries of Lab 1 with
`Interpreter`; `ShellPipeline` and its proofs;
`RioDialogue` with its proofs, among them that it implements `RequestReply`;
the refinement of `StockInventory` by the thread server whose clients take turns.

`PintosHash`, `ListCommands` and `PintosBitmap` and their proofs, and the proof of
the whole session of `Interpreter`.

Left: a dialogue of several clients with one server on top of `RioDialogue`, in
place of the servers' assumption that lines arrive whole; the text buffers of the
shell with their lengths.
