----------------------------- MODULE RioDialogue ----------------------------
(***************************************************************************)
(* One client of the stock server and the code that serves it, down to the *)
(* bytes of their connection: stockclient.c and multiclient.c on one side, *)
(* the thread of task_2/stockserver.c or the loop of task_1/stockserver.c  *)
(* on the other, both through the robust I/O of csapp.c.  The kernel moves *)
(* any part of what is asked for, and may interrupt a call.                *)
(*                                                                         *)
(* The bytes of each direction are numbered in the order their sender      *)
(* hands them to rio_writen, and a byte is its number; of the contents     *)
(* only the newlines matter.  A buffer is the sequence of bytes in it.     *)
(***************************************************************************)
EXTENDS Integers, Sequences

CONSTANTS
    MaxLine,    \* MAXLINE
    RioBuf,     \* RIO_BUFSIZE
    Cap,        \* bytes the connection holds in one direction
    MaxText     \* bound: bytes the client is given to send

ASSUME ConstantsOK ==
    /\ MaxLine \in Nat /\ MaxLine > 1
    /\ RioBuf \in Nat \ {0} /\ Cap \in Nat \ {0} /\ MaxText \in Nat

Dir == {"up", "down"}           \* to the server, to the client

Least(a, b) == IF a < b THEN a ELSE b

VARIABLES
    server,     \* the select loop copies an unused rio_t for every line it reads
    cl, sv,     \* where the client and the server are
    made,       \* bytes handed to rio_writen
    size,       \* of them, those of the last fgets
    newlines,   \* the newlines in the client's text
    wrote,      \* bytes the writer is past: bufp of rio_writen
    conn,       \* bytes on their way
    buf, ptr, cnt,      \* rio_buf, rio_bufptr and rio_cnt of the reader
    n,          \* bytes the current rio_readlineb or rio_readnb has
    got,        \* bytes its callers have been given
    asked, served, heard        \* pieces sent, lines handled, replies read in full

text == <<server, made, size, newlines>>
rio  == <<buf, ptr, cnt>>
tally == <<asked, served, heard>>
vars == <<text, cl, sv, wrote, conn, rio, n, got, tally>>

Init ==
    /\ server \in {"thread", "select"}
    /\ cl = "fgets" /\ sv = "read"
    /\ made = [d \in Dir |-> 0] /\ size = 0 /\ newlines = {}
    /\ wrote = [d \in Dir |-> 0] /\ conn = [d \in Dir |-> <<>>]
    /\ buf = [d \in Dir |-> <<>>] /\ ptr = [d \in Dir |-> 0] /\ cnt = [d \in Dir |-> 0]
    /\ n = [d \in Dir |-> 0] /\ got = [d \in Dir |-> <<>>]
    /\ asked = 0 /\ served = 0 /\ heard = 0

-----------------------------------------------------------------------------
\* csapp.c.

\* One write of rio_writen, of any part of what is left.
Put(d, k) ==
    /\ k \in 1..Least(made[d] - wrote[d], Cap - Len(conn[d]))
    /\ conn' = [conn EXCEPT ![d] = @ \o [i \in 1..k |-> wrote[d] + i]]
    /\ wrote' = [wrote EXCEPT ![d] = @ + k]

\* rio_read, when its buffer is empty: one read.
Fill(d) ==
    /\ cnt[d] <= 0 /\ conn[d] # <<>>
    /\ \E k \in 1..Least(RioBuf, Len(conn[d])) :
        /\ buf' = [buf EXCEPT ![d] = SubSeq(conn[d], 1, k)]
        /\ conn' = [conn EXCEPT ![d] = SubSeq(@, k + 1, Len(@))]
        /\ cnt' = [cnt EXCEPT ![d] = k]
    /\ ptr' = [ptr EXCEPT ![d] = 0]
    /\ UNCHANGED <<text, cl, sv, wrote, n, got, tally>>

Interrupted(d) ==           \* read returns -1 with EINTR
    /\ cnt[d] <= 0
    /\ cnt' = [cnt EXCEPT ![d] = -1]
    /\ UNCHANGED <<text, cl, sv, wrote, conn, buf, ptr, n, got, tally>>

AtEof(d) == cnt[d] <= 0 /\ conn[d] = <<>> /\ (IF d = "up" THEN cl ELSE sv) = "gone"

Copy_NoAdvance(d, want) ==  \* mutant: rio_bufptr += cnt missing
    LET c == Least(want, cnt[d]) IN
    /\ cnt[d] > 0
    /\ got' = [got EXCEPT ![d] = @ \o SubSeq(buf[d], ptr[d] + 1, ptr[d] + c)]
    /\ cnt' = [cnt EXCEPT ![d] = @ - c]
    /\ n' = [n EXCEPT ![d] = @ + c]
    /\ UNCHANGED ptr

\* rio_read, when its buffer is not empty.
Copy(d, want) ==
    LET c == Least(want, cnt[d]) IN
    /\ cnt[d] > 0
    /\ got' = [got EXCEPT ![d] = @ \o SubSeq(buf[d], ptr[d] + 1, ptr[d] + c)]
    /\ ptr' = [ptr EXCEPT ![d] = @ + c]
    /\ cnt' = [cnt EXCEPT ![d] = @ - c]
    /\ n' = [n EXCEPT ![d] = @ + c]

-----------------------------------------------------------------------------
\* The client.

\* fgets: a line and its newline, or what fits, or what is left of the input.
\* After a piece that is not whole there is no more.
Whole == made["up"] \in newlines \/ size = MaxLine - 1

Fgets(k, nl) ==
    /\ cl = "fgets" /\ (size > 0 => Whole)
    /\ k < MaxLine /\ made["up"] + k <= MaxText
    /\ made' = [made EXCEPT !["up"] = @ + k] /\ size' = k
    /\ newlines' = IF nl THEN newlines \cup {made["up"] + k} ELSE newlines
    /\ cl' = "write" /\ asked' = asked + 1
    /\ UNCHANGED <<server, sv, wrote, conn, rio, n, got, served, heard>>

ClientWrite ==
    /\ cl = "write" /\ sv # "gone"
    /\ \E k \in 1..MaxLine : Put("up", k)
    /\ IF wrote'["up"] = made["up"]
       THEN cl' = "read" /\ n' = [n EXCEPT !["down"] = 0]
       ELSE UNCHANGED <<cl, n>>
    /\ UNCHANGED <<text, sv, rio, got, tally>>

ClientFill == cl = "read" /\ n["down"] < MaxLine /\ (Fill("down") \/ Interrupted("down"))

ClientCopy_Short ==         \* mutant: a short count ends the loop, as in rio_read
    /\ cl = "read" /\ Copy("down", MaxLine - n["down"])
    /\ cl' = "fgets" /\ heard' = heard + 1
    /\ UNCHANGED <<text, sv, wrote, conn, buf, asked, served>>

\* rio_readnb comes to the end of the loop with all of a reply.
ClientCopy ==
    /\ cl = "read" /\ Copy("down", MaxLine - n["down"])
    /\ IF n'["down"] = MaxLine THEN cl' = "fgets" /\ heard' = heard + 1
                               ELSE UNCHANGED <<cl, heard>>
    /\ UNCHANGED <<text, sv, wrote, conn, buf, asked, served>>

\* The server has ended: rio_readnb returns less than a reply and the client
\* prints its buffer as it is.
ClientShort ==
    /\ cl = "read" /\ AtEof("down")
    /\ cl' = "fgets"
    /\ UNCHANGED <<text, sv, wrote, conn, rio, n, got, tally>>

\* The first write to a connection whose other end is gone may succeed.
ClientWriteLost ==
    /\ cl = "write" /\ sv = "gone"
    /\ wrote' = [wrote EXCEPT !["up"] = made["up"]]
    /\ cl' = "read" /\ n' = [n EXCEPT !["down"] = 0]
    /\ UNCHANGED <<text, sv, conn, rio, got, tally>>

\* fgets meets the end, a call fails (SIGPIPE, ECONNRESET), or it is killed.
ClientEnds ==
    /\ cl # "gone" /\ cl' = "gone"
    /\ UNCHANGED <<text, sv, wrote, conn, rio, n, got, tally>>

-----------------------------------------------------------------------------
\* The server.

\* handle_cmd, up to its Rio_writen: every reply has MAXLINE bytes.
Handle ==
    /\ sv' = "write" /\ served' = served + 1
    /\ made' = [made EXCEPT !["down"] = @ + MaxLine]

ServerFill == sv = "read" /\ (Fill("up") \/ Interrupted("up"))

ServerCopy_Early ==         \* mutant: n < maxlen - 1
    /\ sv = "read" /\ Copy("up", 1)
    /\ IF buf["up"][ptr["up"] + 1] \in newlines \/ n'["up"] = MaxLine - 2
       THEN Handle ELSE UNCHANGED <<sv, served, made>>
    /\ UNCHANGED <<server, size, newlines, cl, wrote, conn, buf, asked, heard>>

ServerCopy_Late ==          \* mutant: n <= maxlen
    /\ sv = "read" /\ Copy("up", 1)
    /\ IF buf["up"][ptr["up"] + 1] \in newlines \/ n'["up"] = MaxLine
       THEN Handle ELSE UNCHANGED <<sv, served, made>>
    /\ UNCHANGED <<server, size, newlines, cl, wrote, conn, buf, asked, heard>>

\* rio_readlineb: a byte at a time, up to a newline or to MAXLINE - 1 of them.
ServerCopy ==
    /\ sv = "read" /\ Copy("up", 1)
    /\ IF buf["up"][ptr["up"] + 1] \in newlines \/ n'["up"] = MaxLine - 1
       THEN Handle ELSE UNCHANGED <<sv, served, made>>
    /\ UNCHANGED <<server, size, newlines, cl, wrote, conn, buf, asked, heard>>

\* What came before the end of the input is a line too; nothing is the end.
ServerEof ==
    /\ sv = "read" /\ AtEof("up")
    /\ IF n["up"] > 0 THEN Handle ELSE sv' = "gone" /\ UNCHANGED <<served, made>>
    /\ UNCHANGED <<server, size, newlines, cl, wrote, conn, rio, n, got, asked, heard>>

\* The next line is read with the rio_t as it is, or with a fresh copy.
NextLine ==
    /\ sv' = "read" /\ n' = [n EXCEPT !["up"] = 0]
    /\ cnt' = IF server = "select" THEN [cnt EXCEPT !["up"] = 0] ELSE cnt

ServerWrite ==
    /\ sv = "write" /\ cl # "gone"
    /\ \E k \in 1..MaxLine : Put("down", k)
    /\ IF wrote'["down"] = made["down"] THEN NextLine ELSE UNCHANGED <<sv, n, cnt>>
    /\ UNCHANGED <<text, cl, buf, ptr, got, tally>>

ServerWriteLost ==
    /\ sv = "write" /\ cl = "gone"
    /\ wrote' = [wrote EXCEPT !["down"] = made["down"]]
    /\ NextLine
    /\ UNCHANGED <<text, cl, conn, buf, ptr, got, tally>>

\* exit from this client or another, a signal, or a call that fails.
ServerEnds ==
    /\ sv # "gone" /\ sv' = "gone"
    /\ UNCHANGED <<text, cl, wrote, conn, rio, n, got, tally>>

-----------------------------------------------------------------------------
Client == ClientWrite \/ ClientCopy \/ ClientShort \/ ClientWriteLost

Server == ServerCopy \/ ServerEof \/ ServerWrite \/ ServerWriteLost

Next ==
    \/ \E k \in 1..MaxText, nl \in BOOLEAN : Fgets(k, nl)
    \/ Client \/ ClientFill \/ ClientEnds
    \/ Server \/ ServerFill \/ ServerEnds

Spec == Init /\ [][Next]_vars

\* Both processes run, and a read is not interrupted for ever.
FairSpec ==
    /\ Spec
    /\ WF_vars(Client) /\ WF_vars(cl = "read" /\ Fill("down"))
    /\ WF_vars(Server) /\ WF_vars(sv = "read" /\ Fill("up"))

-----------------------------------------------------------------------------
TypeOK ==
    /\ server \in {"thread", "select"}
    /\ cl \in {"fgets", "write", "read", "gone"} /\ sv \in {"read", "write", "gone"}
    /\ made \in [Dir -> Nat] /\ size \in 0..(MaxLine - 1) /\ newlines \subseteq 1..made["up"]
    /\ wrote \in [Dir -> Nat] /\ conn \in [Dir -> Seq(Nat)]
    /\ buf \in [Dir -> Seq(Nat)] /\ ptr \in [Dir -> Nat] /\ cnt \in [Dir -> Int]
    /\ n \in [Dir -> Nat] /\ got \in [Dir -> Seq(Nat)]
    /\ asked \in Nat /\ served \in Nat /\ heard \in Nat

\* Whatever part of its arguments every read and write moves, whichever of
\* them are interrupted, and although the select loop drops what its copy of
\* rio_t still holds, each side is given the bytes of the other in their
\* order, with none missing and none twice (csapp.c, rio_writen and rio_read).
BytesInOrder == \A d \in Dir : \A i \in 1..Len(got[d]) : got[d][i] = i

\* The server acts on exactly what one fgets of the client has read, never on
\* a part of it and never on two: fgets and rio_readlineb cut a line that is
\* too long at the same place.
FramesAgree == sv = "write" /\ cl # "gone" => Len(got["up"]) = made["up"]

\* A client that has sent a whole piece comes back for the next with the reply
\* to it, or with less if the server has ended, unless it ends itself.  (One
\* whose input stops in the middle of a line sends a piece that is not whole:
\* client and server then wait for each other, task_2/csapp.c:877,
\* stockclient.c:24.)
Replied ==
    (cl \in {"write", "read"} /\ Whole)
        ~> (cl = "gone" \/ (cl = "fgets" /\ (heard = asked \/ sv = "gone")))

\* The dialogue is one of requests and replies (RequestReply).
RR == INSTANCE RequestReply WITH up <- (sv # "gone")

ImplementsRequestReply == RR!Spec
=============================================================================
