----------------------- MODULE StockThreadServer_proofs -----------------------
(***************************************************************************)
(* Theorems about the thread server, for every number of connections and   *)
(* every inventory: types, the readers-writers protocol of show_stock and  *)
(* the count of the clients, the only ways a trade is lost or missing from *)
(* the file, and that requests which do not overlap take effect one by one.*)
(***************************************************************************)
EXTENDS StockThreadRefinement, FiniteSetTheorems, SequenceTheorems, WellFoundedInduction, TLAPS

-----------------------------------------------------------------------------
\* Operators of the model.

\* Wrapping changes no sum that comes out at 0 or more, and such a sum fits
\* an int: process_stock's check for a negative updated_stock is also a check
\* for overflow.
LEMMA UpdatedExact ==
    ASSUME NEW n \in Int, -(IntMax + 1) <= n, n <= 2 * IntMax + 1,
           Wrap(n) >= 0
    PROVE  Wrap(n) = n /\ n \in 0..IntMax
  BY ConstantsOK DEF ConstantsOK, Wrap

\* strcat leaves a sequence of lines.
LEMMA PutType ==
    ASSUME NEW s \in Seq(Token), NEW p \in Nat \ {0}, NEW t \in Token
    PROVE  Put(s, p, t) \in Seq(Token)
<1>1. CASE p <= Len(s) + 1
  <2>1. SubSeq(s, 1, p - 1) \in Seq(Token)
    BY <1>1, SubSeqProperties
  <2> QED BY <1>1, <2>1 DEF Put
<1>2. CASE ~(p <= Len(s) + 1)
  BY <1>2 DEF Put
<1> QED BY <1>1, <1>2

\* A write into the file leaves a sequence of rows.
LEMMA OverlayType ==
    ASSUME NEW rows \in Seq(Token), NEW f \in Seq(Token), NEW at \in Int
    PROVE  Overlay(rows, at, f) \in Seq(Token)
<1> DEFINE end  == at + Len(rows)
           size == IF end > Len(f) THEN end ELSE Len(f)
           part(k) == IF at < k /\ k <= end THEN rows[k - at] ELSE IF k <= Len(f) THEN f[k] ELSE Hole
<1>1. Len(rows) \in Nat /\ Len(f) \in Nat BY LenProperties
<1>2. size \in Nat BY <1>1
<1>3. Hole \in Token BY DEF Token, Hole
<1>4. ASSUME NEW k \in 1..size PROVE part(k) \in Token
  <2>1. k \in Nat /\ k >= 1 BY <1>2
  <2>2. CASE at < k /\ k <= end
    <3>1. k - at \in 1..Len(rows) BY <1>1, <2>1, <2>2
    <3> QED BY <2>2, <3>1, ElementOfSeq
  <2>3. CASE ~(at < k /\ k <= end)
    BY <1>1, <1>3, <2>1, <2>3, ElementOfSeq
  <2> QED BY <2>2, <2>3
<1> HIDE DEF size, part
<1>5. [k \in 1..size |-> part(k)] \in Seq(Token) BY <1>2, <1>4, IsASeq
<1> QED BY <1>5 DEF Overlay, size, part

\* A stream's offset is a number.
LEMMA WrittenType ==
    ASSUME TypeOK, NEW c \in Client
    PROVE  Written(c) \in Int /\ todo[c] \in Seq(Item) /\ buf[c] \in Seq(Token)
<1>1. todo[c] \in Seq(Item) /\ buf[c] \in Seq(Token) /\ FileOrder \in Seq(Item)
  BY ConstantsOK DEF TypeOK, ThreadType, FileType
<1> QED BY <1>1, LenProperties DEF Written

\* The messages and rows a reply is made of.
LEMMA TokenType ==
    /\ \A i \in Item, n \in 0..IntMax : Row(i, n) \in Token
    /\ \A m \in {"buy", "sell", "short", "none", "invalid", "hole"} : <<m>> \in Token
  BY DEF Token

\* Requests have a kind, and only trades have the kind of a trade.
LEMMA CmdType ==
    /\ \A r \in Trades : r \in Cmd /\ r.op \in {"buy", "sell"} /\ r.id \in Ids /\ r.qty \in Qty
    /\ Show \in Cmd /\ Junk \in Cmd /\ Eof \in Cmd
    /\ Show.op = "show" /\ Junk.op = "junk" /\ Eof.op = "eof"
    /\ \A r \in Cmd : r \in Trades \/ r = Show \/ r = Junk \/ r = Eof
  BY DEF Cmd, Trades, Show, Junk, Eof

\* The amount a trade is granted with fits an int and is not wrapped.
LEMMA UpdatedType ==
    ASSUME TypeOK, NEW r \in Trades, r.id \in Item, ~Refused(r)
    PROVE  /\ Updated(r) \in 0..IntMax
           /\ Updated(r) = IF r.op = "buy" THEN stock[r.id] - r.qty ELSE stock[r.id] + r.qty
<1> DEFINE n == IF r.op = "buy" THEN stock[r.id] - r.qty ELSE stock[r.id] + r.qty
<1>1. stock[r.id] \in 0..IntMax BY DEF TypeOK, TradeType
<1>2. r.qty \in Int /\ -(IntMax + 1) <= r.qty /\ r.qty <= IntMax
  <2>1. r.qty \in -(IntMax + 1)..IntMax BY ConstantsOK, CmdType
  <2>2. IntMax \in Int BY ConstantsOK
  <2> QED BY <2>1, <2>2
<1>3. n \in Int /\ -(IntMax + 1) <= n /\ n <= 2 * IntMax + 1
  BY <1>1, <1>2, ConstantsOK
<1>4. Updated(r) = Wrap(n) BY DEF Updated
<1> HIDE DEF n
<1>5. Wrap(n) = n /\ n \in 0..IntMax
  <2>1. Wrap(n) \in Int BY <1>3, ConstantsOK DEF Wrap
  <2>2. Wrap(n) >= 0 BY <1>4, <2>1 DEF Refused
  <2> QED BY <1>3, <2>2, UpdatedExact
<1>6. Updated(r) = n /\ Updated(r) \in 0..IntMax BY <1>4, <1>5
<1> QED BY <1>6 DEF n

-----------------------------------------------------------------------------
\* What a thread's position says of its locals: it trades only with a parsed
\* trade of an item it has found, walks only while there are nodes left, and
\* is in show_stock only for a show.
LocalsOK ==
    \A c \in Client :
        /\ pc[c] \in {"quote", "lockItem", "store"} => cmd[c] \in Trades
        /\ pc[c] \in {"lockItem", "store"} => cmd[c].id \in Item
        /\ pc[c] \in {"row", "dump"} => todo[c] # <<>>
        /\ pc[c] \in {"enter", "lockState", "openMutex", "row", "leave", "closeState"}
              => cmd[c] = Show

\* TypeOK is preserved by every step once the locals are known to fit it.
LEMMA TypeStep == TypeOK /\ LocalsOK /\ [Next]_vars => TypeOK' /\ LocalsOK'
<1> SUFFICES ASSUME TypeOK, LocalsOK, [Next]_vars PROVE TypeOK' /\ LocalsOK'
  OBVIOUS
<1> USE DEF TypeOK, At, Alive, Goto, Say
<1>1. ASSUME MainLockState PROVE TypeOK' /\ LocalsOK'
  <2>1. SyncType' BY <1>1 DEF MainLockState, SyncType, sems, conns
  <2>2. TradeType' /\ TextType' /\ FileType' /\ ThreadType'
    BY <1>1 DEF MainLockState, TradeType, TextType, FileType, ThreadType, trading, reply, disk, conns
  <2>3. LocalsOK' BY <1>1 DEF MainLockState, LocalsOK, ThreadType
  <2> QED BY <2>1, <2>2, <2>3
<1>2. ASSUME StartThread PROVE TypeOK' /\ LocalsOK'
  <2>1. seen[conn] + 1 \in Int BY DEF SyncType
  <2>2. SyncType' BY <1>2, <2>1 DEF StartThread, SyncType, sems, conns
  <2>3. ThreadType' BY <1>2 DEF StartThread, ThreadType, conns, Pcs, SyncType
  <2>4. TradeType' /\ TextType' /\ FileType'
    BY <1>2 DEF StartThread, TradeType, TextType, FileType, trading, reply, disk
  <2>5. LocalsOK' BY <1>2 DEF StartThread, LocalsOK, ThreadType, SyncType
  <2> QED BY <2>2, <2>3, <2>4, <2>5
<1>3. ASSUME ExitDone PROVE TypeOK' /\ LocalsOK'
  <2>1. SyncType' BY <1>3 DEF ExitDone, SyncType, sems, conns
  <2>2. TradeType' /\ TextType' /\ FileType' /\ ThreadType'
    BY <1>3 DEF ExitDone, TradeType, TextType, FileType, ThreadType, trading, reply, disk, conns
  <2>3. LocalsOK' BY <1>3 DEF ExitDone, LocalsOK, ThreadType
  <2> QED BY <2>1, <2>2, <2>3
<1>4. ASSUME NEW c \in Client, Accept(c) PROVE TypeOK' /\ LocalsOK'
  <2>1. SyncType' BY <1>4 DEF Accept, SyncType, sems, conns
  <2>2. TradeType' /\ TextType' /\ FileType' /\ ThreadType'
    BY <1>4 DEF Accept, TradeType, TextType, FileType, ThreadType, trading, reply, disk, conns
  <2>3. LocalsOK' BY <1>4 DEF Accept, LocalsOK, ThreadType
  <2> QED BY <2>1, <2>2, <2>3
<1>5. ASSUME NEW c \in Client, ReadLine(c) PROVE TypeOK' /\ LocalsOK'
  <2>1. PICK r \in Trades \cup {Show, Junk} :
            /\ cmd' = [cmd EXCEPT ![c] = r]
            /\ pc' = [pc EXCEPT ![c] = Entry(r)]
    <3>1. PICK line \in Lines : \E r \in Parsed(line) :
              cmd' = [cmd EXCEPT ![c] = r] /\ pc' = [pc EXCEPT ![c] = Entry(r)]
      BY <1>5 DEF ReadLine
    <3>2. Parsed(line) \subseteq Trades \cup {Show, Junk}
      BY DEF Lines, Parsed
    <3> QED BY <3>1, <3>2
  <2>2. r \in Cmd /\ Entry(r) \in {"enter", "seek", "quote"}
    BY <2>1, CmdType DEF Entry
  <2>3. budget' \in [Client -> 0..Budget]
    <3>1. budget[c] \in 0..Budget /\ budget[c] > 0 BY <1>5 DEF ReadLine, ThreadType
    <3>2. Budget \in Nat BY ConstantsOK
    <3>3. budget[c] - 1 \in 0..Budget BY <3>1, <3>2
    <3> QED BY <1>5, <3>3 DEF ReadLine, ThreadType
  <2>4. ShowOrder \in Seq(Item) BY ConstantsOK
  <2>5. <<"invalid">> \in Token BY TokenType
  <2>6. TextType' BY <1>5, <2>5 DEF ReadLine, TextType
  <2>7. ThreadType' BY <1>5, <2>1, <2>2, <2>3, <2>4 DEF ReadLine, ThreadType, Pcs
  <2>8. SyncType' /\ TradeType' /\ FileType'
    BY <1>5 DEF ReadLine, SyncType, TradeType, FileType, sems, trading, disk
  <2>9. /\ Entry(r) = "enter" => r = Show
        /\ Entry(r) = "quote" => r \in Trades
    BY <2>1, CmdType DEF Entry
  <2>10. LocalsOK' BY <1>5, <2>1, <2>2, <2>9 DEF ReadLine, LocalsOK, ThreadType
  <2> QED BY <2>6, <2>7, <2>8, <2>10
<1>6. ASSUME NEW c \in Client, Hangup(c) PROVE TypeOK' /\ LocalsOK'
  <2>1. Eof \in Cmd BY CmdType
  <2>2. ThreadType' BY <1>6, <2>1 DEF Hangup, ThreadType, conns, Pcs
  <2>3. SyncType' /\ TradeType' /\ TextType' /\ FileType'
    BY <1>6 DEF Hangup, SyncType, TradeType, TextType, FileType, sems, conns, trading, reply, disk
  <2>4. LocalsOK' BY <1>6 DEF Hangup, LocalsOK, ThreadType
  <2> QED BY <2>2, <2>3, <2>4
<1>7. ASSUME NEW c \in Client, Enter(c) PROVE TypeOK' /\ LocalsOK'
  <2>1. readcnt + 1 \in Int BY DEF SyncType
  <2>2. SyncType' BY <1>7, <2>1 DEF Enter, SyncType, sems, conns
  <2>3. ThreadType' BY <1>7 DEF Enter, ThreadType, conns, Pcs
  <2>4. TradeType' /\ TextType' /\ FileType'
    BY <1>7 DEF Enter, TradeType, TextType, FileType, trading, reply, disk
  <2>5. LocalsOK' BY <1>7 DEF Enter, LocalsOK, ThreadType
  <2> QED BY <2>2, <2>3, <2>4, <2>5
<1>8. ASSUME NEW c \in Client, LockState(c) PROVE TypeOK' /\ LocalsOK'
  <2>1. SyncType' BY <1>8 DEF LockState, SyncType, sems, conns
  <2>2. ThreadType' BY <1>8 DEF LockState, ThreadType, conns, Pcs
  <2>3. TradeType' /\ TextType' /\ FileType'
    BY <1>8 DEF LockState, TradeType, TextType, FileType, trading, reply, disk
  <2>4. LocalsOK' BY <1>8 DEF LockState, LocalsOK, ThreadType
  <2> QED BY <2>1, <2>2, <2>3, <2>4
<1>9. ASSUME NEW c \in Client, OpenMutex(c) PROVE TypeOK' /\ LocalsOK'
  <2>1. SyncType' BY <1>9 DEF OpenMutex, SyncType, sems, conns
  <2>2. ThreadType' BY <1>9 DEF OpenMutex, ThreadType, conns, Pcs
  <2>3. TradeType' /\ TextType' /\ FileType'
    BY <1>9 DEF OpenMutex, TradeType, TextType, FileType, trading, reply, disk
  <2>4. LocalsOK' BY <1>9 DEF OpenMutex, LocalsOK, ThreadType
  <2> QED BY <2>1, <2>2, <2>3, <2>4
<1>10. ASSUME NEW c \in Client, ReadRow(c) PROVE TypeOK' /\ LocalsOK'
  <2>1. todo[c] # <<>> /\ todo[c] \in Seq(Item)
    BY <1>10 DEF ReadRow, LocalsOK, ThreadType
  <2>2. Head(todo[c]) \in Item /\ Tail(todo[c]) \in Seq(Item)
    BY <2>1, HeadTailProperties
  <2>3. Row(Head(todo[c]), stock[Head(todo[c])]) \in Token
    BY <2>2, TokenType DEF TradeType
  <2>4. TextType' BY <1>10, <2>3 DEF ReadRow, TextType
  <2>5. ThreadType' BY <1>10, <2>2 DEF ReadRow, ThreadType, conns, Pcs
  <2>6. SyncType' /\ TradeType' /\ FileType'
    BY <1>10 DEF ReadRow, SyncType, TradeType, FileType, sems, conns, trading, disk
  <2>7. LocalsOK' BY <1>10 DEF ReadRow, LocalsOK, ThreadType
  <2> QED BY <2>4, <2>5, <2>6, <2>7
<1>11. ASSUME NEW c \in Client, Leave(c) PROVE TypeOK' /\ LocalsOK'
  <2>1. readcnt - 1 \in Int BY DEF SyncType
  <2>2. SyncType' BY <1>11, <2>1 DEF Leave, SyncType, sems, conns
  <2>3. ThreadType' BY <1>11 DEF Leave, ThreadType, conns, Pcs
  <2>4. TradeType' /\ TextType' /\ FileType'
    BY <1>11 DEF Leave, TradeType, TextType, FileType, trading, reply, disk
  <2>5. LocalsOK' BY <1>11 DEF Leave, LocalsOK, ThreadType
  <2> QED BY <2>2, <2>3, <2>4, <2>5
<1>12. ASSUME NEW c \in Client, CloseState(c) PROVE TypeOK' /\ LocalsOK'
  <2>1. SyncType' BY <1>12 DEF CloseState, SyncType, sems, conns
  <2>2. ThreadType' BY <1>12 DEF CloseState, ThreadType, conns, Pcs
  <2>3. TradeType' /\ TextType' /\ FileType'
    BY <1>12 DEF CloseState, TradeType, TextType, FileType, trading, reply, disk
  <2>4. LocalsOK' BY <1>12 DEF CloseState, LocalsOK, ThreadType
  <2> QED BY <2>1, <2>2, <2>3, <2>4
<1>13. ASSUME NEW c \in Client, Refuse(c) PROVE TypeOK' /\ LocalsOK'
  <2>1. <<"none">> \in Token /\ <<"short">> \in Token BY TokenType
  <2>2. TextType' BY <1>13, <2>1 DEF Refuse, TextType, reply
  <2>3. ThreadType' BY <1>13 DEF Refuse, ThreadType, conns, Pcs
  <2>4. SyncType' /\ TradeType' /\ FileType'
    BY <1>13 DEF Refuse, SyncType, TradeType, FileType, sems, conns, trading, disk
  <2>5. LocalsOK' BY <1>13 DEF Refuse, LocalsOK, ThreadType
  <2> QED BY <2>2, <2>3, <2>4, <2>5
<1>14. ASSUME NEW c \in Client, Quote(c) PROVE TypeOK' /\ LocalsOK'
  <2>1. cmd[c].id \in Item /\ Updated(cmd[c]) \in 0..IntMax
    BY <1>14, UpdatedType DEF Quote, LocalsOK
  <2>2. TradeType' BY <1>14, <2>1 DEF Quote, TradeType, trading
  <2>3. ThreadType' BY <1>14 DEF Quote, ThreadType, conns, Pcs
  <2>4. SyncType' /\ TextType' /\ FileType'
    BY <1>14 DEF Quote, SyncType, TextType, FileType, sems, conns, reply, disk
  <2>5. LocalsOK' BY <1>14 DEF Quote, LocalsOK, ThreadType
  <2> QED BY <2>2, <2>3, <2>4, <2>5
<1>15. ASSUME NEW c \in Client, LockItem(c) PROVE TypeOK' /\ LocalsOK'
  <2>1. TradeType' BY <1>15 DEF LockItem, TradeType, trading
  <2>2. ThreadType' BY <1>15 DEF LockItem, ThreadType, conns, Pcs
  <2>3. SyncType' /\ TextType' /\ FileType'
    BY <1>15 DEF LockItem, SyncType, TextType, FileType, sems, conns, reply, disk
  <2>4. LocalsOK' BY <1>15 DEF LockItem, LocalsOK, ThreadType
  <2> QED BY <2>1, <2>2, <2>3, <2>4
<1>16. ASSUME NEW c \in Client, Store(c) PROVE TypeOK' /\ LocalsOK'
  <2>1. cmd[c].op \in {"buy", "sell"} /\ cmd[c].qty \in Int /\ cmd[c].id \in Item
    BY <1>16, CmdType, ConstantsOK DEF Store, LocalsOK
  <2>2. <<cmd[c].op>> \in Token BY <2>1, TokenType
  <2>3. net[cmd[c].id] - cmd[c].qty \in Int /\ net[cmd[c].id] + cmd[c].qty \in Int
    <3>1. net[cmd[c].id] \in Int BY <2>1 DEF TradeType
    <3> HIDE DEF TypeOK
    <3> QED BY <2>1, <3>1
  <2>4. TradeType' BY <1>16, <2>1, <2>3 DEF Store, TradeType
  <2>9. mixed' \in BOOLEAN BY <1>16 DEF Store, FileType
  <2>5. TextType' BY <1>16, <2>2 DEF Store, TextType
  <2>6. ThreadType' BY <1>16 DEF Store, ThreadType, conns, Pcs
  <2>7. SyncType' /\ FileType'
    BY <1>16, <2>9 DEF Store, SyncType, FileType, sems, conns
  <2>8. LocalsOK' BY <1>16 DEF Store, LocalsOK, ThreadType
  <2> QED BY <2>4, <2>5, <2>6, <2>7, <2>8
<1>17. ASSUME NEW c \in Client, Seek(c) PROVE TypeOK' /\ LocalsOK'
  <2>1. Len(response) + 1 \in Nat \ {0} BY LenProperties DEF TextType
  <2>2. TextType' BY <1>17, <2>1 DEF Seek, TextType, reply
  <2>3. ThreadType' BY <1>17 DEF Seek, ThreadType, conns, Pcs
  <2>4. SyncType' /\ TradeType' /\ FileType'
    BY <1>17 DEF Seek, SyncType, TradeType, FileType, sems, conns, trading, disk
  <2>5. LocalsOK' BY <1>17 DEF Seek, LocalsOK, ThreadType
  <2> QED BY <2>2, <2>3, <2>4, <2>5
<1>18. ASSUME NEW c \in Client, PutText(c) PROVE TypeOK' /\ LocalsOK'
  <2>1. Put(response, pos[c], text[c]) \in Seq(Token) BY PutType DEF TextType
  <2>2. TextType' BY <1>18, <2>1 DEF PutText, TextType, reply
  <2>3. AfterPut(c) \in Pcs BY DEF AfterPut, Pcs
  <2>4. ThreadType' BY <1>18, <2>3 DEF PutText, ThreadType, conns
  <2>5. SyncType' /\ TradeType' /\ FileType'
    BY <1>18 DEF PutText, SyncType, TradeType, FileType, sems, conns, trading, disk
  <2>6. LocalsOK'
    BY <1>18, CmdType DEF PutText, AfterPut, LocalsOK, ThreadType
  <2> QED BY <2>2, <2>4, <2>5, <2>6
<1>19. ASSUME NEW c \in Client, Reply(c) PROVE TypeOK' /\ LocalsOK'
  <2>1. TextType' BY <1>19 DEF Reply, TextType, reply
  <2>2. ThreadType' BY <1>19 DEF Reply, ThreadType, conns, Pcs
  <2>3. SyncType' /\ TradeType' /\ FileType'
    BY <1>19 DEF Reply, SyncType, TradeType, FileType, sems, conns, trading, disk
  <2>4. LocalsOK' BY <1>19 DEF Reply, LocalsOK, ThreadType
  <2> QED BY <2>1, <2>2, <2>3, <2>4
<1>20. ASSUME NEW c \in Client, Clear(c) PROVE TypeOK' /\ LocalsOK'
  <2>1. <<>> \in Seq(Token) OBVIOUS
  <2>2. TextType' BY <1>20, <2>1 DEF Clear, TextType, reply
  <2>3. ThreadType' BY <1>20 DEF Clear, ThreadType, conns, Pcs
  <2>4. SyncType' /\ TradeType' /\ FileType'
    BY <1>20 DEF Clear, SyncType, TradeType, FileType, sems, conns, trading, disk
  <2>5. LocalsOK' BY <1>20 DEF Clear, LocalsOK, ThreadType
  <2> QED BY <2>2, <2>3, <2>4, <2>5
<1>21. ASSUME NEW c \in Client, OpenFile(c) PROVE TypeOK' /\ LocalsOK'
  <2>1. <<>> \in Seq(Token) OBVIOUS
  <2>2. FileType' BY <1>21, <2>1 DEF OpenFile, FileType
  <2>3. FileOrder \in Seq(Item) BY ConstantsOK
  <2>4. ThreadType' BY <1>21, <2>3 DEF OpenFile, ThreadType, conns, Pcs
  <2>5. SyncType' /\ TradeType' /\ TextType'
    BY <1>21 DEF OpenFile, SyncType, TradeType, TextType, sems, conns, trading, reply
  <2>6. LocalsOK' BY <1>21 DEF OpenFile, LocalsOK, ThreadType
  <2> QED BY <2>2, <2>4, <2>5, <2>6
<1>22. ASSUME NEW c \in Client, DumpRow(c) PROVE TypeOK' /\ LocalsOK'
  <2>1. todo[c] # <<>> /\ todo[c] \in Seq(Item)
    BY <1>22 DEF DumpRow, LocalsOK, ThreadType
  <2>2. Head(todo[c]) \in Item /\ Tail(todo[c]) \in Seq(Item) /\ Len(Tail(todo[c])) = Len(todo[c]) - 1
    BY <2>1, HeadTailProperties
  <2>3. Append(buf[c], Row(Head(todo[c]), stock[Head(todo[c])])) \in Seq(Token)
    <3>1. Row(Head(todo[c]), stock[Head(todo[c])]) \in Token
      BY <2>2, TokenType DEF TradeType
    <3>2. buf[c] \in Seq(Token) BY DEF FileType
    <3> QED BY <3>1, <3>2, AppendProperties
  <2>4. FileType' BY <1>22, <2>3 DEF DumpRow, FileType
  <2>5. ThreadType' BY <1>22, <2>2 DEF DumpRow, ThreadType, conns, Pcs
  <2>6. SyncType' /\ TradeType' /\ TextType'
    BY <1>22 DEF DumpRow, SyncType, TradeType, TextType, sems, conns, trading, reply
  <2>7. Len(todo[c]) # 1 => Tail(todo[c]) # <<>>
    <3>1. Len(todo[c]) \in Nat BY <2>1, LenProperties
    <3>2. ASSUME Tail(todo[c]) = <<>> PROVE Len(Tail(todo[c])) = 0 BY <3>2, EmptySeq
    <3> HIDE DEF TypeOK
    <3> QED BY <3>1, <3>2, <2>2
  <2>8. LocalsOK' BY <1>22, <2>7 DEF DumpRow, LocalsOK, ThreadType
  <2> QED BY <2>4, <2>5, <2>6, <2>8
<1>23. ASSUME NEW c \in Client, CloseFile(c) PROVE TypeOK' /\ LocalsOK'
  <2>1. Overlay(buf[c], Written(c), file) \in Seq(Token)
    BY WrittenType, OverlayType DEF FileType
  <2>2. FileType' BY <1>23, <2>1 DEF CloseFile, FileType, disk
  <2>3. ThreadType' BY <1>23 DEF CloseFile, AfterClose, ThreadType, conns, Pcs
  <2>4. SyncType' /\ TradeType' /\ TextType'
    BY <1>23 DEF CloseFile, SyncType, TradeType, TextType, sems, conns, trading, reply
  <2>5. LocalsOK' BY <1>23 DEF CloseFile, AfterClose, LocalsOK, ThreadType
  <2> QED BY <2>2, <2>3, <2>4, <2>5
<1>24. ASSUME NEW c \in Client, Finish(c) PROVE TypeOK' /\ LocalsOK'
  <2>1. SyncType' BY <1>24 DEF Finish, SyncType, sems, conns
  <2>2. ThreadType' BY <1>24 DEF Finish, ThreadType, conns, Pcs
  <2>3. TradeType' /\ TextType' /\ FileType'
    BY <1>24 DEF Finish, TradeType, TextType, FileType, trading, reply, disk
  <2>4. LocalsOK' BY <1>24 DEF Finish, LocalsOK, ThreadType
  <2> QED BY <2>1, <2>2, <2>3, <2>4
<1>25. ASSUME NEW c \in Client, Uncount(c) PROVE TypeOK' /\ LocalsOK'
  <2>1. seen[c] - 1 \in Int BY DEF SyncType
  <2>2. SyncType' BY <1>25, <2>1 DEF Uncount, SyncType, sems, conns
  <2>3. ThreadType' BY <1>25 DEF Uncount, ThreadType, conns, Pcs
  <2>4. TradeType' /\ TextType' /\ FileType'
    BY <1>25 DEF Uncount, TradeType, TextType, FileType, trading, reply, disk
  <2>5. LocalsOK' BY <1>25 DEF Uncount, LocalsOK, ThreadType
  <2> QED BY <2>2, <2>3, <2>4, <2>5
<1>26. ASSUME NEW c \in Client, ReadExit(c) PROVE TypeOK' /\ LocalsOK'
  <2>1. Eof \in Cmd BY CmdType
  <2>2. ThreadType' BY <1>26, <2>1 DEF ReadExit, ThreadType, conns, Pcs
  <2>3. SyncType' /\ TradeType' /\ TextType' /\ FileType'
    BY <1>26 DEF ReadExit, SyncType, TradeType, TextType, FileType, sems, conns, trading, reply, disk
  <2>4. LocalsOK' BY <1>26 DEF ReadExit, LocalsOK, ThreadType
  <2> QED BY <2>2, <2>3, <2>4
<1>27. ASSUME NEW c \in Client, FlushStream(c) PROVE TypeOK' /\ LocalsOK'
  <2>1. Overlay(buf[c], Written(c), file) \in Seq(Token)
    BY WrittenType, OverlayType DEF FileType
  <2>2. <<>> \in Seq(Token) OBVIOUS
  <2>3. FileType' BY <1>27, <2>1, <2>2 DEF FlushStream, FileType
  <2>4. SyncType' /\ TradeType' /\ TextType' /\ ThreadType'
    BY <1>27 DEF FlushStream, SyncType, TradeType, TextType, ThreadType, sems, conns, trading, reply
  <2>5. LocalsOK' BY <1>27 DEF FlushStream, LocalsOK, ThreadType
  <2> QED BY <2>3, <2>4, <2>5
<1>28. ASSUME NEW c \in Client, BrokenPipe(c) PROVE TypeOK' /\ LocalsOK'
  <2>1. SyncType' BY <1>28 DEF BrokenPipe, SyncType, sems, conns
  <2>2. TradeType' /\ TextType' /\ FileType' /\ ThreadType'
    BY <1>28 DEF BrokenPipe, TradeType, TextType, FileType, ThreadType, trading, reply, disk, conns
  <2>3. LocalsOK' BY <1>28 DEF BrokenPipe, LocalsOK, ThreadType
  <2> QED BY <2>1, <2>2, <2>3
<1>30. ASSUME NEW c \in Client, Farewell(c) PROVE TypeOK' /\ LocalsOK'
  <2>1. SyncType' BY <1>30 DEF Farewell, SyncType, sems
  <2>2. ThreadType' BY <1>30 DEF Farewell, ThreadType, Pcs
  <2>3. TradeType' /\ TextType' /\ FileType'
    BY <1>30 DEF Farewell, TradeType, TextType, FileType, trading, reply, disk
  <2>4. LocalsOK' BY <1>30 DEF Farewell, LocalsOK, ThreadType
  <2> QED BY <2>1, <2>2, <2>3, <2>4
<1>31. ASSUME NEW c \in Client, Unseat(c) PROVE TypeOK' /\ LocalsOK'
  <2>1. seen[c] - 1 \in Int BY DEF SyncType
  <2>2. SyncType' BY <1>31, <2>1 DEF Unseat, SyncType, sems
  <2>3. ThreadType' BY <1>31 DEF Unseat, ThreadType, Pcs
  <2>4. TradeType' /\ TextType' /\ FileType'
    BY <1>31 DEF Unseat, TradeType, TextType, FileType, trading, reply, disk
  <2>5. LocalsOK' BY <1>31 DEF Unseat, LocalsOK, ThreadType
  <2> QED BY <2>2, <2>3, <2>4, <2>5
<1>32. ASSUME NEW c \in Client, Wipe(c) PROVE TypeOK' /\ LocalsOK'
  <2>1. <<>> \in Seq(Token) OBVIOUS
  <2>2. TextType' BY <1>32, <2>1 DEF Wipe, TextType
  <2>3. ThreadType' BY <1>32 DEF Wipe, ThreadType, conns, Pcs
  <2>4. SyncType' /\ TradeType' /\ FileType'
    BY <1>32 DEF Wipe, SyncType, TradeType, FileType, sems, conns, trading, disk
  <2>5. LocalsOK' BY <1>32 DEF Wipe, LocalsOK, ThreadType
  <2> QED BY <2>2, <2>3, <2>4, <2>5
<1>33. ASSUME NEW c \in Client, Exit(c) PROVE TypeOK' /\ LocalsOK'
  <2>1. SyncType' BY <1>33 DEF Exit, SyncType, sems, conns
  <2>2. ThreadType' BY <1>33 DEF Exit, ThreadType, conns, Pcs
  <2>3. TradeType' /\ TextType' /\ FileType'
    BY <1>33 DEF Exit, TradeType, TextType, FileType, trading, reply, disk
  <2>4. LocalsOK' BY <1>33 DEF Exit, LocalsOK, ThreadType
  <2> QED BY <2>1, <2>2, <2>3, <2>4
<1>34. ASSUME NEW c \in Client, Reset(c) PROVE TypeOK' /\ LocalsOK'
  <2>1. Eof \in Cmd BY CmdType
  <2>2. ThreadType' BY <1>34, <2>1 DEF Reset, ThreadType, conns, Pcs
  <2>3. SyncType' /\ TradeType' /\ TextType' /\ FileType'
    BY <1>34 DEF Reset, SyncType, TradeType, TextType, FileType, sems, conns, trading, reply, disk
  <2>4. LocalsOK' BY <1>34 DEF Reset, LocalsOK, ThreadType
  <2> QED BY <2>2, <2>3, <2>4
<1>29. CASE UNCHANGED vars
  BY <1>29
  DEF vars, trading, sems, reply, disk, conns, LocalsOK,
      SyncType, TradeType, TextType, FileType, ThreadType
<1> QED
  BY <1>1, <1>2, <1>3, <1>4, <1>5, <1>6, <1>7, <1>8, <1>9, <1>10, <1>11, <1>12, <1>13, <1>14, <1>15, <1>16, <1>17, <1>18, <1>19, <1>20, <1>21, <1>22, <1>23, <1>24, <1>25, <1>26, <1>27, <1>28, <1>29, <1>30, <1>31, <1>32, <1>33, <1>34
  DEF Next, MainStep, Exiting, Step, Outside

\* The start-up state has these types.
LEMMA InitTypes == Init => TypeOK /\ LocalsOK
<1> SUFFICES ASSUME Init PROVE TypeOK /\ LocalsOK
  OBVIOUS
<1> USE DEF Init
<1>1. <<"invalid">> \in Token BY TokenType
<1>2. file \in Seq(Token)
  <2>1. \A k \in 1..Len(FileOrder) : FileOrder[k] \in Item
    BY ConstantsOK, ElementOfSeq
  <2>2. \A k \in 1..Len(FileOrder) : Row(FileOrder[k], Initial[FileOrder[k]]) \in Token
    BY <2>1, ConstantsOK, TokenType
  <2>3. Len(FileOrder) \in Nat BY ConstantsOK, LenProperties
  <2> QED BY <2>2, <2>3, IsASeq
<1>3. IntMax \in Nat /\ Budget \in Nat /\ Initial \in [Item -> 0..IntMax]
  BY ConstantsOK
<1>4. Eof \in Cmd BY CmdType
<1>7. SyncType BY DEF SyncType
<1>8. TradeType BY <1>3 DEF TradeType
<1>9. <<>> \in Seq(Token) /\ TextType
  <2>1. <<>> \in Seq(Token) OBVIOUS
  <2> QED BY <1>1, <2>1 DEF TextType
<1>10. FileType BY <1>2, <1>9 DEF FileType
<1>11. ThreadType
  <2>1. <<>> \in Seq(Item) OBVIOUS
  <2> QED BY <1>3, <1>4, <2>1 DEF ThreadType, Pcs
<1>5. TypeOK BY <1>7, <1>8, <1>9, <1>10, <1>11 DEF TypeOK
<1>6. LocalsOK BY DEF LocalsOK
<1> QED BY <1>5, <1>6

\* Every variable keeps its type; in particular no amount leaves 0..INT_MAX,
\* whatever the clients send and however the threads interleave.
THEOREM TypeCorrect == Spec => []TypeOK
  BY InitTypes, TypeStep, PTL DEF Spec

-----------------------------------------------------------------------------
\* A trade is lost only to an overlapping one.

\* What the next assignment of an amount will be: of the trades between
\* quote and store on one item, at most one if the item is not in `raced',
\* and its updated_stock is still the amount plus its own quantity.
TradeInv ==
    /\ NoLossWithoutRace
    /\ \A i \in Item \ raced : \A c \in Client : InFlight(c, i) =>
          /\ upd[c] = IF cmd[c].op = "buy" THEN stock[i] - cmd[c].qty
                                           ELSE stock[i] + cmd[c].qty
          /\ \A d \in Client : InFlight(d, i) => d = c

\* The steps that touch neither amounts nor the trades in flight.
LEMMA TradeFrame ==
    ASSUME TradeInv, UNCHANGED <<stock, upd, net, raced>>,
           \A c \in Client, i \in Item : InFlight(c, i)' => InFlight(c, i) /\ cmd'[c] = cmd[c]
    PROVE  TradeInv'
  BY DEF TradeInv, NoLossWithoutRace

LEMMA TradeStep ==
    TypeOK /\ LocalsOK /\ TradeInv /\ [Next]_vars => TradeInv'
<1> SUFFICES ASSUME TypeOK, LocalsOK, TradeInv, [Next]_vars PROVE TradeInv'
  OBVIOUS
<1> USE DEF trading, sems, reply, disk, conns, vars, At, Alive, Goto, Say
<1> DEFINE Same == \A d \in Client, i \in Item : InFlight(d, i)' => InFlight(d, i) /\ cmd'[d] = cmd[d]
<1>pc. pc \in [Client -> Pcs] /\ cmd \in [Client -> Cmd] BY DEF TypeOK, ThreadType
<1>1. ASSUME NEW c \in Client, Quote(c) PROVE TradeInv'
  <2>0. cmd[c] \in Trades /\ cmd[c].id \in Item /\ ~Refused(cmd[c])
    BY <1>1 DEF LocalsOK, Quote
  <2>1. upd'[c] = IF cmd[c].op = "buy" THEN stock[cmd[c].id] - cmd[c].qty
                                      ELSE stock[cmd[c].id] + cmd[c].qty
    <3>1. upd'[c] = Updated(cmd[c]) BY <1>1 DEF Quote, TypeOK, TradeType
    <3> QED BY <3>1, <2>0, UpdatedType
  <2>2. \A d \in Client, i \in Item :
           InFlight(d, i)' <=> InFlight(d, i) \/ (d = c /\ i = cmd[c].id)
    BY <1>1, <1>pc DEF Quote, InFlight
  <2>3. \A d \in Client \ {c} : upd'[d] = upd[d]
    BY <1>1 DEF Quote, TypeOK, TradeType
  <2>4. ~\E i \in Item : InFlight(c, i) BY <1>1 DEF Quote, InFlight
  <2>5. raced \subseteq raced' /\ (cmd[c].id \notin raced' => \A d \in Client : ~InFlight(d, cmd[c].id))
    BY <1>1, <2>0 DEF Quote
  <2>6. UNCHANGED <<stock, net, cmd>> BY <1>1 DEF Quote
  <2> QED BY <2>1, <2>2, <2>3, <2>4, <2>5, <2>6 DEF TradeInv, NoLossWithoutRace
<1>2. ASSUME NEW c \in Client, Store(c) PROVE TradeInv'
  <2>0. cmd[c] \in Trades /\ cmd[c].id \in Item /\ InFlight(c, cmd[c].id)
    BY <1>2 DEF LocalsOK, Store, InFlight
  <2>1. \A d \in Client, i \in Item : InFlight(d, i)' => InFlight(d, i) /\ d # c
    BY <1>2, <1>pc DEF Store, InFlight
  <2>2. UNCHANGED <<upd, raced, cmd>> BY <1>2 DEF Store
  <2>3. stock' = [stock EXCEPT ![cmd[c].id] = upd[c]] BY <1>2 DEF Store
  <2>4. net' = [net EXCEPT ![cmd[c].id] =
            IF cmd[c].op = "buy" THEN net[cmd[c].id] - cmd[c].qty ELSE net[cmd[c].id] + cmd[c].qty]
    BY <1>2 DEF Store
  <2>5. stock \in [Item -> 0..IntMax] /\ net \in [Item -> Int] BY DEF TypeOK, TradeType
  <2>6. ASSUME NEW i \in Item \ raced PROVE stock'[i] = Initial[i] + net'[i]
    <3>1. CASE i # cmd[c].id
      BY <3>1, <2>0, <2>3, <2>4, <2>5 DEF TradeInv, NoLossWithoutRace
    <3>2. CASE i = cmd[c].id
      <4>1. /\ stock'[i] = upd[c]
            /\ net'[i] = IF cmd[c].op = "buy" THEN net[i] - cmd[c].qty ELSE net[i] + cmd[c].qty
        BY <3>2, <2>3, <2>4, <2>5
      <4>2. upd[c] = IF cmd[c].op = "buy" THEN stock[i] - cmd[c].qty ELSE stock[i] + cmd[c].qty
        BY <3>2, <2>0 DEF TradeInv
      <4>3. stock[i] = Initial[i] + net[i] BY DEF TradeInv, NoLossWithoutRace
      <4>4. Initial[i] \in Int /\ net[i] \in Int /\ cmd[c].qty \in Int
        <5>1. Initial[i] \in Int /\ Qty \subseteq Int BY ConstantsOK
        <5>2. cmd[c].qty \in Qty BY <2>0, CmdType
        <5> QED BY <5>1, <5>2, <2>5
      <4> QED BY <4>1, <4>2, <4>3, <4>4
    <3> QED BY <3>1, <3>2
  <2>7. ASSUME NEW i \in Item \ raced, NEW d \in Client, InFlight(d, i)'
        PROVE  i # cmd[c].id /\ InFlight(d, i)
    BY <2>7, <2>0, <2>1 DEF TradeInv
  <2>8. \A i \in Item : i # cmd[c].id => stock'[i] = stock[i]
    BY <2>3, <2>5
  <2> QED BY <2>1, <2>2, <2>6, <2>7, <2>8 DEF TradeInv, NoLossWithoutRace
<1>3. ASSUME NEW c \in Client, ReadLine(c) PROVE TradeInv'
  <2>1. PICK r \in Cmd : cmd' = [cmd EXCEPT ![c] = r] /\ pc' = [pc EXCEPT ![c] = Entry(r)]
    <3>1. PICK line \in Lines : \E r \in Parsed(line) :
              cmd' = [cmd EXCEPT ![c] = r] /\ pc' = [pc EXCEPT ![c] = Entry(r)]
      BY <1>3 DEF ReadLine
    <3>2. Parsed(line) \subseteq Trades \cup {Show, Junk}
      BY DEF Lines, Parsed
    <3> QED BY <3>1, <3>2, CmdType
  <2>2. Entry(r) \in {"enter", "seek", "quote"} BY DEF Entry
  <2>3. Same BY <2>1, <2>2, <1>pc DEF InFlight
  <2> QED BY <1>3, <2>3, TradeFrame DEF ReadLine
<1>4. ASSUME NEW c \in Client, Hangup(c) PROVE TradeInv'
  <2>1. Same BY <1>4, <1>pc DEF Hangup, InFlight
  <2> QED BY <1>4, <2>1, TradeFrame DEF Hangup
<1>5. ASSUME NEW c \in Client, LockItem(c) PROVE TradeInv'
  <2>1. Same BY <1>5, <1>pc DEF LockItem, InFlight
  <2> QED BY <1>5, <2>1, TradeFrame DEF LockItem
<1>6. ASSUME NEW c \in Client, Enter(c) PROVE TradeInv'
  <2>1. Same BY <1>6, <1>pc DEF Enter, InFlight
  <2> QED BY <1>6, <2>1, TradeFrame DEF Enter
<1>7. ASSUME NEW c \in Client, LockState(c) PROVE TradeInv'
  <2>1. Same BY <1>7, <1>pc DEF LockState, InFlight
  <2> QED BY <1>7, <2>1, TradeFrame DEF LockState
<1>8. ASSUME NEW c \in Client, OpenMutex(c) PROVE TradeInv'
  <2>1. Same BY <1>8, <1>pc DEF OpenMutex, InFlight
  <2> QED BY <1>8, <2>1, TradeFrame DEF OpenMutex
<1>9. ASSUME NEW c \in Client, ReadRow(c) PROVE TradeInv'
  <2>1. Same BY <1>9, <1>pc DEF ReadRow, InFlight
  <2> QED BY <1>9, <2>1, TradeFrame DEF ReadRow
<1>10. ASSUME NEW c \in Client, Leave(c) PROVE TradeInv'
  <2>1. Same BY <1>10, <1>pc DEF Leave, InFlight
  <2> QED BY <1>10, <2>1, TradeFrame DEF Leave
<1>11. ASSUME NEW c \in Client, CloseState(c) PROVE TradeInv'
  <2>1. Same BY <1>11, <1>pc DEF CloseState, InFlight
  <2> QED BY <1>11, <2>1, TradeFrame DEF CloseState
<1>12. ASSUME NEW c \in Client, Refuse(c) PROVE TradeInv'
  <2>1. Same BY <1>12, <1>pc DEF Refuse, InFlight
  <2> QED BY <1>12, <2>1, TradeFrame DEF Refuse
<1>13. ASSUME NEW c \in Client, Seek(c) PROVE TradeInv'
  <2>1. Same BY <1>13, <1>pc DEF Seek, InFlight
  <2> QED BY <1>13, <2>1, TradeFrame DEF Seek
<1>14. ASSUME NEW c \in Client, PutText(c) PROVE TradeInv'
  <2>1. Same BY <1>14, <1>pc DEF PutText, InFlight, AfterPut
  <2> QED BY <1>14, <2>1, TradeFrame DEF PutText
<1>15. ASSUME NEW c \in Client, Reply(c) PROVE TradeInv'
  <2>1. Same BY <1>15, <1>pc DEF Reply, InFlight
  <2> QED BY <1>15, <2>1, TradeFrame DEF Reply
<1>16. ASSUME NEW c \in Client, Clear(c) PROVE TradeInv'
  <2>1. Same BY <1>16, <1>pc DEF Clear, InFlight
  <2> QED BY <1>16, <2>1, TradeFrame DEF Clear
<1>17. ASSUME NEW c \in Client, OpenFile(c) PROVE TradeInv'
  <2>1. Same BY <1>17, <1>pc DEF OpenFile, InFlight
  <2> QED BY <1>17, <2>1, TradeFrame DEF OpenFile
<1>18. ASSUME NEW c \in Client, DumpRow(c) PROVE TradeInv'
  <2>1. Same BY <1>18, <1>pc DEF DumpRow, InFlight
  <2> QED BY <1>18, <2>1, TradeFrame DEF DumpRow
<1>19. ASSUME NEW c \in Client, CloseFile(c) PROVE TradeInv'
  <2>1. Same BY <1>19, <1>pc DEF CloseFile, AfterClose, InFlight
  <2> QED BY <1>19, <2>1, TradeFrame DEF CloseFile
<1>20. ASSUME NEW c \in Client, Finish(c) PROVE TradeInv'
  <2>1. Same BY <1>20, <1>pc DEF Finish, InFlight
  <2> QED BY <1>20, <2>1, TradeFrame DEF Finish
<1>21. ASSUME NEW c \in Client, Uncount(c) PROVE TradeInv'
  <2>1. Same BY <1>21, <1>pc DEF Uncount, InFlight
  <2> QED BY <1>21, <2>1, TradeFrame DEF Uncount
<1>22. ASSUME StartThread PROVE TradeInv'
  <2>1. Same BY <1>22, <1>pc DEF StartThread, InFlight
  <2> QED BY <1>22, <2>1, TradeFrame DEF StartThread
<1>23. ASSUME UNCHANGED <<stock, upd, net, raced, pc, cmd>> PROVE TradeInv'
  <2>1. Same BY <1>23 DEF InFlight
  <2> QED BY <1>23, <2>1, TradeFrame
<1>24. ASSUME NEW c \in Client, Accept(c) \/ FlushStream(c) \/ BrokenPipe(c) PROVE TradeInv'
  BY <1>24, <1>23 DEF Accept, FlushStream, BrokenPipe
<1>25. ASSUME MainLockState \/ ExitDone \/ UNCHANGED vars PROVE TradeInv'
  BY <1>25, <1>23 DEF MainLockState, ExitDone
<1>26. ASSUME NEW c \in Client, ReadExit(c) PROVE TradeInv'
  <2>1. Same BY <1>26, <1>pc DEF ReadExit, InFlight
  <2> QED BY <1>26, <2>1, TradeFrame DEF ReadExit
<1>27. ASSUME NEW c \in Client, Farewell(c) PROVE TradeInv'
  <2>1. Same BY <1>27, <1>pc DEF Farewell, InFlight
  <2> QED BY <1>27, <2>1, TradeFrame DEF Farewell
<1>28. ASSUME NEW c \in Client, Unseat(c) PROVE TradeInv'
  <2>1. Same BY <1>28, <1>pc DEF Unseat, InFlight
  <2> QED BY <1>28, <2>1, TradeFrame DEF Unseat
<1>29. ASSUME NEW c \in Client, Wipe(c) PROVE TradeInv'
  <2>1. Same BY <1>29, <1>pc DEF Wipe, InFlight
  <2> QED BY <1>29, <2>1, TradeFrame DEF Wipe
<1>30. ASSUME NEW c \in Client, Exit(c) PROVE TradeInv'
  <2>1. Same BY <1>30, <1>pc DEF Exit, InFlight
  <2> QED BY <1>30, <2>1, TradeFrame DEF Exit
<1>31. ASSUME NEW c \in Client, Reset(c) PROVE TradeInv'
  <2>1. Same BY <1>31, <1>pc DEF Reset, InFlight
  <2> QED BY <1>31, <2>1, TradeFrame DEF Reset
<1> QED
  BY <1>1, <1>2, <1>3, <1>4, <1>5, <1>6, <1>7, <1>8, <1>9, <1>10, <1>11, <1>12, <1>13, <1>14, <1>15, <1>16, <1>17, <1>18, <1>19, <1>20, <1>21, <1>22, <1>24, <1>25, <1>26, <1>27, <1>28, <1>29, <1>30, <1>31
     DEF Next, MainStep, Exiting, Step, Outside

\* The amounts add up except on an item where two trades overlapped between
\* line 102 and line 111.
THEOREM LossNeedsRace == Spec => []NoLossWithoutRace
<1>1. Init => TradeInv
  <2> SUFFICES ASSUME Init PROVE TradeInv
    OBVIOUS
  <2>1. \A c \in Client, i \in Item : ~InFlight(c, i) BY DEF Init, InFlight
  <2>2. \A i \in Item : Initial[i] = Initial[i] + 0 BY ConstantsOK
  <2> QED BY <2>1, <2>2 DEF Init, TradeInv, NoLossWithoutRace
<1>2. Spec => []LocalsOK /\ []TypeOK
  BY InitTypes, TypeStep, PTL DEF Spec
<1>3. TradeInv => NoLossWithoutRace BY DEF TradeInv
<1> QED BY <1>1, <1>2, <1>3, TradeStep, PTL DEF Spec

-----------------------------------------------------------------------------
\* The semaphores of show_stock and active_clients.

\* A connection main is working on has no thread yet, at most one thread is
\* between P(&mutex) and V(&mutex), state_mutex keeps readers and the two
\* places that change active_clients under it apart, and the properties to
\* prove.
OneInside ==
    /\ \A c \in Client : Counting(c) =>
          ~MainCounting /\ \A d \in Client : ~Reading(d) /\ (Counting(d) => d = c)
    /\ MainCounting => \A c \in Client : ~Reading(c)

SyncInv ==
    /\ mainPc # "accept" => pc[conn] = "off"
    /\ \A c, d \in Client : InMutex(c) /\ InMutex(d) => c = d
    /\ ReadersCounted
    /\ OneInside
    /\ SemaphoresOwned

Readers == {c \in Client : Counted(c)}

\* How readcnt follows the set of readers.
LEMMA ReadersChange ==
    ASSUME ReadersCounted, NEW c \in Client
    PROVE  /\ readcnt \in Nat
           /\ readcnt = 0 <=> Readers = {}
           /\ ~Counted(c) => Cardinality(Readers \cup {c}) = readcnt + 1
           /\ Counted(c) => Cardinality(Readers \ {c}) = readcnt - 1
<1>1. IsFiniteSet(Readers)
  <2>1. Readers \subseteq Client BY DEF Readers
  <2> QED BY <2>1, ConstantsOK, FS_Subset
<1>2. readcnt = Cardinality(Readers) BY DEF ReadersCounted, Readers
<1>3. c \in Readers <=> Counted(c) BY DEF Readers
<1> QED BY <1>1, <1>2, <1>3, FS_CardinalityType, FS_EmptySet, FS_AddElement, FS_RemoveElement

\* The steps of a thread that is neither in the protocol nor counting before
\* or after, or that stays where it is in the walk.
LEMMA SyncFrame ==
    ASSUME SyncInv, UNCHANGED <<mutex, stateMutex, readcnt>>,
           UNCHANGED <<mainPc, conn>>, mainPc # "accept" => pc'[conn] = "off",
           \A d \in Client : /\ Counted(d)' <=> Counted(d)
                             /\ InMutex(d)' <=> InMutex(d)
                             /\ Reading(d)' <=> Reading(d)
                             /\ Counting(d)' <=> Counting(d)
    PROVE  SyncInv'
<1>1. {d \in Client : Counted(d)'} = {d \in Client : Counted(d)} OBVIOUS
<1>2. MainCounting' <=> MainCounting BY DEF MainCounting
<1> QED BY <1>1, <1>2 DEF SyncInv, ReadersCounted, OneInside, SemaphoresOwned

LEMMA SyncStep == TypeOK /\ LocalsOK /\ SyncInv /\ [Next]_vars => SyncInv'
<1> SUFFICES ASSUME TypeOK, LocalsOK, SyncInv, [Next]_vars PROVE SyncInv'
  OBVIOUS
<1> USE DEF trading, sems, reply, disk, conns, vars, At, Alive, Goto, Say
<1>pc. /\ pc \in [Client -> Pcs] /\ cmd \in [Client -> Cmd] /\ conn \in Client
       /\ mutex \in {0, 1} /\ stateMutex \in {0, 1}
  BY DEF TypeOK, SyncType, ThreadType
<1>op. \A d \in Client : pc[d] \in {"enter", "lockState", "openMutex", "row", "leave", "closeState"}
                             => cmd[d].op = "show"
  BY CmdType DEF LocalsOK
<1> USE DEF Counted, InMutex, Reading, Counting, MainCounting
<1>1. ASSUME NEW c \in Client, Enter(c) PROVE SyncInv'
  <2>1. /\ \A d \in Client : pc[d] \notin {"lockState", "openMutex", "closeState"}
        /\ pc[c] = "enter" /\ cmd[c].op = "show" /\ cmd' = cmd /\ mainPc' = mainPc /\ conn' = conn
        /\ mutex' = 0 /\ stateMutex' = stateMutex /\ readcnt' = readcnt + 1
    BY <1>1, <1>op DEF Enter, SyncInv, SemaphoresOwned
  <2>2. pc' = [pc EXCEPT ![c] = IF readcnt = 0 THEN "lockState" ELSE "openMutex"]
    BY <1>1 DEF Enter
  <2>3. ReadersCounted'
    <3>1. {d \in Client : Counted(d)'} = Readers \cup {c}
      BY <2>1, <2>2, <1>pc DEF Readers
    <3>2. ~Counted(c) BY <2>1
    <3> QED BY <3>1, <3>2, <2>1, ReadersChange DEF ReadersCounted, SyncInv
  <2>4. readcnt # 0 => \E d \in Client : Reading(d)
    BY <2>1, ReadersChange DEF Readers, SyncInv
  <2>5. \A d \in Client : /\ Reading(d)' <=> Reading(d) \/ (d = c /\ readcnt # 0)
                          /\ Counting(d)' <=> Counting(d)
                          /\ InMutex(d)' <=> d = c
    BY <2>1, <2>2, <1>pc
  <2>6. OneInside'
    BY <2>1, <2>4, <2>5 DEF SyncInv, OneInside
  <2>7. SemaphoresOwned'
    BY <2>1, <2>4, <2>5 DEF SyncInv, SemaphoresOwned
  <2>8. mainPc # "accept" => pc'[conn] = "off"
    BY <2>1, <2>2, <1>pc DEF SyncInv
  <2> QED BY <2>1, <2>3, <2>5, <2>6, <2>7, <2>8 DEF SyncInv
<1>2. ASSUME NEW c \in Client, LockState(c) PROVE SyncInv'
  <2>1. /\ pc[c] = "lockState" /\ cmd[c].op = "show" /\ stateMutex = 1 /\ stateMutex' = 0
        /\ pc' = [pc EXCEPT ![c] = "openMutex"] /\ cmd' = cmd /\ mainPc' = mainPc /\ conn' = conn
        /\ mutex' = mutex /\ readcnt' = readcnt
    BY <1>2, <1>op DEF LockState
  <2>2. \A d \in Client : /\ Counted(d)' <=> Counted(d)
                          /\ InMutex(d)' <=> InMutex(d)
                          /\ Counting(d)' <=> Counting(d)
                          /\ Reading(d)' <=> Reading(d) \/ d = c
    BY <2>1, <1>pc
  <2>3. {d \in Client : Counted(d)'} = {d \in Client : Counted(d)} BY <2>2
  <2>4. mainPc # "accept" => pc'[conn] = "off"
    BY <2>1, <1>pc DEF SyncInv
  <2> QED BY <2>1, <2>2, <2>3, <2>4 DEF SyncInv, ReadersCounted, OneInside, SemaphoresOwned
<1>3. ASSUME NEW c \in Client, OpenMutex(c) PROVE SyncInv'
  <2>1. /\ pc[c] = "openMutex" /\ cmd[c].op = "show" /\ mutex' = 1 /\ stateMutex' = stateMutex
        /\ cmd' = cmd /\ mainPc' = mainPc /\ conn' = conn /\ readcnt' = readcnt
    BY <1>3, <1>op DEF OpenMutex
  <2>2. pc' = [pc EXCEPT ![c] = IF todo[c] = <<>> THEN "leave" ELSE "row"]
    BY <1>3 DEF OpenMutex
  <2>3. \A d \in Client : /\ Counted(d)' <=> Counted(d)
                          /\ InMutex(d)' <=> InMutex(d) /\ d # c
                          /\ Counting(d)' <=> Counting(d)
                          /\ Reading(d)' <=> Reading(d)
    BY <2>1, <2>2, <1>pc
  <2>4. {d \in Client : Counted(d)'} = {d \in Client : Counted(d)} BY <2>3
  <2>5. \A d \in Client : ~InMutex(d)' BY <2>1, <2>3 DEF SyncInv
  <2>6. mainPc # "accept" => pc'[conn] = "off"
    BY <2>1, <2>2, <1>pc DEF SyncInv
  <2> HIDE DEF Counted, InMutex, Reading, Counting
  <2>a. ReadersCounted' BY <2>1, <2>3, <2>4, <2>5, <2>6 DEF SyncInv, ReadersCounted
  <2>b. OneInside' BY <2>1, <2>3, <2>4, <2>5, <2>6 DEF SyncInv, OneInside
  <2>c. SemaphoresOwned' BY <2>1, <2>3, <2>4, <2>5, <2>6 DEF SyncInv, SemaphoresOwned
  <2> QED BY <2>1, <2>3, <2>4, <2>5, <2>6, <2>a, <2>b, <2>c DEF SyncInv
<1>4. ASSUME NEW c \in Client, Leave(c) PROVE SyncInv'
  <2>1. /\ \A d \in Client : ~InMutex(d)
        /\ pc[c] = "leave" /\ cmd[c].op = "show" /\ cmd' = cmd /\ mainPc' = mainPc /\ conn' = conn
        /\ mutex' = 0 /\ stateMutex' = stateMutex /\ readcnt' = readcnt - 1
        /\ pc' = [pc EXCEPT ![c] = "closeState"]
    BY <1>4, <1>op DEF Leave, SyncInv, SemaphoresOwned
  <2>2. ReadersCounted'
    <3>1. {d \in Client : Counted(d)'} = Readers \ {c}
      BY <2>1, <1>pc DEF Readers
    <3>2. Counted(c) BY <2>1
    <3> QED BY <3>1, <3>2, <2>1, ReadersChange DEF ReadersCounted, SyncInv
  <2>3. \A d \in Client : /\ Reading(d)' <=> Reading(d)
                          /\ Counting(d)' <=> Counting(d)
                          /\ InMutex(d)' <=> d = c
    BY <2>1, <1>pc
  <2>4. mainPc # "accept" => pc'[conn] = "off"
    BY <2>1, <1>pc DEF SyncInv
  <2> QED BY <2>1, <2>2, <2>3, <2>4 DEF SyncInv, OneInside, SemaphoresOwned
<1>5. ASSUME NEW c \in Client, CloseState(c) PROVE SyncInv'
  <2>1. /\ pc[c] = "closeState" /\ cmd' = cmd /\ mainPc' = mainPc /\ conn' = conn
        /\ mutex' = 1 /\ readcnt' = readcnt
        /\ stateMutex' = (IF readcnt = 0 THEN 1 ELSE stateMutex)
        /\ pc' = [pc EXCEPT ![c] = "reply"]
    BY <1>5 DEF CloseState
  <2>2. \A d \in Client : /\ Counted(d)' <=> Counted(d)
                          /\ Counting(d)' <=> Counting(d)
                          /\ ~InMutex(d)'
                          /\ Reading(d)' <=> Reading(d) /\ d # c
    BY <2>1, <1>pc DEF SyncInv
  <2>3. {d \in Client : Counted(d)'} = {d \in Client : Counted(d)} BY <2>2
  <2>4. ~MainCounting /\ \A d \in Client : ~Counting(d)
    BY <2>1 DEF SyncInv, OneInside
  <2>5. (\E d \in Client : Reading(d)') <=> readcnt # 0
    <3>1. readcnt # 0 <=> \E d \in Client : Counted(d)
      BY ReadersChange DEF Readers, SyncInv
    <3>2. \A d \in Client : d # c => ~InMutex(d) BY <2>1 DEF SyncInv
    <3>3. ~Counted(c) BY <2>1
    <3> QED BY <3>1, <3>2, <3>3, <2>2
  <2>6. stateMutex = 0 BY <2>1 DEF SyncInv, SemaphoresOwned
  <2>7. mainPc # "accept" => pc'[conn] = "off"
    BY <2>1, <1>pc DEF SyncInv
  <2>8. SemaphoresOwned'
    BY <2>1, <2>2, <2>4, <2>5, <2>6 DEF SemaphoresOwned
  <2> QED BY <2>1, <2>2, <2>3, <2>4, <2>7, <2>8 DEF SyncInv, ReadersCounted, OneInside
<1>6. ASSUME NEW c \in Client, Finish(c) PROVE SyncInv'
  <2>1. /\ pc[c] = "finish" /\ cmd' = cmd /\ mainPc' = mainPc /\ conn' = conn
        /\ mutex' = mutex /\ readcnt' = readcnt /\ stateMutex = 1 /\ stateMutex' = 0
        /\ pc' = [pc EXCEPT ![c] = "uncount"]
    BY <1>6 DEF Finish
  <2>2. \A d \in Client : /\ Counted(d)' <=> Counted(d)
                          /\ InMutex(d)' <=> InMutex(d)
                          /\ Reading(d)' <=> Reading(d)
                          /\ Counting(d)' <=> Counting(d) \/ d = c
    BY <2>1, <1>pc
  <2>3. {d \in Client : Counted(d)'} = {d \in Client : Counted(d)} BY <2>2
  <2>4. mainPc # "accept" => pc'[conn] = "off"
    BY <2>1, <1>pc DEF SyncInv
  <2> HIDE DEF Counted, InMutex, Reading, Counting
  <2>a. ReadersCounted' BY <2>1, <2>2, <2>3, <2>4 DEF SyncInv, ReadersCounted
  <2>b. OneInside' BY <2>1, <2>2, <2>3, <2>4 DEF SyncInv, OneInside, SemaphoresOwned
  <2>c. SemaphoresOwned' BY <2>1, <2>2, <2>3, <2>4 DEF SyncInv, SemaphoresOwned
  <2> QED BY <2>1, <2>2, <2>3, <2>4, <2>a, <2>b, <2>c DEF SyncInv
<1>7. ASSUME NEW c \in Client, Uncount(c) PROVE SyncInv'
  <2>1. /\ pc[c] = "uncount" /\ cmd' = cmd /\ mainPc' = mainPc /\ conn' = conn
        /\ mutex' = mutex /\ readcnt' = readcnt /\ stateMutex' = 1
        /\ pc' = [pc EXCEPT ![c] = "gone"]
    BY <1>7 DEF Uncount
  <2>2. \A d \in Client : /\ Counted(d)' <=> Counted(d)
                          /\ InMutex(d)' <=> InMutex(d)
                          /\ Reading(d)' <=> Reading(d)
                          /\ Counting(d)' <=> Counting(d) /\ d # c
    BY <2>1, <1>pc
  <2>3. {d \in Client : Counted(d)'} = {d \in Client : Counted(d)} BY <2>2
  <2>4. mainPc # "accept" => pc'[conn] = "off"
    BY <2>1, <1>pc DEF SyncInv
  <2>5. Counting(c) BY <2>1
  <2> HIDE DEF Counted, InMutex, Reading, Counting
  <2>a. ReadersCounted' BY <2>1, <2>3 DEF SyncInv, ReadersCounted
  <2>b. OneInside' BY <2>1, <2>2 DEF SyncInv, OneInside
  <2>c. SemaphoresOwned' BY <2>1, <2>2, <2>5 DEF SyncInv, OneInside, SemaphoresOwned
  <2> QED BY <2>1, <2>2, <2>4, <2>a, <2>b, <2>c DEF SyncInv
<1>8. ASSUME MainLockState PROVE SyncInv'
  <2>1. UNCHANGED <<pc, cmd, conn, mutex, readcnt>> /\ mainPc = "lockState" /\ mainPc' = "count"
        /\ stateMutex = 1 /\ stateMutex' = 0
    BY <1>8 DEF MainLockState
  <2> QED BY <2>1 DEF SyncInv, ReadersCounted, OneInside, SemaphoresOwned
<1>9. ASSUME StartThread PROVE SyncInv'
  <2>1. /\ UNCHANGED <<cmd, conn, mutex, readcnt>> /\ mainPc = "count" /\ mainPc' = "accept"
        /\ stateMutex' = 1 /\ pc[conn] = "off" /\ pc' = [pc EXCEPT ![conn] = "read"]
    BY <1>9 DEF StartThread, SyncInv
  <2>2. \A d \in Client : /\ Counted(d)' <=> Counted(d)
                          /\ InMutex(d)' <=> InMutex(d)
                          /\ Reading(d)' <=> Reading(d)
                          /\ Counting(d)' <=> Counting(d)
    BY <2>1, <1>pc
  <2>3. {d \in Client : Counted(d)'} = {d \in Client : Counted(d)} BY <2>2
  <2> HIDE DEF Counted, InMutex, Reading, Counting
  <2>a. ReadersCounted' BY <2>1, <2>2, <2>3 DEF SyncInv, ReadersCounted
  <2>b. OneInside' BY <2>1, <2>2, <2>3 DEF SyncInv, OneInside
  <2>c. SemaphoresOwned' BY <2>1, <2>2, <2>3 DEF SyncInv, OneInside, SemaphoresOwned
  <2> QED BY <2>1, <2>2, <2>3, <2>a, <2>b, <2>c DEF SyncInv
<1>10. ASSUME NEW c \in Client, Accept(c) PROVE SyncInv'
  <2>1. UNCHANGED <<pc, cmd, mutex, stateMutex, readcnt>> /\ mainPc = "accept" /\ mainPc' = "lockState"
        /\ pc[conn'] = "off"
    BY <1>10 DEF Accept
  <2> QED BY <2>1 DEF SyncInv, ReadersCounted, OneInside, SemaphoresOwned
<1> DEFINE Same ==
      \A d \in Client : /\ Counted(d)' <=> Counted(d)
                        /\ InMutex(d)' <=> InMutex(d)
                        /\ Reading(d)' <=> Reading(d)
                        /\ Counting(d)' <=> Counting(d)
<1>11. ASSUME NEW c \in Client, Hangup(c) PROVE SyncInv'
  <2>1. Same BY <1>11, <1>pc DEF Hangup
  <2>2. mainPc # "accept" => pc'[conn] = "off" BY <1>11, <1>pc DEF Hangup, SyncInv
  <2> QED BY <1>11, <2>1, <2>2, SyncFrame DEF Hangup
<1>12. ASSUME NEW c \in Client, ReadRow(c) PROVE SyncInv'
  <2>1. Same BY <1>12, <1>pc, <1>op DEF ReadRow
  <2>2. mainPc # "accept" => pc'[conn] = "off" BY <1>12, <1>pc DEF ReadRow, SyncInv
  <2> QED BY <1>12, <2>1, <2>2, SyncFrame DEF ReadRow
<1>13. ASSUME NEW c \in Client, Refuse(c) PROVE SyncInv'
  <2>0. cmd[c].op # "show" BY <1>13, CmdType DEF Refuse, LocalsOK
  <2>1. Same BY <1>13, <1>pc, <2>0 DEF Refuse
  <2>2. mainPc # "accept" => pc'[conn] = "off" BY <1>13, <1>pc DEF Refuse, SyncInv
  <2> QED BY <1>13, <2>1, <2>2, SyncFrame DEF Refuse
<1>14. ASSUME NEW c \in Client, Quote(c) PROVE SyncInv'
  <2>0. cmd[c].op # "show" BY <1>14, CmdType DEF Quote, LocalsOK
  <2>1. Same BY <1>14, <1>pc, <2>0 DEF Quote
  <2>2. mainPc # "accept" => pc'[conn] = "off" BY <1>14, <1>pc DEF Quote, SyncInv
  <2> QED BY <1>14, <2>1, <2>2, SyncFrame DEF Quote
<1>15. ASSUME NEW c \in Client, LockItem(c) PROVE SyncInv'
  <2>0. cmd[c].op # "show" BY <1>15, CmdType DEF LockItem, LocalsOK
  <2>1. Same BY <1>15, <1>pc, <2>0 DEF LockItem
  <2>2. mainPc # "accept" => pc'[conn] = "off" BY <1>15, <1>pc DEF LockItem, SyncInv
  <2> QED BY <1>15, <2>1, <2>2, SyncFrame DEF LockItem
<1>16. ASSUME NEW c \in Client, Store(c) PROVE SyncInv'
  <2>0. cmd[c].op # "show" BY <1>16, CmdType DEF Store, LocalsOK
  <2>1. Same BY <1>16, <1>pc, <2>0 DEF Store
  <2>2. mainPc # "accept" => pc'[conn] = "off" BY <1>16, <1>pc DEF Store, SyncInv
  <2> QED BY <1>16, <2>1, <2>2, SyncFrame DEF Store
<1>17. ASSUME NEW c \in Client, Seek(c) PROVE SyncInv'
  <2>1. Same BY <1>17, <1>pc DEF Seek
  <2>2. mainPc # "accept" => pc'[conn] = "off" BY <1>17, <1>pc DEF Seek, SyncInv
  <2> QED BY <1>17, <2>1, <2>2, SyncFrame DEF Seek
<1>18. ASSUME NEW c \in Client, PutText(c) PROVE SyncInv'
  <2>1. Same BY <1>18, <1>pc DEF PutText, AfterPut
  <2>2. mainPc # "accept" => pc'[conn] = "off" BY <1>18, <1>pc DEF PutText, SyncInv
  <2> QED BY <1>18, <2>1, <2>2, SyncFrame DEF PutText
<1>19. ASSUME NEW c \in Client, Reply(c) PROVE SyncInv'
  <2>1. Same BY <1>19, <1>pc DEF Reply
  <2>2. mainPc # "accept" => pc'[conn] = "off" BY <1>19, <1>pc DEF Reply, SyncInv
  <2> QED BY <1>19, <2>1, <2>2, SyncFrame DEF Reply
<1>20. ASSUME NEW c \in Client, Clear(c) PROVE SyncInv'
  <2>1. Same BY <1>20, <1>pc DEF Clear
  <2>2. mainPc # "accept" => pc'[conn] = "off" BY <1>20, <1>pc DEF Clear, SyncInv
  <2> QED BY <1>20, <2>1, <2>2, SyncFrame DEF Clear
<1>21. ASSUME NEW c \in Client, OpenFile(c) PROVE SyncInv'
  <2>1. Same BY <1>21, <1>pc DEF OpenFile
  <2>2. mainPc # "accept" => pc'[conn] = "off" BY <1>21, <1>pc DEF OpenFile, SyncInv
  <2> QED BY <1>21, <2>1, <2>2, SyncFrame DEF OpenFile
<1>22. ASSUME NEW c \in Client, DumpRow(c) PROVE SyncInv'
  <2>1. Same BY <1>22, <1>pc DEF DumpRow
  <2>2. mainPc # "accept" => pc'[conn] = "off" BY <1>22, <1>pc DEF DumpRow, SyncInv
  <2> QED BY <1>22, <2>1, <2>2, SyncFrame DEF DumpRow
<1>23. ASSUME NEW c \in Client, CloseFile(c) PROVE SyncInv'
  <2>1. Same BY <1>23, <1>pc DEF CloseFile, AfterClose
  <2>2. mainPc # "accept" => pc'[conn] = "off" BY <1>23, <1>pc DEF CloseFile, AfterClose, SyncInv
  <2> QED BY <1>23, <2>1, <2>2, SyncFrame DEF CloseFile
<1>24. ASSUME NEW c \in Client, ReadLine(c) PROVE SyncInv'
  <2>1. PICK r \in Cmd : cmd' = [cmd EXCEPT ![c] = r] /\ pc' = [pc EXCEPT ![c] = Entry(r)]
    <3>1. PICK line \in Lines : \E r \in Parsed(line) :
              cmd' = [cmd EXCEPT ![c] = r] /\ pc' = [pc EXCEPT ![c] = Entry(r)]
      BY <1>24 DEF ReadLine
    <3>2. Parsed(line) \subseteq Trades \cup {Show, Junk}
      BY DEF Lines, Parsed
    <3> QED BY <3>1, <3>2, CmdType
  <2>2. Entry(r) \in {"enter", "seek", "quote"} /\ (Entry(r) = "seek" => r.op # "show")
    BY DEF Entry
  <2>3. pc[c] = "read" BY <1>24 DEF ReadLine
  <2>4. Same BY <2>1, <2>2, <2>3, <1>pc
  <2>5. mainPc # "accept" => pc'[conn] = "off" BY <2>1, <2>3, <1>pc, <1>24 DEF SyncInv
  <2> QED BY <1>24, <2>4, <2>5, SyncFrame DEF ReadLine
<1>25. ASSUME UNCHANGED <<sems, mainPc, conn, pc, cmd>> PROVE SyncInv'
  <2>1. Same BY <1>25
  <2>2. mainPc # "accept" => pc'[conn] = "off" BY <1>25 DEF SyncInv
  <2> QED BY <1>25, <2>1, <2>2, SyncFrame
<1>26. ASSUME NEW c \in Client, FlushStream(c) \/ BrokenPipe(c) PROVE SyncInv'
  BY <1>26, <1>25 DEF FlushStream, BrokenPipe
<1>27. ASSUME ExitDone \/ UNCHANGED vars PROVE SyncInv'
  BY <1>27, <1>25 DEF ExitDone
<1>28. ASSUME NEW c \in Client, ReadExit(c) PROVE SyncInv'
  <2>1. Same BY <1>28, <1>pc DEF ReadExit
  <2>2. mainPc # "accept" => pc'[conn] = "off" BY <1>28, <1>pc DEF ReadExit, SyncInv
  <2> QED BY <1>28, <2>1, <2>2, SyncFrame DEF ReadExit
<1>29. ASSUME NEW c \in Client, Farewell(c) PROVE SyncInv'
  <2>1. Same BY <1>29, <1>pc DEF Farewell
  <2>2. mainPc # "accept" => pc'[conn] = "off" BY <1>29, <1>pc DEF Farewell, SyncInv
  <2> QED BY <1>29, <2>1, <2>2, SyncFrame DEF Farewell
<1>30. ASSUME NEW c \in Client, Unseat(c) PROVE SyncInv'
  <2>1. Same BY <1>30, <1>pc DEF Unseat
  <2>2. mainPc # "accept" => pc'[conn] = "off" BY <1>30, <1>pc DEF Unseat, SyncInv
  <2> QED BY <1>30, <2>1, <2>2, SyncFrame DEF Unseat
<1>31. ASSUME NEW c \in Client, Wipe(c) PROVE SyncInv'
  <2>1. Same BY <1>31, <1>pc DEF Wipe
  <2>2. mainPc # "accept" => pc'[conn] = "off" BY <1>31, <1>pc DEF Wipe, SyncInv
  <2> QED BY <1>31, <2>1, <2>2, SyncFrame DEF Wipe
<1>32. ASSUME NEW c \in Client, Exit(c) PROVE SyncInv'
  <2>1. Same BY <1>32, <1>pc DEF Exit
  <2>2. mainPc # "accept" => pc'[conn] = "off" BY <1>32, <1>pc DEF Exit, SyncInv
  <2> QED BY <1>32, <2>1, <2>2, SyncFrame DEF Exit
<1>33. ASSUME NEW c \in Client, Reset(c) PROVE SyncInv'
  <2>1. Same BY <1>33, <1>pc DEF Reset
  <2>2. mainPc # "accept" => pc'[conn] = "off" BY <1>33, <1>pc DEF Reset, SyncInv
  <2> QED BY <1>33, <2>1, <2>2, SyncFrame DEF Reset
<1> QED
  BY <1>1, <1>2, <1>3, <1>4, <1>5, <1>6, <1>7, <1>8, <1>9, <1>10, <1>11, <1>12, <1>13, <1>14, <1>15, <1>16, <1>17, <1>18, <1>19, <1>20, <1>21, <1>22, <1>23, <1>24, <1>26, <1>27, <1>28, <1>29, <1>30, <1>31, <1>32, <1>33
     DEF Next, MainStep, Exiting, Step, Outside

LEMMA SyncAlways == Spec => []SyncInv
<1>1. Init => SyncInv
  <2> SUFFICES ASSUME Init PROVE SyncInv
    OBVIOUS
  <2>1. \A c \in Client : pc[c] = "off" BY DEF Init
  <2>2. {c \in Client : Counted(c)} = {} BY <2>1 DEF Counted
  <2>3. Cardinality({}) = 0 BY FS_EmptySet
  <2>4. \A c \in Client : ~InMutex(c) /\ ~Reading(c) /\ ~Counting(c) /\ ~Counted(c)
    BY <2>1 DEF InMutex, Reading, Counting, Counted
  <2>5. ReadersCounted BY <2>2, <2>3 DEF Init, ReadersCounted
  <2>6. OneInside BY <2>4 DEF Init, OneInside, MainCounting
  <2>7. SemaphoresOwned BY <2>4 DEF Init, SemaphoresOwned, MainCounting
  <2> QED BY <2>4, <2>5, <2>6, <2>7 DEF Init, SyncInv
<1> QED BY <1>1, InitTypes, TypeStep, SyncStep, PTL DEF Spec

\* readcnt counts the readers, so the first of them takes state_mutex and the
\* last returns it.
THEOREM ReadcntCorrect == Spec => []ReadersCounted
<1>1. SyncInv => ReadersCounted BY DEF SyncInv
<1> QED BY <1>1, SyncAlways, PTL

\* Neither semaphore is ever lost: it is taken exactly while a thread is on
\* its way to give it back.
THEOREM NoSemaphoreLost == Spec => []SemaphoresOwned
<1>1. SyncInv => SemaphoresOwned BY DEF SyncInv
<1> QED BY <1>1, SyncAlways, PTL

-----------------------------------------------------------------------------
\* active_clients.

Present == {c \in Client : pc[c] \notin {"off", "gone"}}

\* Until a thread is on its way to exit(0), what a thread that is about to
\* store the counter has loaded is still the counter.
CountInv == (\A c \in Client : ~Unseated(c)) =>
    /\ activeClients = Cardinality(Present)
    /\ mainPc = "count" => seen[conn] = activeClients
    /\ \A c \in Client : pc[c] = "uncount" => seen[c] = activeClients

\* One connection more or less.
LEMMA PresentChanges ==
    ASSUME NEW c \in Client
    PROVE  /\ Cardinality(Present) \in Nat
           /\ c \notin Present => Cardinality(Present \cup {c}) = Cardinality(Present) + 1
           /\ c \in Present => Cardinality(Present \ {c}) = Cardinality(Present) - 1
<1>1. IsFiniteSet(Present)
  <2>1. Present \subseteq Client BY DEF Present
  <2> QED BY <2>1, ConstantsOK, FS_Subset
<1> QED BY <1>1, FS_CardinalityType, FS_AddElement, FS_RemoveElement

\* The steps that neither load nor store the counter.
LEMMA CountFrame ==
    ASSUME CountInv, UNCHANGED <<activeClients, seen>>,
           mainPc' = "count" => mainPc = "count" /\ conn' = conn,
           \A d \in Client : /\ pc'[d] \in {"off", "gone"} <=> pc[d] \in {"off", "gone"}
                             /\ pc'[d] = "uncount" => pc[d] = "uncount"
                             /\ Unseated(d) => Unseated(d)'
    PROVE  CountInv'
<1>1. Present' = Present BY DEF Present
<1> QED BY <1>1 DEF CountInv

LEMMA CountStep == TypeOK /\ SyncInv /\ CountInv /\ [Next]_vars => CountInv'
<1> SUFFICES ASSUME TypeOK, SyncInv, CountInv, [Next]_vars PROVE CountInv'
  OBVIOUS
<1> USE DEF trading, sems, reply, disk, conns, vars, At, Alive, Goto, Say
<1>pc. pc \in [Client -> Pcs] /\ conn \in Client /\ seen \in [Client -> Int] /\ activeClients \in Int
  BY DEF TypeOK, SyncType, ThreadType
<1> DEFINE Same ==
      \A d \in Client : /\ pc'[d] \in {"off", "gone"} <=> pc[d] \in {"off", "gone"}
                        /\ pc'[d] = "uncount" => pc[d] = "uncount"
                        /\ Unseated(d) => Unseated(d)'
<1>1. ASSUME MainLockState PROVE CountInv'
  <2>1. /\ UNCHANGED <<pc, conn, activeClients>> /\ mainPc' = "count" /\ mainPc = "lockState"
        /\ seen' = [seen EXCEPT ![conn] = activeClients]
    BY <1>1 DEF MainLockState
  <2>2. pc[conn] = "off" BY <2>1 DEF SyncInv
  <2>3. Present' = Present /\ \A d \in Client : Unseated(d)' <=> Unseated(d)
    BY <2>1 DEF Present, Unseated
  <2>4. \A d \in Client : pc'[d] = "uncount" => seen'[d] = seen[d]
    BY <2>1, <2>2, <1>pc
  <2>5. seen'[conn'] = activeClients' BY <2>1, <1>pc
  <2> QED BY <2>1, <2>3, <2>4, <2>5 DEF CountInv
<1>2. ASSUME StartThread PROVE CountInv'
  <2>1. /\ conn' = conn /\ activeClients' = seen[conn] + 1 /\ mainPc = "count" /\ mainPc' = "accept"
        /\ pc' = [pc EXCEPT ![conn] = "read"] /\ pc[conn] = "off" /\ seen' = seen
    BY <1>2 DEF StartThread, SyncInv
  <2>2. Present' = Present \cup {conn} /\ conn \notin Present
    BY <2>1, <1>pc DEF Present
  <2>3. \A d \in Client : Unseated(d)' <=> Unseated(d)
    BY <2>1, <1>pc DEF Unseated
  <2>4. \A d \in Client : pc'[d] # "uncount"
    BY <2>1, <1>pc DEF SyncInv, OneInside, Counting, MainCounting
  <2>5. (\A d \in Client : ~Unseated(d)) => activeClients' = Cardinality(Present')
    BY <2>1, <2>2, <1>pc, PresentChanges DEF CountInv
  <2> QED BY <2>1, <2>3, <2>4, <2>5 DEF CountInv
<1>3. ASSUME NEW c \in Client, Finish(c) PROVE CountInv'
  <2>1. /\ UNCHANGED <<mainPc, conn, activeClients>> /\ stateMutex = 1
        /\ pc[c] = "finish" /\ pc' = [pc EXCEPT ![c] = "uncount"]
        /\ seen' = [seen EXCEPT ![c] = activeClients]
    BY <1>3 DEF Finish
  <2>2. Present' = Present /\ \A d \in Client : Unseated(d)' <=> Unseated(d)
    BY <2>1, <1>pc DEF Present, Unseated
  <2>3. mainPc # "count" /\ \A d \in Client : pc'[d] = "uncount" => d = c
    BY <2>1, <1>pc DEF SyncInv, SemaphoresOwned, Counting, MainCounting
  <2>4. seen'[c] = activeClients' BY <2>1, <1>pc
  <2> QED BY <2>1, <2>2, <2>3, <2>4 DEF CountInv
<1>4. ASSUME NEW c \in Client, Uncount(c) PROVE CountInv'
  <2>1. /\ UNCHANGED <<mainPc, conn, seen>> /\ pc[c] = "uncount"
        /\ activeClients' = seen[c] - 1 /\ pc' = [pc EXCEPT ![c] = "gone"]
    BY <1>4 DEF Uncount
  <2>2. Present' = Present \ {c} /\ c \in Present
    BY <2>1, <1>pc DEF Present
  <2>3. \A d \in Client : Unseated(d)' <=> Unseated(d)
    BY <2>1, <1>pc DEF Unseated
  <2>4. mainPc # "count" /\ \A d \in Client : pc'[d] # "uncount"
    BY <2>1, <1>pc DEF SyncInv, OneInside, Counting, MainCounting
  <2>5. (\A d \in Client : ~Unseated(d)) => activeClients' = Cardinality(Present')
    BY <2>1, <2>2, <1>pc, PresentChanges DEF CountInv
  <2> QED BY <2>1, <2>3, <2>4, <2>5 DEF CountInv
<1>5. ASSUME NEW c \in Client, Farewell(c) PROVE CountInv'
  <2>1. /\ UNCHANGED <<mainPc, conn, activeClients>>
        /\ pc[c] = "farewell" /\ pc' = [pc EXCEPT ![c] = "unseat"]
        /\ seen' = [seen EXCEPT ![c] = activeClients]
    BY <1>5 DEF Farewell
  <2>2. Present' = Present /\ \A d \in Client : Unseated(d)' <=> Unseated(d)
    BY <2>1, <1>pc DEF Present, Unseated
  <2>3. mainPc = "count" => seen'[conn] = seen[conn]
    BY <2>1, <1>pc DEF SyncInv
  <2>4. \A d \in Client : pc'[d] = "uncount" => pc[d] = "uncount" /\ seen'[d] = seen[d]
    BY <2>1, <1>pc
  <2> QED BY <2>1, <2>2, <2>3, <2>4 DEF CountInv
<1>6. ASSUME NEW c \in Client, Unseat(c) PROVE CountInv'
  <2>1. Unseated(c)' BY <1>6, <1>pc DEF Unseat, Unseated
  <2> QED BY <2>1 DEF CountInv
<1>7. ASSUME NEW c \in Client, Enter(c) PROVE CountInv'
  <2>1. Same BY <1>7, <1>pc DEF Enter, Unseated
  <2> QED BY <1>7, <2>1, CountFrame DEF Enter
<1>8. ASSUME NEW c \in Client, LockState(c) PROVE CountInv'
  <2>1. Same BY <1>8, <1>pc DEF LockState, Unseated
  <2> QED BY <1>8, <2>1, CountFrame DEF LockState
<1>9. ASSUME NEW c \in Client, OpenMutex(c) PROVE CountInv'
  <2>1. Same BY <1>9, <1>pc DEF OpenMutex, Unseated
  <2> QED BY <1>9, <2>1, CountFrame DEF OpenMutex
<1>10. ASSUME NEW c \in Client, ReadRow(c) PROVE CountInv'
  <2>1. Same BY <1>10, <1>pc DEF ReadRow, Unseated
  <2> QED BY <1>10, <2>1, CountFrame DEF ReadRow
<1>11. ASSUME NEW c \in Client, Leave(c) PROVE CountInv'
  <2>1. Same BY <1>11, <1>pc DEF Leave, Unseated
  <2> QED BY <1>11, <2>1, CountFrame DEF Leave
<1>12. ASSUME NEW c \in Client, CloseState(c) PROVE CountInv'
  <2>1. Same BY <1>12, <1>pc DEF CloseState, Unseated
  <2> QED BY <1>12, <2>1, CountFrame DEF CloseState
<1>13. ASSUME NEW c \in Client, Refuse(c) PROVE CountInv'
  <2>1. Same BY <1>13, <1>pc DEF Refuse, Unseated
  <2> QED BY <1>13, <2>1, CountFrame DEF Refuse
<1>14. ASSUME NEW c \in Client, Quote(c) PROVE CountInv'
  <2>1. Same BY <1>14, <1>pc DEF Quote, Unseated
  <2> QED BY <1>14, <2>1, CountFrame DEF Quote
<1>15. ASSUME NEW c \in Client, LockItem(c) PROVE CountInv'
  <2>1. Same BY <1>15, <1>pc DEF LockItem, Unseated
  <2> QED BY <1>15, <2>1, CountFrame DEF LockItem
<1>16. ASSUME NEW c \in Client, Store(c) PROVE CountInv'
  <2>1. Same BY <1>16, <1>pc DEF Store, Unseated
  <2> QED BY <1>16, <2>1, CountFrame DEF Store
<1>17. ASSUME NEW c \in Client, Seek(c) PROVE CountInv'
  <2>1. Same BY <1>17, <1>pc DEF Seek, Unseated
  <2> QED BY <1>17, <2>1, CountFrame DEF Seek
<1>18. ASSUME NEW c \in Client, PutText(c) PROVE CountInv'
  <2>1. Same BY <1>18, <1>pc DEF PutText, AfterPut, Unseated
  <2> QED BY <1>18, <2>1, CountFrame DEF PutText
<1>19. ASSUME NEW c \in Client, Reply(c) PROVE CountInv'
  <2>1. Same BY <1>19, <1>pc DEF Reply, Unseated
  <2> QED BY <1>19, <2>1, CountFrame DEF Reply
<1>20. ASSUME NEW c \in Client, Clear(c) PROVE CountInv'
  <2>1. Same BY <1>20, <1>pc DEF Clear, Unseated
  <2> QED BY <1>20, <2>1, CountFrame DEF Clear
<1>21. ASSUME NEW c \in Client, OpenFile(c) PROVE CountInv'
  <2>1. Same BY <1>21, <1>pc DEF OpenFile, Unseated
  <2> QED BY <1>21, <2>1, CountFrame DEF OpenFile
<1>22. ASSUME NEW c \in Client, DumpRow(c) PROVE CountInv'
  <2>1. Same BY <1>22, <1>pc DEF DumpRow, Unseated
  <2> QED BY <1>22, <2>1, CountFrame DEF DumpRow
<1>23. ASSUME NEW c \in Client, CloseFile(c) PROVE CountInv'
  <2>1. Same BY <1>23, <1>pc DEF CloseFile, AfterClose, Unseated
  <2> QED BY <1>23, <2>1, CountFrame DEF CloseFile
<1>24. ASSUME NEW c \in Client, ReadLine(c) PROVE CountInv'
  <2>1. PICK r : pc' = [pc EXCEPT ![c] = Entry(r)] BY <1>24 DEF ReadLine
  <2>2. Entry(r) \in {"enter", "seek", "quote"} BY DEF Entry
  <2>3. Same BY <1>24, <2>1, <2>2, <1>pc DEF ReadLine, Unseated
  <2> QED BY <1>24, <2>3, CountFrame DEF ReadLine
<1>25. ASSUME NEW c \in Client, Hangup(c) PROVE CountInv'
  <2>1. Same BY <1>25, <1>pc DEF Hangup, Unseated
  <2> QED BY <1>25, <2>1, CountFrame DEF Hangup
<1>26. ASSUME NEW c \in Client, ReadExit(c) PROVE CountInv'
  <2>1. Same BY <1>26, <1>pc DEF ReadExit, Unseated
  <2> QED BY <1>26, <2>1, CountFrame DEF ReadExit
<1>27. ASSUME NEW c \in Client, Wipe(c) PROVE CountInv'
  <2>1. Same BY <1>27, <1>pc DEF Wipe, Unseated
  <2> QED BY <1>27, <2>1, CountFrame DEF Wipe
<1>28. ASSUME NEW c \in Client, Exit(c) PROVE CountInv'
  <2>1. Same BY <1>28, <1>pc DEF Exit, Unseated
  <2> QED BY <1>28, <2>1, CountFrame DEF Exit
<1>29. ASSUME NEW c \in Client, Reset(c) PROVE CountInv'
  <2>1. Same BY <1>29, <1>pc DEF Reset, Unseated
  <2> QED BY <1>29, <2>1, CountFrame DEF Reset
<1>30. ASSUME NEW c \in Client, Accept(c) \/ FlushStream(c) \/ BrokenPipe(c) PROVE CountInv'
  <2>1. Same BY <1>30 DEF Accept, FlushStream, BrokenPipe, Unseated
  <2> QED BY <1>30, <2>1, CountFrame DEF Accept, FlushStream, BrokenPipe
<1>31. ASSUME ExitDone \/ UNCHANGED vars PROVE CountInv'
  <2>1. Same BY <1>31 DEF ExitDone, Unseated
  <2> QED BY <1>31, <2>1, CountFrame DEF ExitDone
<1> QED
  BY <1>1, <1>2, <1>3, <1>4, <1>5, <1>6, <1>7, <1>8, <1>9, <1>10, <1>11, <1>12, <1>13, <1>14, <1>15, <1>16, <1>17, <1>18, <1>19, <1>20, <1>21, <1>22, <1>23, <1>24, <1>25, <1>26, <1>27, <1>28, <1>29, <1>30, <1>31
     DEF Next, MainStep, Exiting, Step, Outside

\* No change of active_clients by main or by an ending thread is lost: it is
\* the number of connections until a thread is on its way to exit(0), which
\* changes it without state_mutex (line 139).
THEOREM ClientsAreCounted == Spec => []ClientsCounted
<1>1. Init => CountInv
  <2> SUFFICES ASSUME Init PROVE CountInv
    OBVIOUS
  <2>1. \A c \in Client : pc[c] = "off" BY DEF Init
  <2>2. Present = {} BY <2>1 DEF Present
  <2>3. Cardinality({}) = 0 BY FS_EmptySet
  <2> QED BY <2>1, <2>2, <2>3 DEF Init, CountInv
<1>2. CountInv => ClientsCounted BY DEF CountInv, ClientsCounted, Present
<1> QED BY <1>1, <1>2, InitTypes, TypeStep, SyncAlways, CountStep, PTL DEF Spec

-----------------------------------------------------------------------------
\* stock.txt.

\* s is what is left of the walk `order' after its first k nodes.
Remains(s, order, k) ==
    Len(s) + k = Len(order) /\ \A j \in 1..Len(s) : s[j] = order[k + j]

\* A node more of a walk.
LEMMA NextNode ==
    ASSUME NEW order \in Seq(Item), NEW s \in Seq(Item), NEW k \in Nat,
           Remains(s, order, k), s # <<>>
    PROVE  /\ Head(s) = order[k + 1] /\ k + 1 <= Len(order)
           /\ Remains(Tail(s), order, k + 1)
           /\ Len(s) \in Nat \ {0} /\ Len(Tail(s)) = Len(s) - 1
<1>1. /\ Len(s) \in Nat \ {0} /\ Len(order) \in Nat /\ Head(s) = s[1]
      /\ Len(Tail(s)) = Len(s) - 1
      /\ \A j \in 1..Len(Tail(s)) : Tail(s)[j] = s[j + 1]
  BY EmptySeq, LenProperties, HeadTailProperties
<1>2. 1 \in 1..Len(s) /\ \A j \in 1..Len(Tail(s)) : j + 1 \in 1..Len(s) /\ j \in Nat
  BY <1>1
<1>3. Head(s) = order[k + 1] /\ k + 1 <= Len(order)
  BY <1>1, <1>2 DEF Remains
<1>4. \A j \in 1..Len(Tail(s)) : Tail(s)[j] = order[(k + 1) + j]
  <2>1. ASSUME NEW j \in 1..Len(Tail(s)) PROVE Tail(s)[j] = order[(k + 1) + j]
    <3>1. Tail(s)[j] = order[k + (j + 1)] /\ j \in Nat
      BY <1>1, <1>2 DEF Remains
    <3>2. k + (j + 1) = (k + 1) + j
      BY <3>1
    <3> QED
      BY <3>1, <3>2
  <2> QED
    BY <2>1
<1>5. Len(Tail(s)) + (k + 1) = Len(order)
  BY <1>1 DEF Remains
<1> QED
  BY <1>1, <1>3, <1>4, <1>5 DEF Remains

\* The whole walk, and its end.
LEMMA WalkEnds ==
    ASSUME NEW order \in Seq(Item)
    PROVE  /\ Remains(order, order, 0)
           /\ \A k \in Nat : Remains(<<>>, order, k) => k = Len(order)
<1>1. Len(order) \in Nat /\ Len(<<>>) = 0
  BY LenProperties, EmptySeq
<1> QED
  BY <1>1 DEF Remains

LEMMA ImageType ==
    ASSUME TypeOK
    PROVE  /\ Image \in Seq(Token) /\ Len(Image) = Len(FileOrder)
           /\ \A j \in 1..Len(FileOrder) : Image[j] = Row(FileOrder[j], stock[FileOrder[j]])
<1>1. Len(FileOrder) \in Nat /\ \A j \in 1..Len(FileOrder) : FileOrder[j] \in Item
  BY ConstantsOK, LenProperties, ElementOfSeq
<1>2. \A j \in 1..Len(FileOrder) : Row(FileOrder[j], stock[FileOrder[j]]) \in Token
  BY <1>1, TokenType DEF TypeOK, TradeType
<1>3. Image \in [1..Len(FileOrder) -> Token]
  BY <1>2 DEF Image
<1>4. Image \in Seq(Token) /\ Len(Image) = Len(FileOrder)
  BY <1>1, <1>3
<1> QED
  BY <1>1, <1>4 DEF Image

\* A stream at the end of the file appends its rows to it.
LEMMA OverlayAtEnd ==
    ASSUME NEW rows \in Seq(Token), NEW f \in Seq(Token),
           NEW g \in Seq(Token), g = Overlay(rows, Len(f), f)
    PROVE  /\ Len(g) = Len(f) + Len(rows)
           /\ \A j \in 1..Len(f) : g[j] = f[j]
           /\ \A j \in 1..Len(rows) : g[Len(f) + j] = rows[j]
<1>1. Len(rows) \in Nat /\ Len(f) \in Nat BY LenProperties
<1>3. CASE rows = <<>>
  <2>1. g = f /\ Len(rows) = 0 BY <1>3, EmptySeq DEF Overlay
  <2>2. Len(g) = Len(f) + Len(rows) BY <1>1, <2>1
  <2>3. \A j \in 1..Len(rows) : FALSE BY <2>1
  <2> QED BY <2>1, <2>2, <2>3
<1>4. CASE rows # <<>>
  <2> DEFINE end  == Len(f) + Len(rows)
             size == IF end > Len(f) THEN end ELSE Len(f)
  <2>1. size = end /\ end \in Nat BY <1>1
  <2>2. g = [k \in 1..size |-> IF Len(f) < k /\ k <= end THEN rows[k - Len(f)]
                               ELSE IF k <= Len(f) THEN f[k] ELSE Hole]
    BY <1>4 DEF Overlay
  <2>3. DOMAIN g = 1..end BY <2>1, <2>2
  <2>4. Len(g) = end
    <3>1. DOMAIN g = 1..Len(g) /\ Len(g) \in Nat BY LenProperties
    <3> HIDE DEF end
    <3> QED BY <2>1, <2>3, <3>1
  <2>5. ASSUME NEW j \in 1..Len(f) PROVE g[j] = f[j]
    <3>1. j \in 1..size /\ ~(Len(f) < j) /\ j <= Len(f) BY <1>1, <2>1
    <3> QED BY <2>2, <3>1
  <2>6. ASSUME NEW j \in 1..Len(rows) PROVE g[Len(f) + j] = rows[j]
    <3>1. /\ Len(f) + j \in 1..size /\ Len(f) < Len(f) + j /\ Len(f) + j <= end
          /\ (Len(f) + j) - Len(f) = j
      BY <1>1, <2>1
    <3> QED BY <2>2, <3>1
  <2> QED BY <2>4, <2>5, <2>6
<1> QED BY <1>3, <1>4

\* A save that nothing has overlapped: the file and then the stream's buffer
\* hold the inventory's first rows, and the walk is at the next one.
SaveSoFar(c) ==
    /\ \A d \in Client : Saving(d) => d = c
    /\ Remains(todo[c], FileOrder, Len(file) + Len(buf[c]))
    /\ \A j \in 1..Len(file) : file[j] = Image[j]
    /\ \A j \in 1..Len(buf[c]) : buf[c][j] = Image[Len(file) + j]
    /\ pc[c] = "close" => todo[c] = <<>>

\* A show never says what a trade says.
RowText(c) == cmd[c] = Show /\ pc[c] \in {"seek", "put"} => text[c][1] = "row"

FileInv ==
    /\ NoLagWithoutOverlap
    /\ \A c \in Client : ~mixed /\ Saving(c) => SaveSoFar(c)
    /\ \A c \in Client : RowText(c)

\* The steps that touch neither the file nor the inventory.
LEMMA FileFrame ==
    ASSUME FileInv, UNCHANGED <<stock, file, buf, mixed>>,
           \A d \in Client :
               /\ Saving(d)' <=> Saving(d)
               /\ Saving(d) => todo'[d] = todo[d] /\ pc'[d] = pc[d]
               /\ Unsaved(d) => Unsaved(d)'
               /\ RowText(d)'
    PROVE  FileInv'
<1>1. Image' = Image BY DEF Image
<1>2. NoLagWithoutOverlap' BY <1>1 DEF FileInv, NoLagWithoutOverlap
<1>3. ASSUME NEW c \in Client, ~mixed', Saving(c)' PROVE SaveSoFar(c)'
  <2>1. SaveSoFar(c) /\ Saving(c) BY <1>3 DEF FileInv
  <2> QED BY <1>1, <2>1 DEF SaveSoFar, Remains
<1> QED BY <1>2, <1>3 DEF FileInv

\* Where a save stands: its stream is at the end of the file.
LEMMA SaveStands ==
    ASSUME TypeOK, FileInv, NEW c \in Client, ~mixed, Saving(c)
    PROVE  /\ SaveSoFar(c) /\ Written(c) = Len(file)
           /\ file \in Seq(Token) /\ buf[c] \in Seq(Token) /\ todo[c] \in Seq(Item)
           /\ Len(file) \in Nat /\ Len(buf[c]) \in Nat /\ Len(todo[c]) \in Nat
<1>1. SaveSoFar(c) BY DEF FileInv
<1>2. file \in Seq(Token) /\ buf[c] \in Seq(Token) /\ todo[c] \in Seq(Item)
  BY DEF TypeOK, FileType, ThreadType
<1>3. Len(file) \in Nat /\ Len(buf[c]) \in Nat /\ Len(todo[c]) \in Nat
  BY <1>2, LenProperties
<1>4. Len(todo[c]) + (Len(file) + Len(buf[c])) = Len(FileOrder)
  BY <1>1 DEF SaveSoFar, Remains
<1>5. Written(c) = Len(FileOrder) - Len(todo[c]) - Len(buf[c]) BY DEF Written
<1>6. Len(FileOrder) \in Nat BY ConstantsOK, LenProperties
<1>8. Written(c) \in Int BY WrittenType
<1>7. Written(c) = Len(file)
  <2> DEFINE t == Len(todo[c])
             f == Len(file)
             b == Len(buf[c])
             n == Len(FileOrder)
             w == Written(c)
  <2>1. t \in Nat /\ f \in Nat /\ b \in Nat /\ n \in Nat /\ w \in Int /\ t + (f + b) = n /\ w = n - t - b
    BY <1>3, <1>4, <1>5, <1>6, <1>8
  <2> HIDE DEF t, f, b, n, w
  <2>2. w = f BY ONLY <2>1
  <2> QED BY <2>2 DEF w, f
<1> QED BY <1>1, <1>2, <1>3, <1>7

\* The stream's buffer goes to the file, at the end of the save or by exit(0).
LEMMA SaveWrites ==
    ASSUME TypeOK, FileInv, NEW c \in Client, ~mixed, Saving(c),
           file' = Overlay(buf[c], Written(c), file), UNCHANGED stock
    PROVE  /\ file' \in Seq(Token) /\ Len(file') = Len(file) + Len(buf[c])
           /\ \A j \in 1..Len(file') : file'[j] = Image'[j]
<1>1. SaveSoFar(c) /\ Written(c) = Len(file) /\ file \in Seq(Token) /\ buf[c] \in Seq(Token)
      /\ Len(file) \in Nat /\ Len(buf[c]) \in Nat
  BY SaveStands
<1>2. Image' = Image BY DEF Image
<1>3. /\ file' \in Seq(Token) /\ Len(file') = Len(file) + Len(buf[c])
      /\ \A j \in 1..Len(file) : file'[j] = file[j]
      /\ \A j \in 1..Len(buf[c]) : file'[Len(file) + j] = buf[c][j]
  <2> DEFINE g == Overlay(buf[c], Len(file), file)
  <2>1. file' = g BY <1>1
  <2>2. /\ g \in Seq(Token) /\ Len(g) = Len(file) + Len(buf[c])
        /\ \A j \in 1..Len(file) : g[j] = file[j]
        /\ \A j \in 1..Len(buf[c]) : g[Len(file) + j] = buf[c][j]
    <3> HIDE DEF g
    <3>1. g = Overlay(buf[c], Len(file), file) BY DEF g
    <3>2. g \in Seq(Token)
      <4>1. Len(file) \in Int BY <1>1
      <4> QED BY <1>1, <3>1, <4>1, OverlayType
    <3> QED BY ONLY <1>1, <3>1, <3>2, OverlayAtEnd
  <2> HIDE DEF g
  <2> QED BY <2>1, <2>2
<1>4. ASSUME NEW j \in 1..Len(file') PROVE file'[j] = Image[j]
  <2>1. CASE j \in 1..Len(file)
    BY <1>1, <1>3, <2>1 DEF SaveSoFar
  <2>2. CASE j \notin 1..Len(file)
    <3> DEFINE k == j - Len(file)
    <3>1. k \in 1..Len(buf[c]) /\ j = Len(file) + k BY <1>1, <1>3, <2>2
    <3> HIDE DEF k
    <3>2. file'[Len(file) + k] = buf[c][k] BY <1>3, <3>1
    <3>3. buf[c][k] = Image[Len(file) + k] BY <1>1, <3>1 DEF SaveSoFar
    <3> QED BY <3>1, <3>2, <3>3
  <2> QED BY <2>1, <2>2
<1> QED BY <1>2, <1>3, <1>4

\* fopen empties the file; what overlaps is noted.
LEMMA FileOpens ==
    ASSUME TypeOK, FileInv, NEW c \in Client, OpenFile(c)
    PROVE  FileInv'
<1> USE DEF At, Alive, Goto
<1>1. /\ file' = <<>> /\ buf'[c] = <<>> /\ todo'[c] = FileOrder
      /\ mixed' = (\E d \in Client : Saving(d)) /\ UNCHANGED <<stock, cmd, text>>
      /\ pc[c] = "open" /\ pc' = [pc EXCEPT ![c] = IF FileOrder = <<>> THEN "close" ELSE "dump"]
  BY DEF OpenFile, TypeOK, ThreadType, FileType, trading, reply
<1>2. pc \in [Client -> Pcs] BY DEF TypeOK, ThreadType
<1>3. Saving(c)' BY <1>1, <1>2 DEF Saving
<1>4. \A d \in Client : d # c => (Saving(d)' <=> Saving(d)) BY <1>1, <1>2 DEF Saving
<1>5. NoLagWithoutOverlap' BY <1>3 DEF NoLagWithoutOverlap
<1>6. SaveSoFar(c)' \/ mixed'
  <2>1. Remains(FileOrder, FileOrder, 0) /\ Len(<<>>) = 0 /\ 0 + 0 = 0
    BY WalkEnds, EmptySeq, ConstantsOK
  <2>2. Remains(todo'[c], FileOrder, Len(file') + Len(buf'[c])) BY <1>1, <2>1
  <2>3. (\A j \in 1..Len(file') : FALSE) /\ (\A j \in 1..Len(buf'[c]) : FALSE)
    BY <1>1, <2>1
  <2>4. mixed' \/ \A d \in Client : Saving(d)' => d = c BY <1>1, <1>4
  <2>5. pc'[c] = "close" => todo'[c] = <<>> BY <1>1, <1>2
  <2> QED BY <2>2, <2>3, <2>4, <2>5 DEF SaveSoFar, Remains
<1>7. \A d \in Client : ~mixed' /\ Saving(d)' => d = c BY <1>1, <1>4
<1>8. \A d \in Client : RowText(d)' BY <1>1, <1>2 DEF RowText, FileInv
<1> QED BY <1>5, <1>6, <1>7, <1>8 DEF FileInv

\* A row more.
LEMMA FileDumps ==
    ASSUME TypeOK, LocalsOK, FileInv, NEW c \in Client, DumpRow(c)
    PROVE  FileInv'
<1> USE DEF At, Alive, Goto
<1> DEFINE n == Head(todo[c])
           k == Len(file) + Len(buf[c])
<1>1. /\ UNCHANGED <<stock, file, mixed, cmd, text>> /\ pc[c] = "dump" /\ todo[c] # <<>>
      /\ buf' = [buf EXCEPT ![c] = Append(buf[c], Row(n, stock[n]))]
      /\ todo' = [todo EXCEPT ![c] = Tail(todo[c])]
      /\ pc' = [pc EXCEPT ![c] = IF Len(todo[c]) = 1 THEN "close" ELSE "dump"]
  BY DEF DumpRow, trading, reply, LocalsOK
<1>2. /\ pc \in [Client -> Pcs] /\ todo \in [Client -> Seq(Item)] /\ buf \in [Client -> Seq(Token)]
  BY DEF TypeOK, ThreadType, FileType
<1>3. Saving(c) /\ \A d \in Client : Saving(d)' <=> Saving(d) BY <1>1, <1>2 DEF Saving
<1>4. NoLagWithoutOverlap' BY <1>3 DEF NoLagWithoutOverlap
<1>5. \A d \in Client : RowText(d)' BY <1>1, <1>2 DEF RowText, FileInv
<1>6. ASSUME ~mixed PROVE SaveSoFar(c)' /\ \A d \in Client : Saving(d)' => d = c
  <2>1. /\ SaveSoFar(c) /\ Len(file) \in Nat /\ Len(buf[c]) \in Nat /\ buf[c] \in Seq(Token)
        /\ todo[c] \in Seq(Item)
    BY <1>3, <1>6, SaveStands
  <2>2. k \in Nat /\ Remains(todo[c], FileOrder, k) BY <2>1 DEF SaveSoFar
  <2> HIDE DEF k
  <2>3. /\ n = FileOrder[k + 1] /\ k + 1 <= Len(FileOrder)
        /\ Remains(Tail(todo[c]), FileOrder, k + 1)
        /\ Len(todo[c]) \in Nat \ {0} /\ Len(Tail(todo[c])) = Len(todo[c]) - 1
    BY <1>1, <2>1, <2>2, ConstantsOK, NextNode
  <2>4. Row(n, stock[n]) = Image[k + 1] /\ Row(n, stock[n]) \in Token
    <3>1. k + 1 \in 1..Len(FileOrder) /\ Len(FileOrder) \in Nat
      BY <2>2, <2>3, ConstantsOK, LenProperties
    <3>2. n \in Item
      BY <2>3, <3>1, ConstantsOK, ElementOfSeq
    <3> QED
      BY <2>3, <3>1, <3>2, ImageType, TokenType DEF TypeOK, TradeType
  <2>5. buf'[c] = Append(buf[c], Row(n, stock[n])) /\ todo'[c] = Tail(todo[c]) BY <1>1, <1>2
  <2>6. /\ Len(buf'[c]) = Len(buf[c]) + 1
        /\ \A j \in 1..Len(buf[c]) : buf'[c][j] = buf[c][j]
        /\ buf'[c][Len(buf[c]) + 1] = Row(n, stock[n])
    BY <2>1, <2>4, <2>5, AppendProperties
  <2>7. Len(file) + Len(buf'[c]) = k + 1 /\ Len(file) + (Len(buf[c]) + 1) = k + 1
    BY <2>1, <2>6 DEF k
  <2>8. Remains(todo'[c], FileOrder, Len(file') + Len(buf'[c]))
    BY <1>1, <2>3, <2>5, <2>7
  <2>9. \A j \in 1..Len(buf'[c]) : buf'[c][j] = Image[Len(file) + j]
    <3>1. \A j \in 1..Len(buf'[c]) : j \in 1..Len(buf[c]) \/ j = Len(buf[c]) + 1
      BY <2>1, <2>6
    <3> QED
      BY <2>1, <2>4, <2>6, <2>7, <3>1 DEF SaveSoFar
  <2>10. pc'[c] = "close" => todo'[c] = <<>>
    <3>1. ASSUME pc'[c] = "close" PROVE Len(Tail(todo[c])) = 0
      BY <1>1, <1>2, <2>3, <3>1
    <3>2. Tail(todo[c]) \in Seq(Item)
      BY <1>1, <2>1, HeadTailProperties
    <3> QED BY <2>5, <3>1, <3>2, EmptySeq
  <2>11. Image' = Image BY <1>1 DEF Image
  <2>12. \A d \in Client : Saving(d)' => d = c BY <1>3, <2>1 DEF SaveSoFar
  <2>13. \A j \in 1..Len(file') : file'[j] = Image[j] BY <1>1, <2>1 DEF SaveSoFar
  <2> QED BY <1>1, <2>8, <2>9, <2>10, <2>11, <2>12, <2>13 DEF SaveSoFar, Remains
<1> QED BY <1>1, <1>4, <1>5, <1>6 DEF FileInv

\* fclose completes the file.
LEMMA FileCloses ==
    ASSUME TypeOK, FileInv, NEW c \in Client, CloseFile(c)
    PROVE  FileInv'
<1> USE DEF At, Alive, Goto
<1>1. /\ UNCHANGED <<stock, buf, todo, mixed, cmd, text>> /\ pc[c] = "close"
      /\ file' = Overlay(buf[c], Written(c), file)
      /\ pc' = [pc EXCEPT ![c] = AfterClose(c)] /\ AfterClose(c) \in {"finish", "reply"}
  BY DEF CloseFile, AfterClose, trading, reply
<1>2. pc \in [Client -> Pcs] BY DEF TypeOK, ThreadType
<1>3. \A d \in Client : RowText(d)' BY <1>1, <1>2 DEF RowText, FileInv
<1>4. Saving(c) BY <1>1 DEF Saving
<1>5. CASE mixed
  BY <1>1, <1>3, <1>5 DEF FileInv, NoLagWithoutOverlap
<1>6. CASE ~mixed
  <2>1. /\ SaveSoFar(c) /\ Len(file) \in Nat /\ Len(buf[c]) \in Nat
    BY <1>4, <1>6, SaveStands
  <2>2. \A d \in Client : ~Saving(d)'
    BY <1>1, <1>2, <2>1 DEF SaveSoFar, Saving
  <2>3. /\ file' \in Seq(Token) /\ Len(file') = Len(file) + Len(buf[c])
        /\ \A j \in 1..Len(file') : file'[j] = Image'[j]
    BY <1>1, <1>4, <1>6, SaveWrites
  <2>4. Image' = Image BY <1>1 DEF Image
  <2>5. Len(file') = Len(FileOrder)
    <3>1. Remains(<<>>, FileOrder, Len(file) + Len(buf[c])) BY <1>1, <2>1 DEF SaveSoFar
    <3>2. Len(file) + Len(buf[c]) \in Nat BY <2>1
    <3> QED BY <2>3, <3>1, <3>2, WalkEnds, ConstantsOK
  <2>6. file' = Image BY <2>3, <2>4, <2>5, ImageType, SeqEqual
  <2> QED BY <1>3, <2>2, <2>4, <2>6 DEF FileInv, NoLagWithoutOverlap
<1> QED BY <1>5, <1>6

\* exit(0) writes what a save has formatted so far.
LEMMA FileFlushes ==
    ASSUME TypeOK, FileInv, NEW c \in Client, FlushStream(c)
    PROVE  FileInv'
<1>1. /\ UNCHANGED <<stock, todo, mixed, cmd, text, pc>> /\ Saving(c)
      /\ file' = Overlay(buf[c], Written(c), file)
      /\ buf' = [buf EXCEPT ![c] = <<>>]
  BY DEF FlushStream, Unflushed, trading, reply
<1>2. buf \in [Client -> Seq(Token)] BY DEF TypeOK, FileType
<1>3. (\A d \in Client : RowText(d)') /\ \A d \in Client : Saving(d)' <=> Saving(d)
  BY <1>1 DEF RowText, FileInv, Saving
<1>4. NoLagWithoutOverlap' BY <1>1, <1>3 DEF NoLagWithoutOverlap
<1>5. ASSUME ~mixed PROVE SaveSoFar(c)' /\ \A d \in Client : Saving(d)' => d = c
  <2>1. /\ SaveSoFar(c) /\ Len(file) \in Nat /\ Len(buf[c]) \in Nat
    BY <1>1, <1>5, SaveStands
  <2>2. /\ file' \in Seq(Token) /\ Len(file') = Len(file) + Len(buf[c])
        /\ \A j \in 1..Len(file') : file'[j] = Image'[j]
    BY <1>1, <1>5, SaveWrites
  <2>3. buf'[c] = <<>> /\ Len(<<>>) = 0 BY <1>1, <1>2, EmptySeq
  <2>4. Len(file') + Len(buf'[c]) = Len(file) + Len(buf[c]) BY <2>1, <2>2, <2>3
  <2>5. Remains(todo'[c], FileOrder, Len(file') + Len(buf'[c])) BY <1>1, <2>1, <2>4 DEF SaveSoFar
  <2>6. \A j \in 1..Len(buf'[c]) : FALSE BY <2>3
  <2>7. \A d \in Client : Saving(d)' => d = c BY <1>3, <2>1 DEF SaveSoFar
  <2>8. pc'[c] = "close" => todo'[c] = <<>> BY <1>1, <2>1 DEF SaveSoFar
  <2> QED BY <2>2, <2>5, <2>6, <2>7, <2>8 DEF SaveSoFar, Remains
<1> QED BY <1>1, <1>3, <1>4, <1>5 DEF FileInv

\* A trade is stored, and its save is due.
LEMMA FileLags ==
    ASSUME TypeOK, LocalsOK, FileInv, NEW c \in Client, Store(c)
    PROVE  FileInv'
<1> USE DEF At, Alive, Goto, Say
<1>1. /\ UNCHANGED <<cmd, buf, file>> /\ cmd[c] \in Trades
      /\ pc[c] = "store" /\ pc' = [pc EXCEPT ![c] = "seek"]
      /\ text' = [text EXCEPT ![c] = <<cmd[c].op>>]
      /\ mixed' = (mixed \/ \E d \in Client : Saving(d))
  BY DEF Store, LocalsOK
<1>2. pc \in [Client -> Pcs] /\ text \in [Client -> Token] BY DEF TypeOK, ThreadType, TextType
<1>3. cmd[c].op \in {"buy", "sell"} /\ cmd[c] # Show /\ cmd[c] # Eof BY <1>1, CmdType
<1>4. Unsaved(c)' BY <1>1, <1>2, <1>3 DEF Unsaved
<1>5. \A d \in Client : ~mixed' => ~Saving(d)' BY <1>1, <1>2 DEF Saving
<1>6. \A d \in Client : RowText(d)' BY <1>1, <1>2, <1>3 DEF RowText, FileInv
<1> QED BY <1>4, <1>5, <1>6 DEF FileInv, NoLagWithoutOverlap

LEMMA FileStep == TypeOK /\ LocalsOK /\ SyncInv /\ FileInv /\ [Next]_vars => FileInv'
<1> SUFFICES ASSUME TypeOK, LocalsOK, SyncInv, FileInv, [Next]_vars PROVE FileInv'
  OBVIOUS
<1> USE DEF trading, sems, reply, disk, conns, vars, At, Alive, Goto, Say
<1>pc. /\ pc \in [Client -> Pcs] /\ cmd \in [Client -> Cmd] /\ conn \in Client
       /\ todo \in [Client -> Seq(Item)] /\ text \in [Client -> Token]
  BY DEF TypeOK, SyncType, ThreadType, TextType
<1> DEFINE Same == \A d \in Client :
               /\ Saving(d)' <=> Saving(d)
               /\ Saving(d) => todo'[d] = todo[d] /\ pc'[d] = pc[d]
               /\ Unsaved(d) => Unsaved(d)'
               /\ RowText(d)'
<1>0. \A d \in Client : RowText(d) BY DEF FileInv
<1>1. ASSUME NEW c \in Client, Enter(c) PROVE FileInv'
  <2>1. Same BY <1>1, <1>pc, <1>0 DEF Enter, Saving, Unsaved, RowText
  <2> QED BY <1>1, <2>1, FileFrame DEF Enter
<1>2. ASSUME NEW c \in Client, LockState(c) PROVE FileInv'
  <2>1. Same BY <1>2, <1>pc, <1>0 DEF LockState, Saving, Unsaved, RowText
  <2> QED BY <1>2, <2>1, FileFrame DEF LockState
<1>3. ASSUME NEW c \in Client, OpenMutex(c) PROVE FileInv'
  <2>1. Same BY <1>3, <1>pc, <1>0 DEF OpenMutex, Saving, Unsaved, RowText
  <2> QED BY <1>3, <2>1, FileFrame DEF OpenMutex
<1>4. ASSUME NEW c \in Client, ReadRow(c) PROVE FileInv'
  <2>1. cmd[c] = Show /\ Show # Eof BY <1>4, CmdType DEF ReadRow, LocalsOK
  <2>2. \A i, v : Row(i, v)[1] = "row" BY DEF Row
  <2>3. Same BY <1>4, <1>pc, <1>0, <2>1, <2>2 DEF ReadRow, Saving, Unsaved, RowText
  <2> QED BY <1>4, <2>3, FileFrame DEF ReadRow
<1>5. ASSUME NEW c \in Client, Leave(c) PROVE FileInv'
  <2>1. Same BY <1>5, <1>pc, <1>0 DEF Leave, Saving, Unsaved, RowText
  <2> QED BY <1>5, <2>1, FileFrame DEF Leave
<1>6. ASSUME NEW c \in Client, CloseState(c) PROVE FileInv'
  <2>1. Same BY <1>6, <1>pc, <1>0 DEF CloseState, Saving, Unsaved, RowText
  <2> QED BY <1>6, <2>1, FileFrame DEF CloseState
<1>7. ASSUME NEW c \in Client, Refuse(c) PROVE FileInv'
  <2>1. cmd[c] # Show BY <1>7, CmdType DEF Refuse, LocalsOK
  <2>2. Same BY <1>7, <1>pc, <1>0, <2>1 DEF Refuse, Saving, Unsaved, RowText
  <2> QED BY <1>7, <2>2, FileFrame DEF Refuse
<1>8. ASSUME NEW c \in Client, Quote(c) PROVE FileInv'
  <2>1. Same BY <1>8, <1>pc, <1>0 DEF Quote, Saving, Unsaved, RowText
  <2> QED BY <1>8, <2>1, FileFrame DEF Quote
<1>9. ASSUME NEW c \in Client, LockItem(c) PROVE FileInv'
  <2>1. Same BY <1>9, <1>pc, <1>0 DEF LockItem, Saving, Unsaved, RowText
  <2> QED BY <1>9, <2>1, FileFrame DEF LockItem
<1>10. ASSUME NEW c \in Client, Seek(c) PROVE FileInv'
  <2>1. Same BY <1>10, <1>pc, <1>0 DEF Seek, Saving, Unsaved, RowText
  <2> QED BY <1>10, <2>1, FileFrame DEF Seek
<1>11. ASSUME NEW c \in Client, PutText(c) PROVE FileInv'
  <2>1. pc[c] = "put" /\ pc' = [pc EXCEPT ![c] = AfterPut(c)] /\ UNCHANGED <<cmd, text, todo>>
    BY <1>11 DEF PutText
  <2>2. AfterPut(c) \in {"leave", "row", "open", "reply"} BY DEF AfterPut
  <2>3. Unsaved(c) => AfterPut(c) = "open"
    <3>1. cmd[c].op = "show" => cmd[c] = Show BY <1>pc, CmdType
    <3>2. Unsaved(c) => cmd[c] # Show BY <1>0, <2>1 DEF RowText, Unsaved
    <3> QED BY <3>1, <3>2 DEF Unsaved, AfterPut
  <2>4. Same BY <1>pc, <1>0, <2>1, <2>2, <2>3 DEF Saving, Unsaved, RowText
  <2> QED BY <1>11, <2>4, FileFrame DEF PutText
<1>12. ASSUME NEW c \in Client, Reply(c) PROVE FileInv'
  <2>1. Same BY <1>12, <1>pc, <1>0 DEF Reply, Saving, Unsaved, RowText
  <2> QED BY <1>12, <2>1, FileFrame DEF Reply
<1>13. ASSUME NEW c \in Client, Clear(c) PROVE FileInv'
  <2>1. Same BY <1>13, <1>pc, <1>0 DEF Clear, Saving, Unsaved, RowText
  <2> QED BY <1>13, <2>1, FileFrame DEF Clear
<1>14. ASSUME NEW c \in Client, Finish(c) PROVE FileInv'
  <2>1. Same BY <1>14, <1>pc, <1>0 DEF Finish, Saving, Unsaved, RowText
  <2> QED BY <1>14, <2>1, FileFrame DEF Finish
<1>15. ASSUME NEW c \in Client, Uncount(c) PROVE FileInv'
  <2>1. Same BY <1>15, <1>pc, <1>0 DEF Uncount, Saving, Unsaved, RowText
  <2> QED BY <1>15, <2>1, FileFrame DEF Uncount
<1>16. ASSUME NEW c \in Client, Farewell(c) PROVE FileInv'
  <2>1. Same BY <1>16, <1>pc, <1>0 DEF Farewell, Saving, Unsaved, RowText
  <2> QED BY <1>16, <2>1, FileFrame DEF Farewell
<1>17. ASSUME NEW c \in Client, Unseat(c) PROVE FileInv'
  <2>1. Same BY <1>17, <1>pc, <1>0 DEF Unseat, Saving, Unsaved, RowText
  <2> QED BY <1>17, <2>1, FileFrame DEF Unseat
<1>18. ASSUME NEW c \in Client, Wipe(c) PROVE FileInv'
  <2>1. Same BY <1>18, <1>pc, <1>0 DEF Wipe, Saving, Unsaved, RowText
  <2> QED BY <1>18, <2>1, FileFrame DEF Wipe
<1>19. ASSUME NEW c \in Client, Exit(c) PROVE FileInv'
  <2>1. Same BY <1>19, <1>pc, <1>0 DEF Exit, Saving, Unsaved, RowText
  <2> QED BY <1>19, <2>1, FileFrame DEF Exit
<1>20. ASSUME NEW c \in Client, ReadLine(c) PROVE FileInv'
  <2>1. PICK r : pc' = [pc EXCEPT ![c] = Entry(r)] /\ cmd' = [cmd EXCEPT ![c] = r] BY <1>20 DEF ReadLine
  <2>2. Entry(r) \in {"enter", "seek", "quote"} /\ (Entry(r) = "seek" => r # Show)
    BY CmdType DEF Entry
  <2>3. pc[c] = "read" /\ todo' = [todo EXCEPT ![c] = ShowOrder] /\ text' = [text EXCEPT ![c] = <<"invalid">>]
    BY <1>20 DEF ReadLine
  <2>4. Same BY <2>1, <2>2, <2>3, <1>pc, <1>0 DEF Saving, Unsaved, RowText
  <2> QED BY <1>20, <2>4, FileFrame DEF ReadLine
<1>21. ASSUME NEW c \in Client, ReadExit(c) PROVE FileInv'
  <2>1. Same BY <1>21, <1>pc, <1>0 DEF ReadExit, Saving, Unsaved, RowText
  <2> QED BY <1>21, <2>1, FileFrame DEF ReadExit
<1>22. ASSUME NEW c \in Client, Hangup(c) PROVE FileInv'
  <2>1. Same BY <1>22, <1>pc, <1>0 DEF Hangup, Saving, Unsaved, RowText
  <2> QED BY <1>22, <2>1, FileFrame DEF Hangup
<1>23. ASSUME NEW c \in Client, Reset(c) PROVE FileInv'
  <2>1. Same BY <1>23, <1>pc, <1>0 DEF Reset, Saving, Unsaved, RowText
  <2> QED BY <1>23, <2>1, FileFrame DEF Reset
<1>24. ASSUME StartThread PROVE FileInv'
  <2>1. pc[conn] = "off" BY <1>24 DEF StartThread, SyncInv
  <2>2. Same BY <1>24, <2>1, <1>pc, <1>0 DEF StartThread, Saving, Unsaved, RowText
  <2> QED BY <1>24, <2>2, FileFrame DEF StartThread
<1>25. ASSUME UNCHANGED <<stock, file, buf, mixed, pc, cmd, text, todo>> PROVE FileInv'
  <2>1. Same BY <1>25, <1>0 DEF Saving, Unsaved, RowText
  <2> QED BY <1>25, <2>1, FileFrame
<1>26. ASSUME NEW c \in Client, Accept(c) \/ BrokenPipe(c) PROVE FileInv'
  BY <1>25, <1>26 DEF Accept, BrokenPipe
<1>27. ASSUME MainLockState \/ ExitDone \/ UNCHANGED vars PROVE FileInv'
  BY <1>25, <1>27 DEF MainLockState, ExitDone
<1>28. ASSUME NEW c \in Client, OpenFile(c) \/ DumpRow(c) \/ CloseFile(c) \/ FlushStream(c) \/ Store(c)
      PROVE  FileInv'
  BY <1>28, FileOpens, FileDumps, FileCloses, FileFlushes, FileLags
<1> QED
  BY <1>1, <1>2, <1>3, <1>4, <1>5, <1>6, <1>7, <1>8, <1>9, <1>10, <1>11, <1>12, <1>13, <1>14, <1>15, <1>16, <1>17, <1>18, <1>19, <1>20, <1>21, <1>22, <1>23, <1>24, <1>26, <1>27, <1>28
     DEF Next, MainStep, Exiting, Step, Outside

\* Whenever no save is under way or due, stock.txt has every trade, for every
\* number of connections, unless the last save overlapped another one or the
\* assignment of a trade.
THEOREM FileLagsOnlyByOverlap == Spec => []NoLagWithoutOverlap
<1>1. Init => FileInv
  BY DEF Init, FileInv, NoLagWithoutOverlap, Image, Saving, RowText
<1>2. FileInv => NoLagWithoutOverlap BY DEF FileInv
<1> QED BY <1>1, <1>2, InitTypes, TypeStep, SyncAlways, FileStep, PTL DEF Spec

-----------------------------------------------------------------------------
\* As long as the clients take turns the server is the inventory it promises.

\* A row tells the amount its item has.
Current(s) == \A k \in 1..Len(s) : s[k] = Row(ShowOrder[k], stock[ShowOrder[k]])

Traded(r) == IF r.op = "buy" THEN stock[r.id] - r.qty ELSE stock[r.id] + r.qty

\* What show_stock has put into response so far is true of the inventory as
\* it is, and so is the row it is about to put there.
ListingSoFar(c) == cmd[c] = Show =>
    /\ pc[c] \notin {"open", "dump", "close"}
    /\ pc[c] \in {"enter", "lockState", "openMutex"} => response = <<>> /\ todo[c] = ShowOrder
    /\ pc[c] = "row" => Remains(todo[c], ShowOrder, Len(response))
    /\ pc[c] \in {"seek", "put"} =>
          /\ Remains(todo[c], ShowOrder, Len(response) + 1)
          /\ LET i == ShowOrder[Len(response) + 1] IN text[c] = Row(i, stock[i])
    /\ pc[c] \in {"leave", "closeState", "reply"} => Len(response) = Len(ShowOrder)
    /\ pc[c] \in {"row", "seek", "put", "leave", "closeState", "reply"} => Current(response)

\* What the other requests have there, and what a trade is about to store.
AnswerSoFar(c) == cmd[c] \notin {Show, Eof} =>
    /\ pc[c] \in {"quote", "lockItem", "store", "seek", "put"} => response = <<>>
    /\ pc[c] \in {"seek", "put"} /\ cmd[c] = Junk => text[c] = <<"invalid">>
    /\ pc[c] \in {"lockItem", "store"} => upd[c] = Traded(cmd[c])
    /\ pc[c] \in {"open", "dump", "close"} => cmd[c] \in Trades
    /\ pc[c] \in {"open", "dump", "close", "reply"} => response = <<text[c]>>

\* Where a thread can be with a request in hand and without.
Placed(c) ==
    /\ cmd[c] = Eof =>
          pc[c] \in {"off", "read", "open", "dump", "close", "finish", "uncount", "gone",
                     "farewell", "unseat", "wipe", "exit", "exited"}
    /\ pc[c] \in {"off", "finish", "uncount", "gone", "farewell", "unseat", "wipe"} => cmd[c] = Eof
    /\ pc[c] = "put" => pos[c] = Len(response) + 1
    /\ pc[c] \in {"farewell", "unseat", "wipe"} => response = <<>>

Honest(c) == ListingSoFar(c) /\ AnswerSoFar(c) /\ Placed(c)
AllHonest == \A c \in Client : Honest(c)

\* Between two requests the response buffer is empty.
Clean == (\A c \in Client : ~Serving(c)) => response = <<>>

Follows  == Inventory!Next \/ UNCHANGED Inventory!vars
Still(c) == \A d \in Client : d # c => Call(d)' = Call(d)

LEMMA PutAppends ==
    ASSUME NEW s \in Seq(Token), NEW t \in Token
    PROVE  Put(s, Len(s) + 1, t) = Append(s, t)
<1>1. Len(s) \in Nat
  BY LenProperties
<1>2. Put(s, Len(s) + 1, t) = Append(SubSeq(s, 1, Len(s)), t)
  BY <1>1 DEF Put
<1> QED
  BY <1>2, SubSeqFull

LEMMA Kinds ==
    ASSUME TypeOK, NEW c \in Client
    PROVE  /\ cmd[c] \in Cmd /\ (cmd[c].op = "show" <=> cmd[c] = Show)
           /\ cmd[c] \in Trades => cmd[c].op \in {"buy", "sell"} /\ cmd[c] # Show /\ cmd[c] # Eof
           /\ response \in Seq(Token) /\ Len(response) \in Nat /\ text[c] \in Token
           /\ todo[c] \in Seq(Item) /\ buf[c] \in Seq(Token) /\ Len(buf[c]) \in Nat
BY CmdType, LenProperties DEF TypeOK, TextType, ThreadType, FileType

\* A sequence of strictly increasing IDs that has every item is the one that
\* the answer to `show' is defined by.
LEMMA OneOrder ==
    ASSUME NEW n \in Nat, NEW s \in [1..n -> Item], NEW t \in [1..n -> Item],
           \A j, k \in 1..n : j < k => s[j] < s[k],
           \A j, k \in 1..n : j < k => t[j] < t[k],
           \A i \in Item : \E j \in 1..n : s[j] = i,
           \A i \in Item : \E j \in 1..n : t[j] = i
    PROVE  s = t
<1>1. /\ \A k \in 1..n : s[k] \in Item /\ t[k] \in Item /\ s[k] \in Int /\ t[k] \in Int
      /\ 1..n \subseteq Nat
  <2>1. Item \subseteq Int /\ 1..n \subseteq Nat
    BY ConstantsOK
  <2>2. \A k \in 1..n : s[k] \in Item /\ t[k] \in Item
    OBVIOUS
  <2> QED
    BY <2>1, <2>2
<1> DEFINE T == {k \in 1..n : s[k] # t[k]}
<1>2. ASSUME NEW k \in 1..n, \A m \in 1..n : m < k => s[m] = t[m]
      PROVE  ~(s[k] < t[k]) /\ ~(t[k] < s[k])
  <2>1. ASSUME s[k] < t[k] PROVE FALSE
    <3>1. PICK j \in 1..n : t[j] = s[k]
      BY <1>1
    <3>2. j \in Int /\ k \in Int /\ (j < k \/ j = k \/ k < j)
      BY <1>1
    <3>3. CASE j < k
      <4>1. s[j] = t[j] /\ s[j] < s[k]
        BY <1>2, <3>3
      <4> QED
        BY <1>1, <3>1, <4>1
    <3>4. CASE k < j
      <4>1. t[k] < t[j]
        BY <3>4
      <4> QED
        BY <1>1, <2>1, <3>1, <4>1
    <3>5. CASE j = k
      BY <1>1, <2>1, <3>1, <3>5
    <3> QED
      BY <3>2, <3>3, <3>4, <3>5
  <2>2. ASSUME t[k] < s[k] PROVE FALSE
    <3>1. PICK j \in 1..n : s[j] = t[k]
      BY <1>1
    <3>2. j \in Int /\ k \in Int /\ (j < k \/ j = k \/ k < j)
      BY <1>1
    <3>3. CASE j < k
      <4>1. s[j] = t[j] /\ t[j] < t[k]
        BY <1>2, <3>3
      <4> QED
        BY <1>1, <3>1, <4>1
    <3>4. CASE k < j
      <4>1. s[k] < s[j]
        BY <3>4
      <4> QED
        BY <1>1, <2>2, <3>1, <4>1
    <3>5. CASE j = k
      BY <1>1, <2>2, <3>1, <3>5
    <3> QED
      BY <3>2, <3>3, <3>4, <3>5
  <2> QED
    BY <2>1, <2>2
<1>3. ASSUME T # {} PROVE FALSE
  <2>1. T \subseteq Nat
    BY <1>1
  <2>2. PICK k \in T : \A m \in T : <<m, k>> \notin OpToRel(<, Nat)
    <3> HIDE DEF T
    <3> QED
      BY <1>3, <2>1, WFMin, NatLessThanWellFounded
  <2>3. \A m \in T : ~(m < k)
    <3> HIDE DEF T
    <3> QED
      BY <2>1, <2>2 DEF OpToRel
  <2>4. ~(s[k] < t[k]) /\ ~(t[k] < s[k])
    BY <1>2, <2>3
  <2>5. k \in 1..n /\ s[k] # t[k]
    BY <2>2
  <2> QED
    BY <1>1, <2>4, <2>5
<1>4. \A k \in 1..n : s[k] = t[k]
  BY <1>3
<1> QED
  BY <1>4

\* show_stock walks the inventory in the order of the IDs.
LEMMA SameListing ==
    Inventory!Listing(stock)
        = [k \in 1..Len(ShowOrder) |-> Row(ShowOrder[k], stock[ShowOrder[k]])]
<1> DEFINE n == Len(ShowOrder)
           Rising(s) == \A j, k \in DOMAIN s : j < k => s[j] < s[k]
           ids == CHOOSE s \in [1..Cardinality(Item) -> Item] : Rising(s)
<1>1. /\ n \in Nat /\ ShowOrder \in [1..n -> Item] /\ Item \subseteq Int
      /\ \A i \in Item : \E j \in 1..n : ShowOrder[j] = i
      /\ \A j, k \in 1..n : j < k => ShowOrder[j] < ShowOrder[k]
  BY ConstantsOK, LenProperties
<1> HIDE DEF n
<1>2. \A s \in [1..n -> Item] : Rising(s) => s \in Injection(1..n, Item)
  <2> SUFFICES ASSUME NEW s \in [1..n -> Item], Rising(s), NEW j \in 1..n, NEW k \in 1..n,
                      s[j] = s[k]
               PROVE  j = k
    BY DEF Injection, IsInjective
  <2>1. s[j] \in Int /\ s[k] \in Int /\ j \in Int /\ k \in Int
    <3>1. s[j] \in Item /\ s[k] \in Item /\ 1..n \subseteq Int
      BY <1>1
    <3> QED
      BY <1>1, <3>1
  <2>2. (j < k => s[j] < s[k]) /\ (k < j => s[k] < s[j])
    OBVIOUS
  <2> QED
    BY <2>1, <2>2
<1>3. ShowOrder \in Bijection(1..n, Item)
  <2>1. ShowOrder \in Injection(1..n, Item)
    BY <1>1, <1>2
  <2> QED
    BY <1>1, <2>1 DEF Bijection, Surjection
<1>4. IsFiniteSet(1..n) /\ Cardinality(1..n) = n
  BY <1>1, FS_Interval
<1>5. IsFiniteSet(Item) /\ Cardinality(Item) = n
  <2>1. ExistsBijection(1..n, Item)
    BY <1>3 DEF ExistsBijection
  <2> QED
    BY <1>4, <2>1, FS_Bijection
<1>6. ids \in [1..n -> Item] /\ Rising(ids)
  BY <1>1, <1>5
<1> HIDE DEF ids
<1>7. \A i \in Item : \E j \in 1..n : ids[j] = i
  <2>1. ids \in Surjection(1..n, Item)
    BY <1>2, <1>4, <1>5, <1>6, FS_Injection
  <2> QED
    BY <2>1 DEF Surjection
<1>8. ids = ShowOrder
  BY <1>1, <1>6, <1>7, OneOrder
<1>9. Inventory!Listing(stock) = [k \in 1..n |-> <<"row", ids[k], stock[ids[k]]>>]
  <2>1. Inventory!Cardinality(Item) = Cardinality(Item)
    BY DEF Cardinality, Inventory!Cardinality
  <2> QED
    BY <1>5, <2>1 DEF Inventory!Listing, ids
<1> QED
  BY <1>8, <1>9 DEF Row, n

LEMMA ThreadStutters ==
    ASSUME UNCHANGED <<stock, got>>, \A c \in Client : Call(c)' = Call(c)
    PROVE  Follows
BY DEF Follows, Inventory!vars

\* A step that changes the state of the request of one client.
LEMMA CallChanges ==
    ASSUME NEW c \in Client, Still(c), NEW v, Call(c)' = v
    PROVE  [d \in Client |-> Call(d)]' = [[d \in Client |-> Call(d)] EXCEPT ![c] = v]
BY DEF Still

LEMMA Replies ==
    ASSUME NEW c \in Client, Still(c), NEW s, UNCHANGED got, Call(c)' = Inventory!Done(s)
    PROVE  Inventory!Reply(c, s)
BY CallChanges DEF Inventory!Reply

LEMMA Performs ==
    ASSUME NEW c \in Client, NEW r, Call(c) = Inventory!Pending(r),
           \/ Inventory!List(c, r) \/ Inventory!Trade(c, r) \/ Inventory!Refuse(c, r)
           \/ Inventory!UnknownItem(c, r) \/ Inventory!Reject(c, r)
    PROVE  Follows
<1>1. [d \in Client |-> Call(d)][c].phase = "pending" /\ [d \in Client |-> Call(d)][c].req = r
  BY DEF Inventory!Pending
<1>2. Inventory!Perform(c)
  BY <1>1 DEF Inventory!Perform
<1> QED
  BY <1>2 DEF Follows, Inventory!Next

\* The kinds of request, and what is known of the one in hand.
LEMMA HonestKinds ==
    ASSUME TypeOK, NEW c \in Client
    PROVE  /\ cmd[c] \in Trades \/ cmd[c] = Show \/ cmd[c] = Junk \/ cmd[c] = Eof
           /\ cmd[c] \in Trades => cmd[c].op \in {"buy", "sell"}
           /\ cmd[c] = Show => cmd[c].op = "show"
           /\ cmd[c] = Junk => cmd[c].op = "junk"
           /\ cmd[c] = Eof => cmd[c].op = "eof"
BY CmdType DEF TypeOK, ThreadType

\* What is known of a thread's request outlasts a step of another one: with a
\* request in hand because nobody else has touched the response or the
\* inventory, and without one because nothing is promised.
LEMMA Stands ==
    ASSUME NEW d \in Client, Honest(d),
           pc'[d] = pc[d], cmd'[d] = cmd[d], text'[d] = text[d], pos'[d] = pos[d],
           todo'[d] = todo[d], upd'[d] = upd[d],
           Serving(d) => UNCHANGED <<response, stock>>
    PROVE  Honest(d)' /\ Call(d)' = Call(d)
<1>0. Show # Eof /\ Junk # Eof BY CmdType
<1>1. CASE Serving(d)
  <2>1. UNCHANGED <<response, stock>> BY <1>1
  <2>2. (Current(response)' <=> Current(response)) /\ Traded(cmd[d])' = Traded(cmd[d])
    BY <2>1 DEF Current, Traded
  <2>3. ListingSoFar(d)' BY <2>1, <2>2 DEF Honest, ListingSoFar, Remains
  <2>4. AnswerSoFar(d)' BY <2>1, <2>2 DEF Honest, AnswerSoFar
  <2>5. Placed(d)' BY <2>1 DEF Honest, Placed
  <2>6. Said(d)' = Said(d) BY <2>1 DEF Said
  <2>7. (Unasked(d)' <=> Unasked(d)) /\ (Performed(d)' <=> Performed(d))
    BY DEF Unasked, Performed
  <2> QED BY <2>3, <2>4, <2>5, <2>6, <2>7 DEF Honest, Call
<1>2. CASE ~Serving(d)
  <2>1. /\ pc[d] = "read" \/ cmd[d] = Eof
        /\ pc[d] \notin {"farewell", "unseat", "wipe"}
    BY <1>2 DEF Serving
  <2>2. cmd[d] = Eof => pc[d] # "put" BY DEF Honest, Placed
  <2>3. Placed(d)' BY <2>1, <2>2 DEF Honest, Placed
  <2>4. ListingSoFar(d)' /\ AnswerSoFar(d)' BY <1>0, <2>1 DEF ListingSoFar, AnswerSoFar
  <2>5. Unasked(d) /\ Unasked(d)' BY <2>1 DEF Unasked
  <2> QED BY <2>3, <2>4, <2>5 DEF Honest, Call
<1> QED BY <1>1, <1>2

\* What a step of thread c leaves alone.
LEMMA LocalStep ==
    ASSUME TypeOK, LocalsOK, AllHonest, NEW c \in Client, Step(c) \/ Outside(c),
           NEW d \in Client, d # c
    PROVE  /\ pc'[d] = pc[d] /\ cmd'[d] = cmd[d] /\ text'[d] = text[d] /\ pos'[d] = pos[d]
           /\ todo'[d] = todo[d] /\ upd'[d] = upd[d]
           /\ UNCHANGED <<response, stock>> \/ Serving(c)
<1> USE DEF At, Alive, Goto, Say, trading, sems, reply, disk, conns
<1>ty. /\ pc \in [Client -> Pcs] /\ cmd \in [Client -> Cmd] /\ text \in [Client -> Token]
       /\ pos \in [Client -> Nat \ {0}] /\ todo \in [Client -> Seq(Item)] /\ upd \in [Client -> 0..IntMax]
  BY DEF TypeOK, ThreadType, TextType, TradeType
<1>h. cmd[c] = Eof => pc[c] \notin {"put", "clear", "store"} BY DEF AllHonest, Honest, Placed
<1>1. CASE Enter(c) BY <1>1, <1>ty DEF Enter
<1>2. CASE LockState(c) BY <1>2, <1>ty DEF LockState
<1>3. CASE OpenMutex(c) BY <1>3, <1>ty DEF OpenMutex
<1>4. CASE ReadRow(c) BY <1>4, <1>ty DEF ReadRow
<1>5. CASE Leave(c) BY <1>5, <1>ty DEF Leave
<1>6. CASE CloseState(c) BY <1>6, <1>ty DEF CloseState
<1>7. CASE Refuse(c) BY <1>7, <1>ty DEF Refuse
<1>8. CASE Quote(c) BY <1>8, <1>ty DEF Quote
<1>9. CASE LockItem(c) BY <1>9, <1>ty DEF LockItem
<1>10. CASE Store(c)
  <2>1. Serving(c) BY <1>10, <1>h DEF Store, Serving
  <2> QED BY <1>10, <1>ty, <2>1 DEF Store
<1>11. CASE Seek(c) BY <1>11, <1>ty DEF Seek
<1>12. CASE PutText(c)
  <2>1. Serving(c) BY <1>12, <1>h DEF PutText, Serving
  <2> QED BY <1>12, <1>ty, <2>1 DEF PutText
<1>13. CASE Reply(c) BY <1>13, <1>ty DEF Reply
<1>14. CASE Clear(c)
  <2>1. Serving(c) BY <1>14, <1>h DEF Clear, Serving
  <2> QED BY <1>14, <1>ty, <2>1 DEF Clear
<1>15. CASE OpenFile(c) BY <1>15, <1>ty DEF OpenFile
<1>16. CASE DumpRow(c) BY <1>16, <1>ty DEF DumpRow
<1>17. CASE CloseFile(c) BY <1>17, <1>ty DEF CloseFile
<1>18. CASE Finish(c) BY <1>18, <1>ty DEF Finish
<1>19. CASE Uncount(c) BY <1>19, <1>ty DEF Uncount
<1>20. CASE Farewell(c) BY <1>20, <1>ty DEF Farewell
<1>21. CASE Unseat(c) BY <1>21, <1>ty DEF Unseat
<1>22. CASE Wipe(c)
  <2>1. Serving(c) BY <1>22, <1>h DEF Wipe, Serving
  <2> QED BY <1>22, <1>ty, <2>1 DEF Wipe
<1>23. CASE Exit(c) BY <1>23, <1>ty DEF Exit
<1>24. CASE Accept(c) BY <1>24, <1>ty DEF Accept
<1>25. CASE ReadLine(c)
  <2>1. PICK r : cmd' = [cmd EXCEPT ![c] = r] /\ pc' = [pc EXCEPT ![c] = Entry(r)] BY <1>25 DEF ReadLine
  <2> QED BY <1>25, <2>1, <1>ty DEF ReadLine
<1>26. CASE ReadExit(c) BY <1>26, <1>ty DEF ReadExit
<1>27. CASE Hangup(c) BY <1>27, <1>ty DEF Hangup
<1>28. CASE Reset(c) BY <1>28, <1>ty DEF Reset
<1>29. CASE BrokenPipe(c) BY <1>29, <1>ty DEF BrokenPipe
<1> QED
  BY ONLY Step(c) \/ Outside(c), <1>1, <1>2, <1>3, <1>4, <1>5, <1>6, <1>7, <1>8, <1>9, <1>10, <1>11, <1>12, <1>13, <1>14, <1>15, <1>16, <1>17, <1>18, <1>19, <1>20, <1>21, <1>22, <1>23, <1>24, <1>25, <1>26, <1>27, <1>28, <1>29
  DEF Step, Outside

LEMMA OthersStand ==
    ASSUME TypeOK, LocalsOK, OneRequest, AllHonest, NEW c \in Client, Step(c) \/ Outside(c),
           NEW d \in Client, d # c
    PROVE  Honest(d)' /\ Call(d)' = Call(d) /\ (Serving(d)' <=> Serving(d))
<1>1. /\ pc'[d] = pc[d] /\ cmd'[d] = cmd[d] /\ text'[d] = text[d] /\ pos'[d] = pos[d]
      /\ todo'[d] = todo[d] /\ upd'[d] = upd[d]
      /\ UNCHANGED <<response, stock>> \/ Serving(c)
  BY LocalStep
<1>2. Serving(d) => UNCHANGED <<response, stock>> BY <1>1 DEF OneRequest
<1>3. Honest(d) BY DEF AllHonest
<1>4. Honest(d)' /\ Call(d)' = Call(d) BY <1>1, <1>2, <1>3, Stands
<1>5. Serving(d)' <=> Serving(d) BY <1>1 DEF Serving
<1> QED BY <1>4, <1>5

\* show_stock up to its last row: the request stays pending.
LEMMA HonestShow ==
    ASSUME TypeOK, LocalsOK, AllHonest, NEW c \in Client, Still(c),
           Enter(c) \/ LockState(c) \/ OpenMutex(c) \/ ReadRow(c) \/ Leave(c) \/ CloseState(c)
    PROVE  Honest(c)' /\ Follows
<1>1. /\ UNCHANGED <<response, got, stock, cmd, pos>> /\ cmd[c] = Show
      /\ cmd[c].op = "show" /\ cmd[c] # Eof /\ cmd[c] \notin Trades
  BY CmdType DEF Enter, LockState, OpenMutex, ReadRow, Leave, CloseState, At, trading, reply,
         LocalsOK
<1>2. \/ pc[c] \in {"enter", "lockState"} /\ pc'[c] \in {"lockState", "openMutex"} /\ todo' = todo
      \/ pc[c] = "openMutex" /\ pc'[c] = (IF todo[c] = <<>> THEN "leave" ELSE "row") /\ todo' = todo
      \/ pc[c] = "row" /\ pc'[c] = "seek" /\ todo'[c] = Tail(todo[c])
              /\ text'[c] = Row(Head(todo[c]), stock[Head(todo[c])])
      \/ pc[c] = "leave" /\ pc'[c] = "closeState"
      \/ pc[c] = "closeState" /\ pc'[c] = "reply"
  BY DEF Enter, LockState, OpenMutex, ReadRow, Leave, CloseState, At, Goto, Say, TypeOK,
         ThreadType, TextType
<1>3. Current(response)' <=> Current(response)
  BY <1>1 DEF Current
<1>4. ListingSoFar(c)
  BY DEF AllHonest, Honest
<1>5. /\ Remains(ShowOrder, ShowOrder, 0) /\ (ShowOrder = <<>> => Len(ShowOrder) = 0)
      /\ Len(<<>>) = 0 /\ Current(<<>>)
  BY WalkEnds, EmptySeq, ConstantsOK DEF Current
<1>6. ListingSoFar(c)'
  <2>1. CASE pc[c] \in {"enter", "lockState"}
    BY <1>1, <1>2, <1>4, <2>1 DEF ListingSoFar
  <2>2. CASE pc[c] = "openMutex"
    <3>1. response = <<>> /\ todo[c] = ShowOrder
      BY <1>1, <1>4, <2>2 DEF ListingSoFar
    <3>2. Remains(todo'[c], ShowOrder, Len(response'))
      BY <1>1, <1>2, <1>5, <2>2, <3>1
    <3>3. todo[c] = <<>> => Len(response') = Len(ShowOrder)
      BY <1>1, <1>5, <3>1
    <3>4. Current(response)'
      BY <1>3, <1>5, <3>1
    <3> QED
      BY <1>1, <1>2, <2>2, <3>2, <3>3, <3>4 DEF ListingSoFar, Remains
  <2>3. CASE pc[c] = "row"
    <3> DEFINE n == Head(todo[c])
    <3>1. Remains(todo[c], ShowOrder, Len(response)) /\ todo[c] # <<>> /\ Current(response)
      BY <1>1, <1>4, <2>3 DEF ListingSoFar, LocalsOK
    <3>2. /\ n = ShowOrder[Len(response) + 1]
          /\ Remains(Tail(todo[c]), ShowOrder, Len(response) + 1)
      BY <3>1, Kinds, ConstantsOK, NextNode
    <3>3. pc'[c] = "seek" /\ todo'[c] = Tail(todo[c]) /\ text'[c] = Row(n, stock[n])
      BY <1>2, <2>3
    <3> QED
      BY <1>1, <1>3, <3>1, <3>2, <3>3 DEF ListingSoFar, Remains
  <2>4. CASE pc[c] \in {"leave", "closeState"}
    <3>1. Current(response)' /\ Len(response') = Len(ShowOrder)
      BY <1>1, <1>3, <1>4, <2>4 DEF ListingSoFar
    <3> QED
      BY <1>2, <2>4, <3>1 DEF ListingSoFar
  <2> QED
    BY <1>2, <2>1, <2>2, <2>3, <2>4
<1>7. Honest(c)'
  BY <1>1, <1>2, <1>6 DEF Honest, AnswerSoFar, Placed
<1>8. CASE pc[c] = "openMutex" /\ pc'[c] = "leave"
  <2>1. Call(c) = Inventory!Pending(cmd[c])
    BY <1>1, <1>8 DEF Call, Unasked, Performed, Inventory!Pending
  <2>2. Said(c)' = Inventory!Listing(stock)
    BY <1>1, SameListing DEF Said
  <2>3. Call(c)' = Inventory!Done(Inventory!Listing(stock))
    BY <1>1, <1>8, <2>2 DEF Call, Unasked, Performed, Inventory!Done
  <2>4. Inventory!List(c, cmd[c])
    BY <1>1, <2>3, Replies DEF Inventory!List
  <2> QED
    BY <1>7, <2>1, <2>4, Performs
<1>9. CASE ~(pc[c] = "openMutex" /\ pc'[c] = "leave")
  <2>1. Said(c)' = Said(c)
    BY <1>1 DEF Said
  <2>2. Performed(c)' <=> Performed(c)
    BY <1>1, <1>2, <1>9 DEF Performed
  <2>3. Unasked(c)' <=> Unasked(c)
    BY <1>1, <1>2 DEF Unasked
  <2>4. Call(c)' = Call(c)
    BY <1>1, <2>1, <2>2, <2>3 DEF Call
  <2> QED
    BY <1>1, <1>7, <2>4, ThreadStutters DEF Still
<1> QED
  BY <1>8, <1>9

\* process_stock: a refusal and a success take effect, a quote waits.
LEMMA HonestTrade ==
    ASSUME TypeOK, LocalsOK, AllHonest, NEW c \in Client, Still(c),
           Refuse(c) \/ Quote(c) \/ LockItem(c) \/ Store(c)
    PROVE  Honest(c)' /\ Follows
<1> DEFINE r == cmd[c]
<1>1. /\ UNCHANGED <<response, got, cmd>> /\ r \in Trades /\ r.op \in {"buy", "sell"}
      /\ r # Show /\ r # Eof /\ r # Junk
      /\ r.id \in Ids /\ r.qty \in Qty /\ pc[c] \in {"quote", "lockItem", "store"}
  BY CmdType DEF Refuse, Quote, LockItem, Store, At, trading, reply, LocalsOK
<1>2. Call(c) = Inventory!Pending(r)
  BY <1>1 DEF Call, Unasked, Performed, Inventory!Pending
<1>3. ASSUME pc'[c] = "seek" PROVE Call(c)' = Inventory!Done(<<text'[c]>>) /\ Honest(c)'
  <2>1. Call(c)' = Inventory!Done(<<text'[c]>>)
    BY <1>1, <1>3 DEF Call, Unasked, Performed, Said, Inventory!Done
  <2>2. response = <<>> BY <1>1 DEF AllHonest, Honest, AnswerSoFar
  <2> QED
    BY <1>1, <1>3, <2>1, <2>2 DEF Honest, ListingSoFar, AnswerSoFar, Placed
<1>4. r.id \in Item => stock[r.id] \in 0..IntMax
  BY DEF TypeOK, TradeType
<1>5. IntMax \in Nat /\ r.qty \in Int /\ -(IntMax + 1) <= r.qty /\ r.qty <= IntMax
  <2>1. r.qty \in -(IntMax + 1)..IntMax /\ IntMax \in Nat
    BY <1>1, ConstantsOK
  <2> QED
    BY <2>1
<1>6. Traded(r) = Inventory!Balance(r)
  BY DEF Traded, Inventory!Balance
<1>7. CASE Refuse(c)
  <2>1. UNCHANGED stock /\ pc'[c] = "seek" /\ Honest(c)'
    BY <1>3, <1>7 DEF Refuse, Goto, trading, TypeOK, ThreadType
  <2>2. CASE r.id \notin Item /\ Say(c, <<"none">>)
    <3>1. text'[c] = <<"none">>
      BY <2>2 DEF Say, TypeOK, TextType
    <3>2. <<<<"none">>>> = [k \in 1..1 |-> <<"none">>] /\ 1 \in 1..2
      OBVIOUS
    <3>3. Inventory!Reply(c, [k \in 1..1 |-> <<"none">>])
      BY <1>1, <1>3, <2>1, <3>1, <3>2, Replies
    <3>4. Inventory!UnknownItem(c, r)
      BY <1>1, <2>1, <2>2, <3>2, <3>3 DEF Inventory!UnknownItem
    <3> QED
      BY <1>2, <2>1, <3>4, Performs
  <2>3. CASE r.id \in Item /\ Refused(r) /\ Say(c, <<"short">>)
    <3>1. text'[c] = <<"short">>
      BY <2>3 DEF Say, TypeOK, TextType
    <3>2. Traded(r) \notin 0..IntMax
      <4>1. Wrap(Traded(r)) < 0
        BY <2>3 DEF Refused, Updated, Traded
      <4> QED
        BY <1>5, <4>1 DEF Wrap
    <3>3. Inventory!Reply(c, <<<<"short">>>>)
      BY <1>1, <1>3, <2>1, <3>1, Replies
    <3>4. Inventory!Refuse(c, r)
      BY <1>1, <1>6, <2>1, <2>3, <3>2, <3>3 DEF Inventory!Refuse
    <3> QED
      BY <1>2, <2>1, <3>4, Performs
  <2> QED
    BY <1>7, <2>2, <2>3 DEF Refuse
<1>8. CASE Quote(c) \/ LockItem(c)
  <2>1. UNCHANGED stock /\ pc'[c] \in {"lockItem", "store"}
    BY <1>8 DEF Quote, LockItem, Goto, TypeOK, ThreadType
  <2>2. Call(c)' = Call(c)
    BY <1>1, <1>2, <2>1 DEF Call, Unasked, Performed, Inventory!Pending
  <2>3. Traded(r)' = Traded(r)
    BY <1>1, <2>1 DEF Traded
  <2>4. upd'[c] = Traded(r)
    <3>1. CASE Quote(c)
      <4>1. upd'[c] = Updated(r) /\ r.id \in Item /\ ~Refused(r)
        BY <3>1 DEF Quote, TypeOK, TradeType
      <4> QED
        BY <1>1, <4>1, UpdatedType DEF Traded
    <3>2. CASE LockItem(c)
      BY <1>1, <3>2 DEF LockItem, AllHonest, Honest, AnswerSoFar, At
    <3> QED
      BY <1>8, <3>1, <3>2
  <2>5. response = <<>> BY <1>1 DEF AllHonest, Honest, AnswerSoFar
  <2>6. Honest(c)'
    BY <1>1, <2>1, <2>3, <2>4, <2>5 DEF Honest, ListingSoFar, AnswerSoFar, Placed
  <2> QED
    BY <1>1, <2>1, <2>2, <2>6, ThreadStutters DEF Still
<1>9. CASE Store(c)
  <2>1. /\ pc'[c] = "seek" /\ Honest(c)' /\ text'[c] = <<r.op>> /\ r.id \in Item
        /\ stock' = [stock EXCEPT ![r.id] = upd[c]] /\ pc[c] = "store"
    BY <1>3, <1>9 DEF Store, At, Goto, Say, LocalsOK, TypeOK, ThreadType, TextType
  <2>2. upd[c] = Traded(r) /\ upd[c] \in 0..IntMax
    BY <1>1, <2>1 DEF AllHonest, Honest, AnswerSoFar, TypeOK, TradeType
  <2>3. Inventory!Reply(c, <<<<r.op>>>>)
    BY <1>1, <1>3, <2>1, Replies
  <2>4. Inventory!Trade(c, r)
    BY <1>1, <1>6, <2>1, <2>2, <2>3 DEF Inventory!Trade
  <2> QED
    BY <1>2, <2>1, <2>4, Performs
<1> QED
  BY <1>7, <1>8, <1>9

\* strcat: the last row of a show is its answer, and the complaint about a
\* line that is none takes effect when it is on its way.
LEMMA HonestText ==
    ASSUME TypeOK, AllHonest, NEW c \in Client, Still(c), Seek(c) \/ PutText(c)
    PROVE  Honest(c)' /\ Follows
<1>1. /\ UNCHANGED <<got, stock, cmd, text, todo>>
      /\ \/ pc[c] = "seek" /\ pc'[c] = "put" /\ response' = response
            /\ pos'[c] = Len(response) + 1
         \/ /\ pc[c] = "put" /\ pc'[c] = AfterPut(c)
            /\ response' = Put(response, pos[c], text[c])
  BY DEF Seek, PutText, At, Goto, trading, TypeOK, ThreadType, TextType
<1>2. Honest(c)
  BY DEF AllHonest
<1>3. cmd[c] # Eof
  BY <1>1, <1>2 DEF Honest, Placed
<1>4. pc[c] = "put" => response' = Append(response, text[c])
  BY <1>1, <1>2, Kinds, PutAppends DEF Honest, Placed
<1>5. /\ Len(Append(response, text[c])) = Len(response) + 1
      /\ \A k \in 1..Len(response) : Append(response, text[c])[k] = response[k]
      /\ Append(response, text[c])[Len(response) + 1] = text[c]
      /\ Len(response) \in Nat
  BY Kinds, AppendProperties
<1>6. CASE cmd[c] = Show
  <2>1. /\ Current(response) /\ cmd[c].op = "show"
        /\ LET i == ShowOrder[Len(response) + 1] IN text[c] = Row(i, stock[i])
        /\ Remains(todo[c], ShowOrder, Len(response) + 1)
    BY <1>1, <1>2, <1>6, CmdType DEF Honest, ListingSoFar
  <2>2. Current(response)'
    <3>1. CASE pc[c] = "seek"
      BY <1>1, <2>1, <3>1 DEF Current
    <3>2. CASE pc[c] = "put"
      <4>1. \A k \in 1..Len(response') : k \in 1..Len(response) \/ k = Len(response) + 1
        BY <1>4, <1>5, <3>2
      <4> QED
        BY <1>1, <1>4, <1>5, <2>1, <3>2, <4>1 DEF Current
    <3> QED
      BY <1>1, <3>1, <3>2
  <2>3. pc[c] = "put" => pc'[c] = IF todo[c] = <<>> THEN "leave" ELSE "row"
    BY <1>1, <2>1 DEF AfterPut
  <2>8. pc[c] = "put" => Len(response') = Len(response) + 1
    BY <1>4, <1>5
  <2>9. todo[c] = <<>> => Len(response) + 1 = Len(ShowOrder)
    BY <1>5, <2>1, ConstantsOK, WalkEnds
  <2>10. ListingSoFar(c)'
    <3>1. CASE pc[c] = "seek"
      BY <1>1, <2>1, <2>2, <3>1 DEF ListingSoFar, Remains
    <3>2. CASE pc[c] = "put"
      <4>1. Remains(todo[c], ShowOrder, Len(response'))
        BY <2>1, <2>8, <3>2
      <4>2. pc'[c] \in {"leave", "row"} /\ (pc'[c] = "leave" => todo[c] = <<>>) /\ todo'[c] = todo[c]
        BY <1>1, <2>3, <3>2
      <4> QED
        BY <2>2, <2>8, <2>9, <3>2, <4>1, <4>2 DEF ListingSoFar, Remains
    <3> QED
      BY <1>1, <3>1, <3>2
  <2>4. Honest(c)'
    BY <1>1, <1>3, <1>6, <2>3, <2>10 DEF Honest, AnswerSoFar, Placed
  <2>5. CASE pc'[c] = "leave"
    <3>1. Call(c) = Inventory!Pending(cmd[c])
      BY <1>1, <1>3, <2>1, <2>5 DEF Call, Unasked, Performed, Inventory!Pending
    <3>2. Said(c)' = Inventory!Listing(stock)
      BY <1>1, <2>1, SameListing DEF Said
    <3>3. Call(c)' = Inventory!Done(Inventory!Listing(stock))
      BY <1>1, <1>3, <2>1, <2>5, <3>2 DEF Call, Unasked, Performed, Inventory!Done
    <3>4. Inventory!List(c, cmd[c])
      BY <1>1, <2>1, <3>3, Replies DEF Inventory!List
    <3> QED
      BY <2>4, <3>1, <3>4, Performs
  <2>6. CASE pc'[c] # "leave"
    <3>1. pc[c] \in {"seek", "put"} /\ pc'[c] \in {"put", "row"}
      BY <1>1, <2>3, <2>6
    <3>2. Call(c)' = Call(c)
      BY <1>1, <2>1, <3>1 DEF Call, Unasked, Performed
    <3> QED
      BY <1>1, <2>4, <3>2, ThreadStutters DEF Still
  <2> QED
    BY <2>5, <2>6
<1>7. CASE cmd[c] # Show
  <2>1. \/ cmd[c] \in Trades /\ cmd[c].op \in {"buy", "sell"}
        \/ cmd[c] = Junk /\ cmd[c].op = "junk"
    BY <1>3, <1>7, HonestKinds
  <2>2. response = <<>>
    BY <1>1, <1>2, <1>3, <1>7 DEF Honest, AnswerSoFar
  <2>3. cmd[c].op = "junk" => text[c] = <<"invalid">>
    BY <1>1, <1>2, <1>3, <1>7, <2>1 DEF Honest, AnswerSoFar
  <2>4. pc[c] = "put" =>
           /\ response' = <<text[c]>>
           /\ pc'[c] = IF text[c] \in {<<"buy">>, <<"sell">>} THEN "open" ELSE "reply"
    BY <1>1, <1>4, <2>1, <2>2 DEF AfterPut
  <2>5. Honest(c)'
    <3>1. text[c] \in {<<"buy">>, <<"sell">>} => cmd[c] \in Trades
      BY <2>1, <2>3
    <3>2. /\ pc[c] \in {"seek", "put"} /\ cmd'[c] = cmd[c] /\ text'[c] = text[c]
          /\ pc[c] = "seek" =>
                pc'[c] = "put" /\ response' = <<>> /\ pos'[c] = Len(response') + 1
          /\ pc[c] = "put" => pc'[c] \in {"open", "reply"} /\ response' = <<text[c]>>
          /\ pc'[c] = "open" => cmd[c] \in Trades
      BY <1>1, <2>2, <2>4, <3>1
    <3>3. AnswerSoFar(c)'
      BY <2>1, <2>3, <3>2 DEF AnswerSoFar, Junk
    <3>4. ListingSoFar(c)' /\ Placed(c)'
      BY <1>3, <1>7, <3>2 DEF ListingSoFar, Placed
    <3> QED
      BY <3>3, <3>4 DEF Honest
  <2>6. CASE pc[c] = "seek" /\ cmd[c].op = "junk"
    <3>1. Call(c) = Inventory!Pending(cmd[c])
      BY <1>3, <2>6 DEF Call, Unasked, Performed, Inventory!Pending
    <3>2. Call(c)' = Inventory!Done(<<<<"invalid">>>>)
      BY <1>1, <1>3, <2>3, <2>6 DEF Call, Unasked, Performed, Said, Inventory!Done
    <3>3. Inventory!Reject(c, cmd[c])
      BY <1>1, <2>6, <3>2, Replies DEF Inventory!Reject
    <3> QED
      BY <2>5, <3>1, <3>3, Performs
  <2>7. CASE ~(pc[c] = "seek" /\ cmd[c].op = "junk")
    <3>1. /\ pc[c] \in {"seek", "put"} /\ pc'[c] \in {"put", "open", "reply"}
          /\ cmd[c].op = "junk" => pc[c] = "put" /\ pc'[c] = "reply"
      BY <1>1, <2>3, <2>4, <2>7
    <3>2. Call(c)' = Call(c)
      BY <1>1, <2>1, <3>1 DEF Call, Unasked, Performed, Said
    <3> QED
      BY <1>1, <2>5, <3>2, ThreadStutters DEF Still
  <2> QED
    BY <2>6, <2>7
<1> QED
  BY <1>6, <1>7

\* The answer that was decided reaches the client.
LEMMA HonestReply ==
    ASSUME TypeOK, AllHonest, NEW c \in Client, Still(c), Reply(c)
    PROVE  Honest(c)' /\ Follows
<1>1. /\ UNCHANGED <<stock, cmd, response, text>> /\ pc[c] = "reply" /\ pc'[c] = "clear"
      /\ got' = [got EXCEPT ![c] = response]
  BY DEF Reply, At, Goto, trading, TypeOK, ThreadType
<1>2. Honest(c)
  BY DEF AllHonest
<1>3. cmd[c] # Eof
  BY <1>1, <1>2 DEF Honest, Placed
<1>4. cmd[c].op = "show" <=> cmd[c] = Show
  BY Kinds
<1>5. response = Said(c)
  <2>1. CASE cmd[c] = Show
    <3>1. Current(response) /\ Len(response) = Len(ShowOrder)
      BY <1>1, <1>2, <2>1 DEF Honest, ListingSoFar
    <3>2. Said(c) = [k \in 1..Len(ShowOrder) |-> Row(ShowOrder[k], stock[ShowOrder[k]])]
      BY <1>4, <2>1 DEF Said
    <3>3. response = [k \in 1..Len(response) |-> response[k]]
      BY Kinds
    <3> QED
      BY <3>1, <3>2, <3>3 DEF Current
  <2>2. CASE cmd[c] # Show
    BY <1>1, <1>2, <1>3, <1>4, <2>2 DEF Honest, AnswerSoFar, Said
  <2> QED
    BY <2>1, <2>2
<1>6. Call(c) = Inventory!Done(response) /\ Call(c)' = Inventory!Idle
  BY <1>1, <1>3, <1>5, HonestKinds DEF Call, Unasked, Performed, Inventory!Done, Inventory!Idle
<1>7. Inventory!Answer(c)
  <2>1. [d \in Client |-> Call(d)][c].phase = "done"
        /\ [d \in Client |-> Call(d)][c].reply = response
    BY <1>6 DEF Inventory!Done
  <2>2. [d \in Client |-> Call(d)]' = [[d \in Client |-> Call(d)] EXCEPT ![c] = Inventory!Idle]
    BY <1>6, CallChanges
  <2> QED
    BY <1>1, <2>1, <2>2 DEF Inventory!Answer
<1>8. Honest(c)'
  BY <1>1, <1>3 DEF Honest, ListingSoFar, AnswerSoFar, Placed
<1> QED
  BY <1>7, <1>8 DEF Follows, Inventory!Next

\* A line is a request when the worker has read it.
LEMMA HonestRead ==
    ASSUME TypeOK, response = <<>>, NEW c \in Client, Still(c), ReadLine(c)
    PROVE  Honest(c)' /\ Follows
<1>1. PICK r \in Trades \cup {Show, Junk} :
         cmd' = [cmd EXCEPT ![c] = r] /\ pc' = [pc EXCEPT ![c] = Entry(r)]
  <2>1. PICK line \in Lines : \E r \in Parsed(line) :
           cmd' = [cmd EXCEPT ![c] = r] /\ pc' = [pc EXCEPT ![c] = Entry(r)]
    BY DEF ReadLine, Goto
  <2>2. Parsed(line) \subseteq Trades \cup {Show, Junk}
    BY DEF Lines, Parsed
  <2> QED
    BY <2>1, <2>2
<1>2. /\ UNCHANGED <<stock, got, response>> /\ pc[c] = "read" /\ cmd'[c] = r /\ pc'[c] = Entry(r)
      /\ todo'[c] = ShowOrder /\ text'[c] = <<"invalid">>
  BY <1>1 DEF ReadLine, At, Say, trading, TypeOK, ThreadType, TextType
<1>3. /\ r # Eof
      /\ \/ r = Show /\ r.op = "show" /\ Entry(r) = "enter"
         \/ r = Junk /\ r.op = "junk" /\ Entry(r) = "seek" /\ r # Show
         \/ r \in Trades /\ r.op \in {"buy", "sell"} /\ Entry(r) = "quote"
  BY CmdType DEF Entry
<1>4. Honest(c)'
  BY <1>2, <1>3 DEF Honest, ListingSoFar, AnswerSoFar, Placed
<1>5. Call(c) = Inventory!Idle /\ Call(c)' = Inventory!Pending(r)
  BY <1>2, <1>3 DEF Call, Unasked, Performed, Inventory!Idle, Inventory!Pending
<1>6. Inventory!Ask(c)
  <2>1. [d \in Client |-> Call(d)][c] = Inventory!Idle
    BY <1>5
  <2>2. [d \in Client |-> Call(d)]' = [[d \in Client |-> Call(d)] EXCEPT ![c] = Inventory!Pending(r)]
    BY <1>5, CallChanges
  <2> QED
    BY <1>2, <2>1, <2>2 DEF Inventory!Ask
<1> QED
  BY <1>4, <1>6 DEF Follows, Inventory!Next

\* The rest of a thread's life changes nothing that was promised.
LEMMA HonestRest ==
    ASSUME TypeOK, AllHonest, NEW c \in Client, Still(c), ReadExit(c) => response = <<>>,
           \/ Hangup(c) \/ ReadExit(c) \/ Reset(c) \/ Clear(c) \/ Wipe(c)
           \/ OpenFile(c) \/ DumpRow(c) \/ CloseFile(c) \/ Finish(c) \/ Uncount(c)
           \/ Farewell(c) \/ Unseat(c) \/ Exit(c) \/ Accept(c) \/ BrokenPipe(c)
           \/ StartThread /\ conn = c /\ pc[c] = "off"
    PROVE  Honest(c)' /\ Follows
<1> USE DEF At, Goto, trading, sems, reply, disk, conns
<1>0. Honest(c) /\ Eof # Show /\ Eof \notin Trades
  BY CmdType DEF AllHonest
<1>ty. pc \in [Client -> Pcs] /\ cmd \in [Client -> Cmd] BY DEF TypeOK, ThreadType
<1>1. UNCHANGED <<stock, got, upd, text, pos>>
  BY DEF Hangup, ReadExit, Reset, Clear, Wipe, OpenFile, DumpRow, CloseFile, Finish, Uncount,
         Farewell, Unseat, Exit, Accept, BrokenPipe, StartThread
<1>2. CASE (cmd'[c] = Eof /\ cmd[c] # Eof) \/ ReadExit(c)
  <2>1. /\ response' = response /\ pc[c] = "read" /\ cmd'[c] = Eof
        /\ pc'[c] \in {"open", "farewell", "exit"} /\ (pc'[c] = "farewell" => response = <<>>)
    BY <1>2, <1>ty DEF Hangup, ReadExit, Reset, Clear, Wipe, OpenFile, DumpRow, CloseFile, Finish,
         Uncount, Farewell, Unseat, Exit, Accept, BrokenPipe, StartThread
  <2>2. Call(c)' = Call(c) BY <2>1 DEF Call, Unasked
  <2>3. Honest(c)' BY <1>0, <2>1 DEF Honest, ListingSoFar, AnswerSoFar, Placed
  <2> QED BY <1>1, <2>2, <2>3, ThreadStutters DEF Still
<1>3. CASE Clear(c)
  <2>1. cmd' = cmd /\ pc[c] = "clear" /\ pc'[c] = "read" BY <1>3, <1>ty DEF Clear
  <2>2. Call(c)' = Call(c) BY <2>1 DEF Call, Unasked
  <2>3. Honest(c)' BY <2>1 DEF Honest, ListingSoFar, AnswerSoFar, Placed
  <2> QED BY <1>1, <2>2, <2>3, ThreadStutters DEF Still
<1>4. CASE Wipe(c)
  <2>1. cmd' = cmd /\ cmd[c] = Eof /\ pc[c] = "wipe" /\ pc'[c] = "exit"
    BY <1>0, <1>4, <1>ty DEF Wipe, Honest, Placed
  <2>2. Call(c)' = Call(c) BY <2>1 DEF Call, Unasked
  <2>3. Honest(c)' BY <1>0, <2>1 DEF Honest, ListingSoFar, AnswerSoFar, Placed
  <2> QED BY <1>1, <2>2, <2>3, ThreadStutters DEF Still
<1>5. CASE ~(cmd'[c] = Eof /\ cmd[c] # Eof) /\ ~ReadExit(c) /\ ~Clear(c) /\ ~Wipe(c)
  <2>1. cmd'[c] = cmd[c] /\ response' = response
    BY <1>5, <1>ty DEF Hangup, Reset, OpenFile, DumpRow, CloseFile, Finish,
         Uncount, Farewell, Unseat, Exit, Accept, BrokenPipe, StartThread
  <2>2. \/ pc'[c] = pc[c]
        \/ pc[c] = "off" /\ pc'[c] = "read"
        \/ pc[c] = "read" /\ cmd[c] = Eof /\ pc'[c] \in {"open", "exit"}
        \/ pc[c] \in {"open", "dump"} /\ pc'[c] \in {"dump", "close"}
        \/ pc[c] = "close" /\ pc'[c] = AfterClose(c)
        \/ pc[c] \in {"finish", "uncount"} /\ pc'[c] \in {"uncount", "gone"}
        \/ pc[c] \in {"farewell", "unseat"} /\ pc'[c] \in {"unseat", "wipe", "exit"}
        \/ pc[c] \in {"reply", "exit"} /\ pc'[c] \in {"exit", "exited"}
    <3>1. CASE Hangup(c) \/ Reset(c)
      BY <1>5, <1>ty, <3>1 DEF Hangup, Reset
    <3>2. CASE OpenFile(c) \/ DumpRow(c) \/ CloseFile(c)
      BY <1>ty, <3>2 DEF OpenFile, DumpRow, CloseFile
    <3>3. CASE Finish(c) \/ Uncount(c) \/ Farewell(c) \/ Unseat(c)
      BY <1>ty, <3>3 DEF Finish, Uncount, Farewell, Unseat
    <3>4. CASE Exit(c) \/ Accept(c) \/ BrokenPipe(c) \/ (StartThread /\ conn = c /\ pc[c] = "off")
      BY <1>ty, <3>4 DEF Exit, Accept, BrokenPipe, StartThread
    <3> HIDE DEF At, Goto, trading, sems, reply, disk, conns
    <3> QED
      BY <1>5, <3>1, <3>2, <3>3, <3>4
  <2>3. todo'[c] = todo[c] \/ pc[c] \in {"open", "dump"}
    BY <1>5, <1>ty DEF Hangup, Reset, OpenFile, DumpRow, CloseFile, Finish,
         Uncount, Farewell, Unseat, Exit, Accept, BrokenPipe, StartThread
  <2>4. pc[c] \in {"open", "dump", "close"} => cmd[c] \in Trades \/ cmd[c] = Eof
    BY <1>0 DEF Honest, ListingSoFar, AnswerSoFar
  <2>5. AfterClose(c) = IF cmd[c] = Eof THEN "finish" ELSE "reply"
    BY DEF AfterClose
  <2>6. cmd[c] \in Trades => cmd[c].op \in {"buy", "sell"} /\ cmd[c] # Show
    BY CmdType
  <2>7. Said(c)' = Said(c)
    BY <1>1, <2>1 DEF Said
  <2>8. pc[c] \in {"off", "finish", "uncount", "farewell", "unseat"} => cmd[c] = Eof
    BY <1>0 DEF Honest, Placed
  <2>9. (Unasked(c)' <=> Unasked(c)) /\ (Unasked(c) \/ (Performed(c)' <=> Performed(c)))
    <3>1. CASE pc'[c] = pc[c]
      BY <2>1, <3>1 DEF Unasked, Performed
    <3>2. CASE pc'[c] # pc[c]
      BY <2>1, <2>2, <2>4, <2>5, <2>6, <2>8, <3>2 DEF Unasked, Performed
    <3> QED
      BY <3>1, <3>2
  <2>10. Call(c)' = Call(c)
    BY <2>7, <2>9, <2>1 DEF Call
  <2>11. Honest(c)'
    <3>1. (Current(response)' <=> Current(response)) /\ Traded(cmd[c])' = Traded(cmd[c])
      BY <1>1, <2>1 DEF Current, Traded
    <3>2. CASE pc'[c] = pc[c]
      <4>1. ListingSoFar(c)' BY <1>0, <1>1, <2>1, <2>3, <3>1, <3>2 DEF Honest, ListingSoFar, Remains
      <4>2. AnswerSoFar(c)' BY <1>0, <1>1, <2>1, <3>1, <3>2 DEF Honest, AnswerSoFar
      <4>3. Placed(c)' BY <1>0, <1>1, <2>1, <3>2 DEF Honest, Placed
      <4> QED BY <4>1, <4>2, <4>3 DEF Honest
    <3>3. CASE pc'[c] # pc[c]
      <4>1. ListingSoFar(c)'
        BY <1>0, <2>1, <2>2, <2>4, <2>5, <2>6, <2>8, <3>3 DEF ListingSoFar
      <4>2. AnswerSoFar(c)'
        BY <1>0, <1>1, <2>1, <2>2, <2>4, <2>5, <2>6, <2>8, <3>3 DEF Honest, AnswerSoFar
      <4>3. Placed(c)' BY <1>0, <2>1, <2>2, <2>5, <2>8, <3>3 DEF Honest, Placed
      <4> QED BY <4>1, <4>2, <4>3 DEF Honest
    <3> QED
      BY <3>2, <3>3
  <2> QED
    BY <1>1, <2>10, <2>11, ThreadStutters DEF Still
<1> QED
  BY <1>2, <1>3, <1>4, <1>5

\* A thread that has a request in hand keeps it until it has cleared the
\* response, and one without leaves the response alone.
LEMMA ServesOn ==
    ASSUME TypeOK, LocalsOK, AllHonest, NEW c \in Client, Step(c) \/ Outside(c)
    PROVE  Serving(c)' \/ response' = <<>> \/ (~Serving(c) /\ response' = response)
<1> USE DEF At, Alive, Goto, Say, trading, sems, reply, disk, conns
<1>ty. pc \in [Client -> Pcs] /\ cmd \in [Client -> Cmd]
  BY DEF TypeOK, ThreadType
<1>h. /\ cmd[c] = Eof => pc[c] # "put"
      /\ pc[c] \in {"off", "finish", "uncount", "farewell", "unseat", "wipe"} => cmd[c] = Eof
      /\ pc[c] = "farewell" => response = <<>>
  BY DEF AllHonest, Honest, Placed
<1>v. /\ Entry(Show) # "read" /\ Entry(Junk) # "read" /\ (\A r \in Trades : Entry(r) # "read")
      /\ Eof \notin Trades /\ Show # Eof /\ Junk # Eof
  BY CmdType DEF Entry
<1>1. CASE Enter(c) BY <1>1, <1>ty, <1>h DEF Enter, Serving
<1>2. CASE LockState(c) BY <1>2, <1>ty, <1>h DEF LockState, Serving
<1>3. CASE OpenMutex(c) BY <1>3, <1>ty, <1>h DEF OpenMutex, Serving
<1>4. CASE ReadRow(c) BY <1>4, <1>ty, <1>h DEF ReadRow, Serving
<1>5. CASE Leave(c) BY <1>5, <1>ty, <1>h DEF Leave, Serving
<1>6. CASE CloseState(c) BY <1>6, <1>ty, <1>h DEF CloseState, Serving
<1>7. CASE Refuse(c) BY <1>7, <1>ty, <1>h DEF Refuse, Serving
<1>8. CASE Quote(c) BY <1>8, <1>ty, <1>h DEF Quote, Serving
<1>9. CASE LockItem(c) BY <1>9, <1>ty, <1>h DEF LockItem, Serving
<1>10. CASE Store(c) BY <1>10, <1>ty, <1>h DEF Store, Serving
<1>11. CASE Seek(c) BY <1>11, <1>ty, <1>h DEF Seek, Serving
<1>12. CASE PutText(c)
  BY <1>12, <1>ty, <1>h DEF PutText, AfterPut, Serving
<1>13. CASE Reply(c) BY <1>13, <1>ty, <1>h DEF Reply, Serving
<1>14. CASE Clear(c) BY <1>14 DEF Clear
<1>15. CASE OpenFile(c) BY <1>15, <1>ty, <1>h DEF OpenFile, Serving
<1>16. CASE DumpRow(c) BY <1>16, <1>ty, <1>h DEF DumpRow, Serving
<1>17. CASE CloseFile(c)
  BY <1>17, <1>ty DEF CloseFile, AfterClose, Serving
<1>18. CASE Finish(c) BY <1>18, <1>ty, <1>h DEF Finish, Serving
<1>19. CASE Uncount(c) BY <1>19, <1>ty, <1>h DEF Uncount, Serving
<1>20. CASE Farewell(c) BY <1>20, <1>ty, <1>h DEF Farewell, Serving
<1>21. CASE Unseat(c) BY <1>21, <1>ty, <1>h DEF Unseat, Serving
<1>22. CASE Wipe(c) BY <1>22 DEF Wipe
<1>23. CASE Exit(c) BY <1>23, <1>ty, <1>h DEF Exit, Serving
<1>24. CASE Accept(c) BY <1>24, <1>ty, <1>h DEF Accept, Serving
<1>25. CASE ReadLine(c)
  <2>1. PICK line \in Lines : \E r \in Parsed(line) :
           cmd' = [cmd EXCEPT ![c] = r] /\ pc' = [pc EXCEPT ![c] = Entry(r)]
    BY <1>25 DEF ReadLine
  <2>2. Parsed(line) \subseteq Trades \cup {Show, Junk}
    BY DEF Lines, Parsed
  <2>3. cmd'[c] # Eof /\ pc'[c] # "read"
    BY <1>ty, <1>v, <2>1, <2>2
  <2> QED BY <2>3 DEF Serving
<1>26. CASE ReadExit(c) BY <1>26, <1>ty, <1>h DEF ReadExit, Serving
<1>27. CASE Hangup(c) BY <1>27, <1>ty, <1>h DEF Hangup, Serving
<1>28. CASE Reset(c) BY <1>28, <1>ty, <1>h DEF Reset, Serving
<1>29. CASE BrokenPipe(c) BY <1>29, <1>ty, <1>h DEF BrokenPipe, Serving
<1> QED
  BY ONLY Step(c) \/ Outside(c), <1>1, <1>2, <1>3, <1>4, <1>5, <1>6, <1>7, <1>8, <1>9, <1>10, <1>11, <1>12, <1>13, <1>14, <1>15, <1>16, <1>17, <1>18, <1>19, <1>20, <1>21, <1>22, <1>23, <1>24, <1>25, <1>26, <1>27, <1>28, <1>29
  DEF Step, Outside

\* A line is read only when the response is empty.
LEMMA QuietRead ==
    ASSUME TypeOK, Clean, OneRequest', NEW c \in Client, ReadLine(c) \/ ReadExit(c),
           \A d \in Client : d # c => (Serving(d)' <=> Serving(d))
    PROVE  response = <<>>
<1>ty. pc \in [Client -> Pcs] /\ cmd \in [Client -> Cmd]
  BY DEF TypeOK, ThreadType
<1>1. Serving(c)'
  <2>1. CASE ReadLine(c)
    <3>1. PICK line \in Lines : \E r \in Parsed(line) :
             cmd' = [cmd EXCEPT ![c] = r] /\ pc' = [pc EXCEPT ![c] = Entry(r)]
      BY <2>1 DEF ReadLine, Goto
    <3>2. Parsed(line) \subseteq Trades \cup {Show, Junk}
      BY DEF Lines, Parsed
    <3>3. \A r \in Trades \cup {Show, Junk} : r # Eof /\ Entry(r) # "read"
      BY CmdType DEF Entry
    <3>4. cmd'[c] # Eof /\ pc'[c] # "read"
      BY <1>ty, <3>1, <3>2, <3>3
    <3> QED BY <3>4 DEF Serving
  <2>2. CASE ReadExit(c)
    BY <1>ty, <2>2 DEF ReadExit, Goto, Serving
  <2> QED BY <2>1, <2>2
<1>2. \A d \in Client : d # c => ~Serving(d)
  BY <1>1 DEF OneRequest
<1>3. pc[c] = "read"
  BY DEF ReadLine, ReadExit, At
<1>4. ~Serving(c)
  BY <1>3 DEF Serving
<1> QED BY <1>2, <1>4 DEF Clean

LEMMA ThreadFollows ==
    ASSUME TypeOK, LocalsOK, OneRequest, OneRequest', AllHonest, Clean,
           NEW c \in Client, Step(c) \/ Outside(c)
    PROVE  AllHonest' /\ Clean' /\ Follows
<1>1. \A d \in Client : d # c =>
         Honest(d)' /\ Call(d)' = Call(d) /\ (Serving(d)' <=> Serving(d))
  BY OthersStand
<1>2. Still(c)
  BY <1>1 DEF Still
<1>3. ReadLine(c) \/ ReadExit(c) => response = <<>>
  BY <1>1, QuietRead
<1>4. Honest(c)' /\ Follows
  <2>1. CASE Enter(c) \/ LockState(c) \/ OpenMutex(c) \/ ReadRow(c) \/ Leave(c) \/ CloseState(c)
    BY <1>2, <2>1, HonestShow
  <2>2. CASE Refuse(c) \/ Quote(c) \/ LockItem(c) \/ Store(c)
    BY <1>2, <2>2, HonestTrade
  <2>3. CASE Seek(c) \/ PutText(c)
    BY <1>2, <2>3, HonestText
  <2>4. CASE Reply(c)
    BY <1>2, <2>4, HonestReply
  <2>5. CASE ReadLine(c)
    BY <1>2, <1>3, <2>5, HonestRead
  <2>6. CASE \/ Hangup(c) \/ ReadExit(c) \/ Reset(c) \/ Clear(c) \/ Wipe(c)
             \/ OpenFile(c) \/ DumpRow(c) \/ CloseFile(c) \/ Finish(c) \/ Uncount(c)
             \/ Farewell(c) \/ Unseat(c) \/ Exit(c) \/ Accept(c) \/ BrokenPipe(c)
    BY <1>2, <1>3, <2>6, HonestRest
  <2> QED
    BY <2>1, <2>2, <2>3, <2>4, <2>5, <2>6 DEF Step, Outside
<1>5. AllHonest'
  BY <1>1, <1>4 DEF AllHonest
<1>6. Clean'
  <2>1. Serving(c)' \/ response' = <<>> \/ (~Serving(c) /\ response' = response)
    BY ServesOn
  <2> QED
    BY <1>1, <2>1 DEF Clean
<1> QED BY <1>4, <1>5, <1>6

\* What main and the end of the process leave alone.
LEMMA QuietStep ==
    ASSUME AllHonest, Clean,
           UNCHANGED <<stock, got, response, pc, cmd, text, pos, todo, upd>>
    PROVE  AllHonest' /\ Clean' /\ Follows
<1>1. \A d \in Client : Honest(d)' /\ Call(d)' = Call(d)
  <2> TAKE d \in Client
  <2>1. Honest(d)
    BY DEF AllHonest
  <2> QED
    BY <2>1, Stands
<1>2. Clean'
  BY DEF Clean, Serving
<1> QED
  BY <1>1, <1>2, ThreadStutters DEF AllHonest

LEMMA StartFollows ==
    ASSUME TypeOK, SyncInv, AllHonest, Clean, StartThread
    PROVE  AllHonest' /\ Clean' /\ Follows
<1>1. PICK c \in Client : conn = c /\ pc[c] = "off"
  BY DEF StartThread, SyncInv, TypeOK, SyncType
<1>2. /\ UNCHANGED <<stock, got, response, cmd, text, pos, todo, upd>>
      /\ pc' = [pc EXCEPT ![c] = "read"] /\ pc \in [Client -> Pcs]
  BY <1>1 DEF StartThread, Goto, trading, reply, TypeOK, ThreadType
<1>3. \A d \in Client : d # c => Honest(d)' /\ Call(d)' = Call(d) /\ (Serving(d)' <=> Serving(d))
  <2> SUFFICES ASSUME NEW d \in Client, d # c
               PROVE  Honest(d)' /\ Call(d)' = Call(d) /\ (Serving(d)' <=> Serving(d))
    OBVIOUS
  <2>1. Honest(d) /\ pc'[d] = pc[d]
    BY <1>2 DEF AllHonest
  <2>2. Honest(d)' /\ Call(d)' = Call(d)
    BY <1>2, <2>1, Stands
  <2>3. Serving(d)' <=> Serving(d)
    BY <1>2, <2>1 DEF Serving
  <2> QED BY <2>2, <2>3
<1>4. Still(c)
  BY <1>3 DEF Still
<1>5. ~ReadExit(c)
  BY <1>1 DEF ReadExit, At
<1>6. Honest(c)' /\ Follows
  BY <1>1, <1>4, <1>5, HonestRest
<1>7. ~Serving(c)
  BY <1>1 DEF Serving, AllHonest, Honest, Placed
<1>8. Clean'
  BY <1>2, <1>3, <1>7 DEF Clean
<1> QED BY <1>3, <1>6, <1>8 DEF AllHonest

LEMMA SerialStep ==
    TypeOK /\ LocalsOK /\ SyncInv /\ OneRequest /\ AllHonest /\ Clean
        /\ [Next /\ OneRequest']_vars => OneRequest' /\ AllHonest' /\ Clean' /\ Follows
<1> SUFFICES ASSUME TypeOK, LocalsOK, SyncInv, OneRequest, AllHonest, Clean,
                    [Next /\ OneRequest']_vars
             PROVE  OneRequest' /\ AllHonest' /\ Clean' /\ Follows
  OBVIOUS
<1>1. CASE UNCHANGED vars
  <2>1. UNCHANGED <<stock, got, response, pc, cmd, text, pos, todo, upd>>
    BY <1>1 DEF vars, trading, reply
  <2>2. OneRequest'
    BY <2>1 DEF OneRequest, Serving
  <2> QED BY <2>1, <2>2, QuietStep
<1>2. CASE StartThread /\ OneRequest'
  BY <1>2, StartFollows
<1>3. CASE (MainLockState \/ Exiting) /\ OneRequest'
  <2>1. UNCHANGED <<stock, got, response, pc, cmd, text, pos, todo, upd>>
    BY <1>3 DEF MainLockState, Exiting, ExitDone, FlushStream, trading, reply
  <2> QED BY <1>3, <2>1, QuietStep
<1>4. ASSUME NEW c \in Client, Step(c) \/ Outside(c), OneRequest'
      PROVE  OneRequest' /\ AllHonest' /\ Clean' /\ Follows
  BY <1>4, ThreadFollows
<1> QED
  BY <1>1, <1>2, <1>3, <1>4 DEF Next, MainStep

LEMMA SerialInit ==
    Init => OneRequest /\ AllHonest /\ Clean /\ Inventory!Init
<1> SUFFICES ASSUME Init PROVE OneRequest /\ AllHonest /\ Clean /\ Inventory!Init
  OBVIOUS
<1>1. \A c \in Client : pc[c] = "off" /\ cmd[c] = Eof
  BY DEF Init
<1>2. \A c \in Client : ~Serving(c) /\ Call(c) = Inventory!Idle /\ Honest(c)
  BY <1>1, CmdType
  DEF Serving, Call, Unasked, Inventory!Idle, Honest, ListingSoFar, AnswerSoFar, Placed
<1>3. response = <<>> /\ stock = Initial /\ got = [c \in Client |-> <<>>]
  BY DEF Init
<1> QED BY <1>2, <1>3 DEF OneRequest, AllHonest, Clean, Inventory!Init

\* As long as no two requests overlap, every request takes effect at one
\* instant between its line and its reply on the one inventory, and its
\* client hears the answer of that instant: whatever the closing saves of
\* other connections, the arrivals of new ones, resets, broken pipes and an
\* exit do meanwhile (stockserver.c:134-189, csapp.c's Rio_writen).
THEOREM TurnsServeAtomically == SerialSpec => ImplementsInventory
<1>1. [Next /\ OneRequest']_vars => [Next]_vars
  OBVIOUS
<1>2. Follows => [Inventory!Next]_(Inventory!vars)
  BY DEF Follows
<1>3. SerialSpec =>
         [](TypeOK /\ LocalsOK /\ SyncInv /\ OneRequest /\ AllHonest /\ Clean)
  <2>1. SerialSpec => Spec
    BY <1>1, PTL DEF SerialSpec, Spec
  <2> QED
    BY <1>1, <2>1, SyncAlways, InitTypes, TypeStep, SerialInit, SerialStep, PTL DEF SerialSpec
<1> QED
  BY <1>2, <1>3, SerialInit, SerialStep, PTL DEF SerialSpec, ImplementsInventory, Inventory!Spec

=============================================================================
