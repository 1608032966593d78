----------------------- MODULE StockEventServer_proofs -----------------------
(***************************************************************************)
(* Proofs about the event server: the counters of the client pool agree    *)
(* with its slots, for every number of slots and clients; what the server  *)
(* leaves in stock.txt; and that it is the inventory it promises.          *)
(***************************************************************************)
EXTENDS StockEventRefinement, FiniteSetTheorems, SequenceTheorems, TLAPS

PoolTypes ==
    /\ slot \in [1..Slots -> Client \cup {None}] /\ maxi \in 0..Slots
    /\ active \in Nat /\ nready \in Nat /\ i \in Nat \ {0}
    /\ ready \in SUBSET (Client \cup {"listen"})
    /\ cur \in Client \cup {None} /\ backlog \in Seq(Client)
    /\ link \in [Client -> {"none", "queued", "open", "shut", "reset", "gone"}]

ReadyFrom(j) == {k \in j..Slots : Ready(k)}
Taken        == {k \in 1..Slots : slot[k] # None}
Live         == {"open", "shut", "reset"}

\* handle_cmd has a client, the event loop around it has none.
Phases ==
    /\ phase \in {"select", "accept", "scan"} => cur = None
    /\ phase \in {"block", "handle", "reply"} => cur # None

\* A connection is in the queue of the listening socket, then in a slot, then
\* nowhere, and only while it is in a slot can it be ready.
Sockets ==
    /\ \A k \in 1..Slots : slot[k] # None => link[slot[k]] \in Live
    /\ \A j \in 1..Len(backlog) : link[backlog[j]] = "queued"
    /\ \A j, k \in 1..Len(backlog) : backlog[j] = backlog[k] => j = k
    /\ \A c \in Client : c \in ready => link[c] \notin {"none", "queued"}
    /\ cur # None => \E k \in 1..Slots : slot[k] = cur

\* Between select and accept nready counts the listening socket too.
Accepting ==
    proc = "running" /\ phase = "accept" =>
        i = 1 /\ backlog # <<>> /\ nready = Cardinality(ReadyFrom(1)) + 1

PoolInv == PoolTypes /\ Phases /\ Sockets /\ Accepting /\ PoolExact

-----------------------------------------------------------------------------
LEMMA SlotSets ==
    ASSUME NEW S \in SUBSET (1..Slots)
    PROVE  IsFiniteSet(S) /\ Cardinality(S) \in Nat
<1>1. IsFiniteSet(1..Slots)
  BY ConstantsOK, FS_Interval
<1> QED
  BY <1>1, FS_Subset, FS_CardinalityType

\* The loop of handle_clients passes a slot.
LEMMA NextSlot ==
    ASSUME PoolTypes, i <= Slots
    PROVE  /\ Cardinality(ReadyFrom(i)) \in Nat /\ Cardinality(ReadyFrom(i + 1)) \in Nat
           /\ ~Ready(i) => Cardinality(ReadyFrom(i + 1)) = Cardinality(ReadyFrom(i))
           /\ Ready(i) => Cardinality(ReadyFrom(i + 1)) = Cardinality(ReadyFrom(i)) - 1
<1>1. i \in 1..Slots /\ Slots \in Nat
  BY ConstantsOK DEF PoolTypes
<1>2. ReadyFrom(i) \in SUBSET (1..Slots) /\ ReadyFrom(i + 1) \in SUBSET (1..Slots)
  BY <1>1 DEF ReadyFrom
<1>3. /\ IsFiniteSet(ReadyFrom(i)) /\ IsFiniteSet(ReadyFrom(i + 1))
      /\ Cardinality(ReadyFrom(i)) \in Nat /\ Cardinality(ReadyFrom(i + 1)) \in Nat
  BY <1>2, SlotSets
<1>4. ~Ready(i) => ReadyFrom(i + 1) = ReadyFrom(i)
  BY <1>1 DEF ReadyFrom
<1>5. Ready(i) => ReadyFrom(i + 1) = ReadyFrom(i) \ {i} /\ i \in ReadyFrom(i)
  BY <1>1 DEF ReadyFrom
<1> QED
  BY <1>3, <1>4, <1>5, FS_RemoveElement

\* The slot add_client takes is a free one.
LEMMA FirstFree ==
    ASSUME FreeSlots # {}
    PROVE  \E k \in FreeSlots : \A m \in FreeSlots : k <= m
<1>1. FreeSlots \subseteq Nat
  BY ConstantsOK DEF FreeSlots
<1>2. PICK k \in FreeSlots : \A m \in FreeSlots : <<m, k>> \notin OpToRel(<, Nat)
  BY <1>1, WFMin, NatLessThanWellFounded
<1>3. \A m \in FreeSlots : ~(m < k)
  BY <1>1, <1>2 DEF OpToRel
<1> QED
  BY <1>1, <1>3

\* select finds every ready client in a slot of its own.
LEMMA SelectCounts ==
    ASSUME PoolTypes, SlotsExact
    PROVE  LET S == {k \in 1..Slots : slot[k] # None /\ slot[k] \in Readable}
           IN  /\ Cardinality(S) \in Nat
               /\ "listen" \in Readable => Cardinality(Readable) = Cardinality(S) + 1
               /\ "listen" \notin Readable => Cardinality(Readable) = Cardinality(S)
<1> DEFINE S == {k \in 1..Slots : slot[k] # None /\ slot[k] \in Readable}
           T == Readable \ {"listen"}
           f == [k \in S |-> slot[k]]
<1>1. IsFiniteSet(S) /\ Cardinality(S) \in Nat
  BY SlotSets
<1>2. \A k \in S : slot[k] \in T
  BY ConstantsOK DEF PoolTypes
<1>3. \A c \in T : \E k \in S : slot[k] = c
  BY ConstantsOK DEF Readable
<1>4. \A j, k \in S : slot[j] = slot[k] => j = k
  BY DEF SlotsExact
<1>5. f \in Bijection(S, T)
  BY <1>2, <1>3, <1>4 DEF Bijection, Injection, Surjection, IsInjective
<1>6. IsFiniteSet(T) /\ Cardinality(T) = Cardinality(S)
  BY <1>1, <1>5, FS_Bijection DEF ExistsBijection
<1>7. "listen" \in Readable => Readable = T \cup {"listen"}
  OBVIOUS
<1>8. "listen" \notin Readable => Readable = T
  OBVIOUS
<1> QED
  BY <1>1, <1>6, <1>7, <1>8, FS_AddElement

-----------------------------------------------------------------------------
\* A step of the server outside the pool, or of a client in mid-connection.
LEMMA Aside ==
    ASSUME PoolInv, Phases', UNCHANGED <<slot, maxi, ready, nready, i, backlog>>,
           active' \in Nat, active' = active \/ proc' = "dead",
           proc' = "running" => proc = "running",
           cur' \in {cur, None}, phase' = "accept" => phase = "accept",
           phase' = "scan" => phase = "scan" \/ cur # None,
           link' \in [Client -> {"none", "queued", "open", "shut", "reset", "gone"}],
           \A c \in Client : link'[c] = link[c] \/ (link[c] \in Live /\ link'[c] \in Live)
    PROVE  PoolInv'
<1>1. \A k : Ready(k)' <=> Ready(k)
  BY DEF Ready
<1>2. \A j : ReadyFrom(j)' = ReadyFrom(j)
  BY <1>1 DEF ReadyFrom
<1>3. PoolTypes'
  BY DEF PoolInv, PoolTypes
<1>4. Sockets'
  <2>1. ASSUME NEW k \in 1..Slots, slot[k] # None PROVE link'[slot[k]] \in Live
    BY <2>1 DEF PoolInv, PoolTypes, Sockets
  <2>2. ASSUME NEW j \in 1..Len(backlog) PROVE link'[backlog[j]] = "queued"
    <3>1. backlog[j] \in Client /\ link[backlog[j]] = "queued"
      BY <2>2, ElementOfSeq DEF PoolInv, PoolTypes, Sockets
    <3> QED
      BY <3>1 DEF Live
  <2>3. ASSUME NEW c \in Client, c \in ready PROVE link'[c] \notin {"none", "queued"}
    BY <2>3 DEF PoolInv, Sockets, Live
  <2> QED
    BY <2>1, <2>2, <2>3 DEF PoolInv, Sockets, Live
<1>5. Accepting'
  BY <1>2 DEF PoolInv, Accepting
<1>6. PoolExact'
  <2>1. NReadyExact'
    BY <1>2 DEF PoolInv, PoolExact, NReadyExact, ReadyFrom
  <2>2. proc' = "running" => SlotsExact'
    BY DEF PoolInv, PoolExact, SlotsExact
  <2> QED
    BY <2>1, <2>2 DEF PoolExact
<1> QED
  BY <1>3, <1>4, <1>5, <1>6 DEF PoolInv

LEMMA ClientSteps ==
    ASSUME PoolInv, NEW c \in Client, SendLine(c) \/ SendPart(c) \/ SendRest(c) \/ Close(c)
    PROVE  PoolInv'
<1>1. /\ UNCHANGED <<slot, maxi, ready, nready, i, backlog, active, proc, cur, phase>>
      /\ link' = link \/ (link[c] \in Live /\ \E l \in Live : link' = [link EXCEPT ![c] = l])
  BY DEF SendLine, SendPart, SendRest, Close, Send, core, pool, loop, serving, Live
<1>2. /\ link' \in [Client -> {"none", "queued", "open", "shut", "reset", "gone"}]
      /\ \A d \in Client : link'[d] = link[d] \/ (link[d] \in Live /\ link'[d] \in Live)
  BY <1>1 DEF PoolInv, PoolTypes, Live
<1>3. active' \in Nat /\ Phases'
  BY <1>1 DEF PoolInv, PoolTypes, Phases
<1> QED
  BY <1>1, <1>2, <1>3, Aside

\* What the server does with the client it serves, and how it ends.
LEMMA ServingSteps ==
    ASSUME PoolInv, \/ ReadMore \/ Broken \/ EndScan \/ Kill
                    \/ HandleShow \/ HandleJunk \/ HandleUnknown \/ HandleShort
                    \/ HandleBuy \/ HandleSell \/ SaveOpen \/ SaveClose
    PROVE  PoolInv'
<1>1. /\ UNCHANGED <<slot, maxi, ready, nready, i, backlog, active, link, cur>>
      /\ proc' = "running" => proc = "running"
  BY DEF ReadMore, Broken, EndScan, Kill, HandleShow, HandleJunk, HandleUnknown, HandleShort,
         HandleBuy, HandleSell, SaveOpen, SaveClose, Respond, core, pool, loop, serving, wires
<1>2. /\ \/ phase' = phase
         \/ phase = "block" /\ phase' = "handle"
         \/ phase = "scan" /\ phase' \in {"open", "select"}
         \/ phase = "handle" /\ phase' \in {"reply", "open"}
         \/ phase = "open" /\ phase' = "write"
         \/ phase = "write" /\ phase' = IF cur = None THEN "select" ELSE "reply"
  BY DEF ReadMore, Broken, EndScan, Kill, HandleShow, HandleJunk, HandleUnknown, HandleShort,
         HandleBuy, HandleSell, SaveOpen, SaveClose, Respond, At, loop
<1>3. Phases' /\ (phase' = "accept" => phase = "accept") /\ (phase' = "scan" => phase = "scan")
  BY <1>1, <1>2 DEF PoolInv, Phases
<1>4. active' \in Nat /\ link' \in [Client -> {"none", "queued", "open", "shut", "reset", "gone"}]
  BY <1>1 DEF PoolInv, PoolTypes
<1> QED
  BY <1>1, <1>3, <1>4, Aside

LEMMA ReplyStep ==
    ASSUME PoolInv, Reply
    PROVE  PoolInv'
<1>1. /\ UNCHANGED <<slot, maxi, ready, nready, i, backlog, active, proc>>
      /\ phase = "reply" /\ phase' = "scan" /\ cur' = None
      /\ link' = link \/ (link[cur] \in Live /\ \E l \in Live : link' = [link EXCEPT ![cur] = l])
  BY DEF Reply, At, core, pool, Live
<1>2. cur \in Client
  BY <1>1 DEF PoolInv, PoolTypes, Phases
<1>3. /\ link' \in [Client -> {"none", "queued", "open", "shut", "reset", "gone"}]
      /\ \A d \in Client : link'[d] = link[d] \/ (link[d] \in Live /\ link'[d] \in Live)
  BY <1>1, <1>2 DEF PoolInv, PoolTypes, Live
<1>4. active' \in Nat /\ Phases'
  BY <1>1 DEF PoolInv, PoolTypes, Phases
<1> QED
  BY <1>1, <1>2, <1>3, <1>4, Aside, ConstantsOK

\* The client that asks the server to end has a slot, so there is one to count.
LEMMA ExitStep ==
    ASSUME PoolInv, HandleExit
    PROVE  PoolInv'
<1>1. /\ UNCHANGED <<slot, maxi, ready, nready, i, backlog, cur, phase, link>>
      /\ phase = "handle" /\ proc = "running" /\ proc' = "dead" /\ active' = active - 1
  BY DEF HandleExit, At, loop
<1>2. PICK k \in 1..Slots : slot[k] = cur /\ cur # None
  BY <1>1 DEF PoolInv, Phases, Sockets
<1>3. active \in Nat /\ active = Cardinality(Taken) /\ k \in Taken
  BY <1>1, <1>2 DEF PoolInv, PoolTypes, PoolExact, SlotsExact, Taken
<1>4. active # 0
  <2>1. IsFiniteSet(Taken)
    BY SlotSets DEF Taken
  <2> QED
    BY <1>3, <2>1, FS_EmptySet
<1>5. active' \in Nat
  BY <1>1, <1>3, <1>4
<1>6. Phases' /\ link' \in [Client -> {"none", "queued", "open", "shut", "reset", "gone"}]
  BY <1>1 DEF PoolInv, PoolTypes, Phases
<1> QED
  BY <1>1, <1>5, <1>6, Aside

LEMMA ConnectStep ==
    ASSUME PoolInv, NEW c \in Client, Connect(c)
    PROVE  PoolInv'
<1>1. /\ UNCHANGED <<slot, maxi, active, ready, nready, i, phase, cur, proc>>
      /\ link[c] = "none" /\ link' = [link EXCEPT ![c] = "queued"]
      /\ backlog' = Append(backlog, c)
  BY DEF Connect, core, pool, loop, serving
<1>2. /\ backlog \in Seq(Client) /\ Len(backlog) \in Nat
      /\ link \in [Client -> {"none", "queued", "open", "shut", "reset", "gone"}]
      /\ \A j \in 1..Len(backlog) : backlog[j] \in Client
  BY ElementOfSeq DEF PoolInv, PoolTypes
<1>3. /\ backlog' \in Seq(Client) /\ Len(backlog') = Len(backlog) + 1 /\ backlog' # <<>>
      /\ backlog'[Len(backlog) + 1] = c
      /\ \A j \in 1..Len(backlog) : backlog'[j] = backlog[j]
  BY <1>1, <1>2
<1>4. \A k : Ready(k)' <=> Ready(k)
  BY <1>1 DEF Ready
<1>5. \A j : ReadyFrom(j)' = ReadyFrom(j)
  BY <1>1, <1>4 DEF ReadyFrom
<1>6. PoolTypes'
  BY <1>1, <1>3 DEF PoolInv, PoolTypes
<1>7. Sockets'
  <2>1. \A j \in 1..Len(backlog) : backlog[j] # c
    BY <1>1 DEF PoolInv, Sockets
  <2>2. \A j \in 1..Len(backlog') : j = Len(backlog) + 1 \/ j \in 1..Len(backlog)
    BY <1>2, <1>3
  <2>3. \A j \in 1..Len(backlog') : link'[backlog'[j]] = "queued"
    BY <1>1, <1>2, <1>3, <2>1, <2>2 DEF PoolInv, Sockets
  <2>4. \A j, k \in 1..Len(backlog') : backlog'[j] = backlog'[k] => j = k
    BY <1>3, <2>1, <2>2 DEF PoolInv, Sockets
  <2>5. \A k \in 1..Slots : slot[k] # None => link'[slot[k]] \in Live
    BY <1>1, <1>2 DEF PoolInv, Sockets, PoolTypes, Live
  <2>6. \A d \in Client : d \in ready => link'[d] \notin {"none", "queued"}
    BY <1>1, <1>2 DEF PoolInv, Sockets
  <2>7. cur # None => \E k \in 1..Slots : slot[k] = cur
    BY DEF PoolInv, Sockets
  <2> QED
    BY <1>1, <2>3, <2>4, <2>5, <2>6, <2>7 DEF Sockets
<1>8. Accepting' /\ Phases'
  BY <1>1, <1>3, <1>5 DEF PoolInv, Accepting, Phases
<1>9. PoolExact'
  <2>1. NReadyExact'
    BY <1>1, <1>5 DEF PoolInv, PoolExact, NReadyExact, ReadyFrom
  <2> QED
    BY <1>1, <2>1 DEF PoolInv, PoolExact, SlotsExact
<1> QED
  BY <1>6, <1>7, <1>8, <1>9 DEF PoolInv

-----------------------------------------------------------------------------
LEMMA SelectStep ==
    ASSUME PoolInv, Select
    PROVE  PoolInv'
<1> DEFINE S == {k \in 1..Slots : slot[k] # None /\ slot[k] \in Readable}
<1>1. /\ UNCHANGED <<slot, maxi, active, cur, backlog, link, proc>>
      /\ ready' = Readable /\ nready' = Cardinality(Readable) /\ i' = 1
      /\ phase' = IF "listen" \in Readable THEN "accept" ELSE "scan"
      /\ proc = "running" /\ phase = "select"
  BY DEF Select, At, core, serving, wires
<1>2. /\ Cardinality(S) \in Nat
      /\ "listen" \in Readable => Cardinality(Readable) = Cardinality(S) + 1
      /\ "listen" \notin Readable => Cardinality(Readable) = Cardinality(S)
  BY <1>1, SelectCounts DEF PoolInv, PoolExact
<1>3. ReadyFrom(1)' = S
  BY <1>1 DEF ReadyFrom, Ready
<1>4. "listen" \in Readable => backlog # <<>>
  BY ConstantsOK DEF Readable
<1>5. PoolTypes'
  <2>1. Readable \in SUBSET (Client \cup {"listen"})
    BY DEF Readable
  <2>2. nready' \in Nat
    BY <1>1, <1>2
  <2> QED
    BY <1>1, <2>1, <2>2 DEF PoolInv, PoolTypes
<1>6. Phases'
  BY <1>1 DEF PoolInv, Phases
<1>7. Sockets'
  <2>1. ASSUME NEW c \in Client, c \in Readable PROVE link[c] \notin {"none", "queued"}
    <3>1. \E k \in 1..Slots : slot[k] = c
      BY <2>1, ConstantsOK DEF Readable
    <3> QED
      BY <3>1, ConstantsOK DEF PoolInv, Sockets, Live
  <2> QED
    BY <1>1, <2>1 DEF PoolInv, Sockets
<1>8. Accepting'
  BY <1>1, <1>2, <1>3, <1>4 DEF Accepting
<1>9. PoolExact'
  <2>1. cur' = None
    BY <1>1 DEF PoolInv, Phases
  <2>2. phase' = "scan" => nready' = Cardinality(ReadyFrom(i)')
    BY <1>1, <1>2, <1>3
  <2>3. NReadyExact'
    BY <2>1, <2>2 DEF NReadyExact, ReadyFrom
  <2> QED
    BY <1>1, <2>3 DEF PoolInv, PoolExact, SlotsExact
<1> QED
  BY <1>5, <1>6, <1>7, <1>8, <1>9 DEF PoolInv

\* The connection accepted is in no slot and not in the ready set: it is
\* scanned only when it takes the place of none that is.
LEMMA AddClientStep ==
    ASSUME PoolInv, AddClient
    PROVE  PoolInv'
<1>1. PICK k \in FreeSlots :
         /\ slot' = [slot EXCEPT ![k] = Head(backlog)]
         /\ maxi' = IF k > maxi THEN k ELSE maxi
  BY FirstFree DEF AddClient
<1> DEFINE c == Head(backlog)
<1>2. /\ link' = [link EXCEPT ![c] = IF @ = "queued" THEN "open" ELSE @]
      /\ backlog' = Tail(backlog) /\ active' = active + 1 /\ nready' = nready - 1
      /\ phase = "accept" /\ proc = "running" /\ phase' = "scan"
      /\ UNCHANGED <<ready, i, cur, proc>>
  BY DEF AddClient, At, core, serving
<1>3. k \in 1..Slots /\ slot[k] = None
  BY DEF FreeSlots
<1>4. i = 1 /\ backlog # <<>> /\ nready = Cardinality(ReadyFrom(1)) + 1 /\ cur = None
  BY <1>2 DEF PoolInv, Accepting, Phases
<1>5. /\ backlog \in Seq(Client) /\ Len(backlog) \in Nat \ {0}
      /\ c \in Client /\ c = backlog[1] /\ Tail(backlog) \in Seq(Client)
      /\ Len(Tail(backlog)) = Len(backlog) - 1
      /\ \A j \in 1..Len(Tail(backlog)) : Tail(backlog)[j] = backlog[j + 1]
  BY <1>4, EmptySeq, HeadTailProperties, ElementOfSeq DEF PoolInv, PoolTypes
<1>6. link[c] = "queued" /\ link' = [link EXCEPT ![c] = "open"]
  <2>1. 1 \in 1..Len(backlog)
    BY <1>5
  <2>2. link[c] = "queued"
    BY <1>5, <2>1 DEF PoolInv, Sockets
  <2> QED
    BY <1>2, <2>2
<1>7. /\ slot \in [1..Slots -> Client \cup {None}] /\ maxi \in 0..Slots /\ active \in Nat
      /\ link \in [Client -> {"none", "queued", "open", "shut", "reset", "gone"}]
      /\ Slots \in Nat
  BY ConstantsOK DEF PoolInv, PoolTypes
<1>8. /\ slot'[k] = c /\ c # None
      /\ \A m \in 1..Slots : m # k => slot'[m] = slot[m]
  BY <1>1, <1>3, <1>5, <1>7, ConstantsOK
<1>9. c \notin ready /\ \A m \in 1..Slots : slot[m] # c
  BY <1>5, <1>6, <1>8 DEF PoolInv, Sockets, Live
<1>10. \A m \in 1..Slots : Ready(m)' <=> Ready(m)
  BY <1>2, <1>3, <1>8, <1>9 DEF Ready
<1>11. ReadyFrom(1)' = ReadyFrom(1) /\ Cardinality(ReadyFrom(1)) \in Nat
  BY <1>10, SlotSets DEF ReadyFrom
<1>12. PoolTypes'
  <2>1. slot' \in [1..Slots -> Client \cup {None}] /\ maxi' \in 0..Slots
    BY <1>1, <1>3, <1>5, <1>7
  <2>2. active' \in Nat /\ nready' \in Nat
    BY <1>2, <1>4, <1>7, <1>11
  <2> QED
    BY <1>2, <1>5, <1>6, <1>7, <2>1, <2>2 DEF PoolInv, PoolTypes
<1>13. Phases'
  BY <1>2, <1>4 DEF Phases
<1>14. Sockets'
  <2>1. ASSUME NEW m \in 1..Slots, slot'[m] # None PROVE link'[slot'[m]] \in Live
    BY <1>5, <1>6, <1>7, <1>8, <1>9, <2>1 DEF PoolInv, Sockets, Live
  <2>2. ASSUME NEW j \in 1..Len(backlog') PROVE link'[backlog'[j]] = "queued"
    <3>1. j + 1 \in 1..Len(backlog) /\ backlog'[j] = backlog[j + 1] /\ 1 \in 1..Len(backlog)
          /\ j + 1 # 1
      BY <1>2, <1>5, <2>2
    <3>2. backlog[j + 1] # c /\ backlog[j + 1] \in Client
      BY <1>5, <3>1, ElementOfSeq DEF PoolInv, Sockets
    <3> QED
      BY <1>6, <1>7, <3>1, <3>2 DEF PoolInv, Sockets
  <2>3. \A j, m \in 1..Len(backlog') : backlog'[j] = backlog'[m] => j = m
    <3>1. ASSUME NEW j \in 1..Len(backlog'), NEW m \in 1..Len(backlog'), backlog'[j] = backlog'[m]
          PROVE  j = m
      <4>1. /\ j + 1 \in 1..Len(backlog) /\ m + 1 \in 1..Len(backlog)
            /\ backlog[j + 1] = backlog[m + 1]
        BY <1>2, <1>5, <3>1
      <4>2. j + 1 = m + 1
        BY <4>1 DEF PoolInv, Sockets
      <4> QED
        BY <4>2
    <3> QED
      BY <3>1
  <2>4. ASSUME NEW d \in Client, d \in ready PROVE link'[d] \notin {"none", "queued"}
    BY <1>6, <1>7, <2>4 DEF PoolInv, Sockets
  <2> QED
    BY <1>2, <1>4, <2>1, <2>2, <2>3, <2>4 DEF Sockets
<1>15. Accepting'
  BY <1>2 DEF Accepting
<1>16. PoolExact'
  <2>1. NReadyExact'
    <3>1. i' = 1 /\ nready' = Cardinality(ReadyFrom(1)')
      BY <1>2, <1>4, <1>11
    <3> QED
      BY <3>1 DEF NReadyExact, ReadyFrom
  <2>2. Taken' = Taken \cup {k} /\ k \notin Taken /\ Taken \subseteq 1..Slots
    BY <1>3, <1>8 DEF Taken
  <2>3. active' = Cardinality(Taken')
    <3>1. IsFiniteSet(Taken) /\ active = Cardinality(Taken)
      BY <1>2, <2>2, SlotSets DEF PoolInv, PoolExact, SlotsExact, Taken
    <3> QED
      BY <1>2, <2>2, <3>1, FS_AddElement
  <2>4. \A m \in 1..Slots : slot'[m] # None => m <= maxi'
    BY <1>1, <1>2, <1>3, <1>7, <1>8 DEF PoolInv, PoolExact, SlotsExact
  <2>5. \A j, m \in 1..Slots : slot'[j] = slot'[m] /\ slot'[j] # None => j = m
    BY <1>2, <1>8, <1>9 DEF PoolInv, PoolExact, SlotsExact
  <2>6. SlotsExact'
    BY <2>3, <2>4, <2>5 DEF SlotsExact, Taken
  <2> QED
    BY <2>1, <2>6 DEF PoolExact
<1> QED
  BY <1>12, <1>13, <1>14, <1>15, <1>16 DEF PoolInv

LEMMA TooManyStep ==
    ASSUME PoolInv, TooManyClients
    PROVE  PoolInv'
<1>1. /\ UNCHANGED <<slot, maxi, active, ready, i, phase, cur, backlog, link>>
      /\ phase = "accept" /\ proc = "running" /\ proc' = "dead" /\ nready' = nready - 1
  BY DEF TooManyClients, At, pool, serving, wires
<1>2. nready = Cardinality(ReadyFrom(1)) + 1 /\ cur = None
  BY <1>1 DEF PoolInv, Accepting, Phases
<1>3. nready' \in Nat
  BY <1>1, <1>2, SlotSets DEF ReadyFrom
<1>4. PoolTypes' /\ Phases' /\ Sockets'
  BY <1>1, <1>3 DEF PoolInv, PoolTypes, Phases, Sockets
<1>5. Accepting' /\ PoolExact'
  BY <1>1, <1>2 DEF Accepting, PoolExact, NReadyExact
<1> QED
  BY <1>4, <1>5 DEF PoolInv

\* A step of the loop past slot i, with or without a client to serve in it.
LEMMA PastSlot ==
    ASSUME PoolInv, phase = "scan", i <= Slots,
           i' = i + 1, nready' = nready - (IF Ready(i) THEN 1 ELSE 0),
           \A k \in i+1..Slots : Ready(k)' <=> Ready(k)
    PROVE  nready' \in Nat /\ NReadyExact'
<1>1. nready = Cardinality(ReadyFrom(i))
  BY DEF PoolInv, PoolExact, NReadyExact, ReadyFrom
<1>2. /\ Cardinality(ReadyFrom(i)) \in Nat /\ Cardinality(ReadyFrom(i + 1)) \in Nat
      /\ ~Ready(i) => Cardinality(ReadyFrom(i + 1)) = Cardinality(ReadyFrom(i))
      /\ Ready(i) => Cardinality(ReadyFrom(i + 1)) = Cardinality(ReadyFrom(i)) - 1
  BY NextSlot DEF PoolInv
<1>3. ReadyFrom(i + 1) = {k \in i+1..Slots : Ready(k)'}
  BY DEF ReadyFrom
<1>4. nready' = Cardinality(ReadyFrom(i + 1))
  BY <1>1, <1>2
<1>5. NReadyExact'
  BY <1>3, <1>4 DEF NReadyExact
<1> QED
  BY <1>2, <1>4, <1>5

\* The slot handle_clients has come to.
LEMMA SlotReached ==
    ASSUME PoolInv, Scanning
    PROVE  /\ proc = "running" /\ phase = "scan" /\ cur = None
           /\ i \in 1..Slots /\ i <= Slots /\ i + 1 \in Nat \ {0}
           /\ slot[i] \in Client \cup {None}
BY ConstantsOK DEF PoolInv, PoolTypes, Phases, Scanning, At

LEMMA SkipSlotStep ==
    ASSUME PoolInv, SkipSlot
    PROVE  PoolInv'
<1>1. /\ UNCHANGED <<slot, maxi, active, ready, nready, phase, cur, backlog, link, proc>>
      /\ Scanning /\ ~Ready(i) /\ i' = i + 1
  BY DEF SkipSlot, core, pool, serving, wires
<1>2. \A k : Ready(k)' <=> Ready(k)
  BY <1>1 DEF Ready
<1>3. nready' \in Nat /\ NReadyExact'
  <2>1. nready' = nready - (IF Ready(i) THEN 1 ELSE 0)
    BY <1>1 DEF PoolInv, PoolTypes
  <2> QED
    BY <1>1, <1>2, <2>1, SlotReached, PastSlot
<1>4. PoolTypes' /\ Phases' /\ Sockets' /\ Accepting'
  BY <1>1, <1>3, SlotReached DEF PoolInv, PoolTypes, Phases, Sockets, Accepting
<1> QED
  BY <1>1, <1>3, <1>4 DEF PoolInv, PoolExact, SlotsExact

LEMMA TakeTextStep ==
    ASSUME PoolInv, TakeText
    PROVE  PoolInv'
<1>1. /\ UNCHANGED <<slot, maxi, active, ready, backlog, link, proc>>
      /\ Scanning /\ Ready(i) /\ i' = i + 1 /\ nready' = nready - 1
      /\ phase' \in {"handle", "block"} /\ cur' = slot[i]
  BY DEF TakeText, core, pool
<1>2. \A k : Ready(k)' <=> Ready(k)
  BY <1>1 DEF Ready
<1>3. nready' \in Nat /\ NReadyExact'
  BY <1>1, <1>2, SlotReached, PastSlot
<1>4. cur' # None /\ cur' \in Client
  BY <1>1, SlotReached DEF Ready
<1>5. PoolTypes' /\ Phases' /\ Accepting'
  BY <1>1, <1>3, <1>4, SlotReached DEF PoolInv, PoolTypes, Phases, Accepting
<1>6. Sockets'
  BY <1>1, SlotReached DEF PoolInv, Sockets
<1> QED
  BY <1>1, <1>3, <1>5, <1>6 DEF PoolInv, PoolExact, SlotsExact

LEMMA RemoveClientStep ==
    ASSUME PoolInv, RemoveClient
    PROVE  PoolInv'
<1> DEFINE c == slot[i]
<1>1. /\ UNCHANGED <<maxi, ready, phase, cur, backlog, proc>>
      /\ Scanning /\ Ready(i) /\ i' = i + 1 /\ nready' = nready - 1 /\ active' = active - 1
      /\ link[c] = "shut" /\ link' = [link EXCEPT ![c] = "gone"]
      /\ slot' = [slot EXCEPT ![i] = None]
  BY DEF RemoveClient, core, serving
<1>2. /\ c \in Client /\ c # None /\ i \in 1..Slots /\ proc = "running" /\ phase = "scan"
      /\ cur = None
  BY <1>1, SlotReached DEF Ready
<1>3. /\ slot \in [1..Slots -> Client \cup {None}] /\ active \in Nat
      /\ link \in [Client -> {"none", "queued", "open", "shut", "reset", "gone"}]
      /\ Slots \in Nat
  BY ConstantsOK DEF PoolInv, PoolTypes
<1>4. slot'[i] = None /\ \A m \in 1..Slots : m # i => slot'[m] = slot[m] /\ slot[m] # c
  BY <1>1, <1>2, <1>3 DEF PoolInv, PoolExact, SlotsExact
<1>5. \A m \in i+1..Slots : Ready(m)' <=> Ready(m)
  <2>1. \A m \in i+1..Slots : m \in 1..Slots /\ m # i
    BY <1>2, <1>3
  <2> QED
    BY <1>1, <1>4, <2>1 DEF Ready
<1>6. nready' \in Nat /\ NReadyExact'
  BY <1>1, <1>5, SlotReached, PastSlot
<1>7. /\ Taken' = Taken \ {i} /\ i \in Taken /\ active = Cardinality(Taken)
      /\ IsFiniteSet(Taken) /\ Taken' \subseteq 1..Slots
  <2>1. Taken' = Taken \ {i} /\ i \in Taken /\ Taken \subseteq 1..Slots
    BY <1>2, <1>4 DEF Taken
  <2> QED
    BY <1>2, <2>1, SlotSets DEF PoolInv, PoolExact, SlotsExact, Taken
<1>8. active' = Cardinality(Taken') /\ active' \in Nat
  BY <1>1, <1>7, FS_RemoveElement, SlotSets
<1>9. PoolTypes'
  <2>1. slot' \in [1..Slots -> Client \cup {None}]
    BY <1>1, <1>3
  <2>2. link' \in [Client -> {"none", "queued", "open", "shut", "reset", "gone"}]
    BY <1>1, <1>3
  <2> QED
    BY <1>1, <1>6, <1>8, <2>1, <2>2, SlotReached DEF PoolInv, PoolTypes
<1>10. Phases' /\ Accepting'
  BY <1>1, <1>2 DEF Phases, Accepting
<1>11. Sockets'
  <2>1. ASSUME NEW m \in 1..Slots, slot'[m] # None PROVE link'[slot'[m]] \in Live
    <3>1. m # i /\ slot'[m] = slot[m] /\ slot[m] # c /\ slot[m] \in Client
      BY <1>3, <1>4, <2>1
    <3> QED
      BY <1>1, <1>3, <2>1, <3>1 DEF PoolInv, Sockets
  <2>2. ASSUME NEW j \in 1..Len(backlog) PROVE link'[backlog[j]] = "queued"
    <3>1. backlog[j] \in Client /\ link[backlog[j]] = "queued"
      BY <2>2, ElementOfSeq DEF PoolInv, PoolTypes, Sockets
    <3> QED
      BY <1>1, <1>3, <3>1
  <2>3. ASSUME NEW d \in Client, d \in ready PROVE link'[d] \notin {"none", "queued"}
    BY <1>1, <1>3, <2>3 DEF PoolInv, Sockets
  <2> QED
    BY <1>1, <1>2, <2>1, <2>2, <2>3 DEF PoolInv, Sockets
<1>12. SlotsExact'
  <2>1. \A m \in 1..Slots : slot'[m] # None => m <= maxi'
    BY <1>1, <1>2, <1>4 DEF PoolInv, PoolExact, SlotsExact
  <2>2. \A j, m \in 1..Slots : slot'[j] = slot'[m] /\ slot'[j] # None => j = m
    BY <1>2, <1>4 DEF PoolInv, PoolExact, SlotsExact
  <2> QED
    BY <1>8, <2>1, <2>2 DEF SlotsExact, Taken
<1> QED
  BY <1>6, <1>9, <1>10, <1>11, <1>12 DEF PoolInv, PoolExact

-----------------------------------------------------------------------------
LEMMA NoneTaken ==
    ASSUME NEW s, s = [k \in 1..Slots |-> None]
    PROVE  Cardinality({k \in 1..Slots : s[k] # None}) = 0
<1>1. {k \in 1..Slots : s[k] # None} = {}
  OBVIOUS
<1> QED
  BY <1>1, FS_EmptySet

LEMMA PoolInit == Init => PoolInv
<1> SUFFICES ASSUME Init PROVE PoolInv
  OBVIOUS
<1> USE ConstantsOK
<1>1. PoolTypes
  BY EmptySeq DEF Init, PoolTypes
<1>2. Phases /\ Sockets /\ Accepting
  BY DEF Init, Phases, Sockets, Accepting
<1>3. SlotsExact
  BY NoneTaken DEF Init, SlotsExact
<1>4. NReadyExact
  BY DEF Init, NReadyExact
<1> QED
  BY <1>1, <1>2, <1>3, <1>4 DEF PoolInv, PoolExact

LEMMA RestartStep ==
    ASSUME PoolInv, Restart
    PROVE  PoolInv'
<1> USE ConstantsOK
<1>1. /\ phase' = "select" /\ nready' = 0 /\ i' = 1 /\ maxi' = 0 /\ active' = 0
      /\ slot' = [k \in 1..Slots |-> None] /\ ready' = {} /\ cur' = None /\ backlog' = <<>>
      /\ link' = [c \in Client |-> IF link[c] = "none" THEN "none" ELSE "gone"]
  BY DEF Restart
<1>2. PoolTypes'
  BY <1>1, EmptySeq DEF PoolTypes
<1>3. Phases' /\ Sockets' /\ Accepting'
  BY <1>1 DEF Phases, Sockets, Accepting
<1>4. SlotsExact'
  <2>1. active' = Cardinality({k \in 1..Slots : slot'[k] # None})
    BY <1>1, NoneTaken
  <2>2. \A k \in 1..Slots : slot'[k] = None
    BY <1>1
  <2> QED
    BY <2>1, <2>2 DEF SlotsExact
<1>5. NReadyExact'
  BY <1>1 DEF NReadyExact
<1> QED
  BY <1>2, <1>3, <1>4, <1>5 DEF PoolInv, PoolExact

LEMMA PoolStep == PoolInv /\ [Next]_vars => PoolInv'
<1> SUFFICES ASSUME PoolInv, [Next]_vars PROVE PoolInv'
  OBVIOUS
<1>1. CASE Server
  <2>1. ASSUME \/ ReadMore \/ Broken \/ EndScan \/ SaveOpen \/ SaveClose
               \/ HandleShow \/ HandleJunk \/ HandleUnknown \/ HandleShort
               \/ HandleBuy \/ HandleSell
        PROVE  PoolInv'
    BY <2>1, ServingSteps
  <2> QED
    BY <1>1, <2>1, SelectStep, AddClientStep, TooManyStep, SkipSlotStep, RemoveClientStep,
       TakeTextStep, ExitStep, ReplyStep DEF Server, Handle
<1>2. CASE Clients
  BY <1>2, ClientSteps, ConnectStep DEF Clients
<1>3. CASE Kill
  BY <1>3, ServingSteps
<1>4. CASE Restart
  BY <1>4, RestartStep
<1>5. CASE UNCHANGED vars
  <2>1. UNCHANGED <<slot, maxi, active, ready, nready, i, phase, cur, backlog, link, proc>>
    BY <1>5 DEF vars, core, pool, loop, serving, wires
  <2> QED
    BY <2>1 DEF PoolInv, PoolTypes, Phases, Sockets, Accepting, ReadyFrom, Ready, PoolExact,
                NReadyExact, SlotsExact
<1> QED
  BY <1>1, <1>2, <1>3, <1>4, <1>5 DEF Next, Quiet

\* Whatever comes, goes and breaks off, with any number of slots and clients:
\* nready counts the ready clients handle_clients has still to reach, active
\* the slots in use, and maxi is beyond all of these
\* (task_1/stockserver.c:69-81, 175-217, 341).
THEOREM PoolIsExact == Spec => []PoolExact
<1>1. PoolInv => PoolExact
  BY DEF PoolInv
<1> QED
  BY <1>1, PoolInit, PoolStep, PTL DEF Spec

-----------------------------------------------------------------------------
Amounts == -(IntMax+1)..IntMax
Phase   == {"select", "accept", "scan", "block", "handle", "open", "write", "reply"}

DataOK ==
    /\ stock \in [Item -> Amounts] \cup {NoFile} /\ file \in [Item -> Amounts] \cup {NoFile}
    /\ proc \in {"running", "dead"} /\ phase \in Phase
    /\ req \in Trades \cup {Show, Junk, Exit}
    /\ inbox \in [Client -> Seq(Pieces)]
    /\ waiting \in [Client -> BOOLEAN] /\ budget \in [Client -> 0..Budget]
    /\ kills \in 0..Kills /\ lost \in Nat

\* A trade leaves an int: below the type's least value buy() and above its
\* greatest sell() wrap around.
LEMMA WrapsToInt ==
    ASSUME NEW a \in Amounts, NEW q \in Qty
    PROVE  Wrap(a + q) \in Amounts /\ (a >= q => Wrap(a - q) \in Amounts)
BY ConstantsOK DEF Amounts, Wrap

LEMMA WastedIsNat ==
    ASSUME NEW s \in Seq(Pieces)
    PROVE  Wasted(s) \in Nat
<1>1. Len(s) \in Nat /\ DOMAIN s = 1..Len(s)
  BY LenProperties
<1>2. IsFiniteSet(DOMAIN s)
  BY <1>1, FS_Interval
<1>3. IsFiniteSet({k \in DOMAIN s : s[k].kind \in {"whole", "rest"}})
  BY <1>2, FS_Subset
<1> QED
  BY <1>3, FS_CardinalityType DEF Wasted

\* What is left of a line that ends too early is a line of some kind.
LEMMA CutIsLine ==
    ASSUME NEW r \in Trades \cup {Show, Junk, Exit}
    PROVE  Unterminated(r) \subseteq Trades \cup {Show, Junk, Exit}
BY DEF Unterminated, CutShort

LEMMA DataOfClients ==
    ASSUME DataOK, NEW c \in Client,
           Connect(c) \/ SendLine(c) \/ SendPart(c) \/ SendRest(c) \/ Close(c)
    PROVE  DataOK'
<1>1. UNCHANGED <<core, phase, req, kills, lost>>
  BY DEF Connect, SendLine, SendPart, SendRest, Close, Send, loop, serving
<1>2. inbox' \in [Client -> Seq(Pieces)]
  <2>1. ASSUME NEW t \in Seq(Pieces), inbox' = [inbox EXCEPT ![c] = @ \o t]
        PROVE  inbox' \in [Client -> Seq(Pieces)]
    <3>1. inbox[c] \o t \in Seq(Pieces)
      BY ConcatProperties DEF DataOK
    <3> QED
      BY <2>1, <3>1 DEF DataOK
  <2>2. \A r \in Lines : <<Whole(r)>> \in Seq(Pieces) /\ <<Part(r)>> \in Seq(Pieces)
    BY DEF Lines, Whole, Part, Pieces
  <2>3. <<Rest>> \in Seq(Pieces)
    BY DEF Pieces
  <2>4. CASE Connect(c) \/ Close(c)
    BY <2>4 DEF Connect, Close, DataOK
  <2> QED
    BY <2>1, <2>2, <2>3, <2>4 DEF SendLine, SendPart, SendRest, Send
<1>3. waiting' \in [Client -> BOOLEAN]
  BY DEF Connect, SendLine, SendPart, SendRest, Close, DataOK
<1>4. budget' \in [Client -> 0..Budget]
  BY ConstantsOK DEF Connect, SendLine, SendPart, SendRest, Close, MaySend, DataOK
<1> QED
  BY <1>1, <1>2, <1>3, <1>4 DEF DataOK, core

LEMMA DataOfPool ==
    ASSUME DataOK, PoolInv, \/ Select \/ AddClient \/ TooManyClients \/ SkipSlot
                            \/ RemoveClient \/ Broken \/ EndScan \/ Reply
    PROVE  DataOK'
<1>1. UNCHANGED <<stock, file, req, inbox, budget, kills, lost>>
  BY DEF Select, AddClient, TooManyClients, SkipSlot, RemoveClient, Broken, EndScan, Reply,
         core, serving, wires
<1>2. proc' \in {"running", "dead"}
  BY DEF Select, AddClient, TooManyClients, SkipSlot, RemoveClient, Broken, EndScan, Reply,
         core, DataOK
<1>3. phase' \in Phase
  BY DEF Select, AddClient, TooManyClients, SkipSlot, RemoveClient, Broken, EndScan, Reply,
         loop, DataOK, Phase
<1>4. waiting' \in [Client -> BOOLEAN]
  BY DEF Select, AddClient, TooManyClients, SkipSlot, RemoveClient, Broken, EndScan, Reply,
         wires, DataOK
<1> QED
  BY <1>1, <1>2, <1>3, <1>4 DEF DataOK

LEMMA DataOfReads ==
    ASSUME DataOK, PoolInv, TakeText \/ ReadMore
    PROVE  DataOK'
<1>1. UNCHANGED <<core, waiting, budget, kills>> /\ phase' \in Phase
  BY DEF TakeText, ReadMore, Phase
<1>2. CASE TakeText
  <2> DEFINE c == slot[i]  p == inbox[c]
             n == IF p[1].kind = "part" /\ Len(p) > 1 THEN 2 ELSE 1
  <2>1. /\ Scanning /\ Ready(i) /\ p # <<>>
        /\ inbox' = [inbox EXCEPT ![c] = <<>>]
        /\ lost' = lost + Wasted(SubSeq(p, n + 1, Len(p)))
        /\ \/ req' \in IF p[1].kind = "rest" THEN {Junk}
                       ELSE IF p[1].kind = "part" /\ n = 1 THEN Unterminated(p[1].req)
                       ELSE {p[1].req}
           \/ p[1].kind = "part" /\ req' = p[1].req
    BY <1>2 DEF TakeText
  <2>2. c \in Client /\ p \in Seq(Pieces) /\ Len(p) \in Nat /\ Len(p) > 0
    BY <2>1, SlotReached, EmptySeq DEF Ready, DataOK
  <2>3. p[1] \in Pieces
    BY <2>2, ElementOfSeq
  <2>4. p[1].kind = "rest" \/ p[1].req \in Trades \cup {Show, Junk, Exit}
    BY <2>3 DEF Pieces, Rest
  <2>5. req' \in Trades \cup {Show, Junk, Exit}
    BY <2>1, <2>4, CutIsLine
  <2>6. SubSeq(p, n + 1, Len(p)) \in Seq(Pieces)
    <3>1. n \in {1, 2}
      OBVIOUS
    <3>2. \A k \in n + 1..Len(p) : p[k] \in Pieces
      BY <2>2, <3>1, ElementOfSeq
    <3> QED
      BY <2>2, <3>1, <3>2, SubSeqProperties
  <2>7. lost' \in Nat
    <3>1. Wasted(SubSeq(p, n + 1, Len(p))) \in Nat
      BY <2>6, WastedIsNat
    <3> HIDE DEF n, p
    <3> QED
      BY <2>1, <3>1 DEF DataOK
  <2>8. inbox' \in [Client -> Seq(Pieces)]
    BY <2>1, EmptySeq DEF DataOK
  <2> QED
    BY <1>1, <2>5, <2>7, <2>8 DEF DataOK, core
<1>3. CASE ReadMore
  <2>1. cur \in Client /\ inbox[cur] \in Seq(Pieces)
    BY <1>3 DEF ReadMore, At, PoolInv, Phases, PoolTypes, DataOK
  <2>2. req' \in Trades \cup {Show, Junk, Exit}
    BY <1>3, CutIsLine DEF ReadMore, DataOK
  <2>3. lost' \in Nat
    <3>1. CASE inbox[cur] # <<>>
      <4>1. Wasted(Tail(inbox[cur])) \in Nat
        BY <2>1, <3>1, HeadTailProperties, WastedIsNat
      <4>2. lost' = lost + Wasted(Tail(inbox[cur]))
        BY <1>3, <3>1 DEF ReadMore
      <4> QED
        BY <4>1, <4>2 DEF DataOK
    <3>2. CASE inbox[cur] = <<>>
      BY <1>3, <3>2 DEF ReadMore, DataOK
    <3> QED
      BY <3>1, <3>2
  <2>4. inbox' \in [Client -> Seq(Pieces)]
    BY <1>3, EmptySeq DEF ReadMore, DataOK
  <2> QED
    BY <1>1, <2>2, <2>3, <2>4 DEF DataOK, core
<1> QED
  BY <1>2, <1>3

LEMMA DataOfCommands ==
    ASSUME DataOK, Handle \/ SaveOpen \/ SaveClose
    PROVE  DataOK'
<1>1. UNCHANGED <<req, inbox, budget, kills, lost>>
  BY DEF Handle, HandleShow, HandleJunk, HandleUnknown, HandleShort, HandleBuy, HandleSell,
         HandleExit, SaveOpen, SaveClose, Respond, serving, wires
<1>2. waiting' \in [Client -> BOOLEAN] /\ proc' \in {"running", "dead"} /\ phase' \in Phase
  BY DEF Handle, HandleShow, HandleJunk, HandleUnknown, HandleShort, HandleBuy, HandleSell,
         HandleExit, SaveOpen, SaveClose, Respond, wires, loop, DataOK, Phase
<1>3. file' \in [Item -> Amounts] \cup {NoFile}
  BY DEF Handle, HandleShow, HandleJunk, HandleUnknown, HandleShort, HandleBuy, HandleSell,
         HandleExit, SaveOpen, SaveClose, Respond, DataOK
<1>4. stock' \in [Item -> Amounts] \cup {NoFile}
  <2>1. ASSUME req \in Trades, req.id \in DOMAIN stock
        PROVE  /\ stock \in [Item -> Amounts] /\ req.id \in Item
               /\ stock[req.id] \in Amounts /\ req.qty \in Qty
    BY <2>1 DEF DataOK, NoFile, Trades
  <2>2. CASE HandleBuy
    <3>1. /\ req \in Trades /\ req.id \in DOMAIN stock /\ ~(stock[req.id] < req.qty)
          /\ stock' = [stock EXCEPT ![req.id] = Wrap(@ - req.qty)]
      BY <2>2 DEF HandleBuy, Short
    <3>2. stock[req.id] >= req.qty
      <4>1. stock[req.id] \in Amounts /\ req.qty \in Qty
        BY <2>1, <3>1
      <4>2. stock[req.id] \in Int /\ req.qty \in Int
        <5>1. Amounts \subseteq Int /\ Qty \subseteq Int
          BY ConstantsOK DEF Amounts
        <5> QED
          BY <4>1, <5>1
      <4> QED
        BY <3>1, <4>2
    <3>3. Wrap(stock[req.id] - req.qty) \in Amounts
      BY <2>1, <3>1, <3>2, WrapsToInt
    <3> QED
      BY <2>1, <3>1, <3>3
  <2>3. CASE HandleSell
    <3>1. /\ req \in Trades /\ req.id \in DOMAIN stock
          /\ stock' = [stock EXCEPT ![req.id] = Wrap(@ + req.qty)]
      BY <2>3 DEF HandleSell
    <3> QED
      BY <2>1, <3>1, WrapsToInt
  <2>4. CASE \/ HandleShow \/ HandleJunk \/ HandleUnknown \/ HandleShort
             \/ HandleExit \/ SaveOpen \/ SaveClose
    BY <2>4 DEF HandleShow, HandleJunk, HandleUnknown, HandleShort, HandleExit, SaveOpen,
                SaveClose, DataOK
  <2> QED
    BY <2>2, <2>3, <2>4 DEF Handle
<1> QED
  BY <1>1, <1>2, <1>3, <1>4 DEF DataOK

LEMMA DataStep == PoolInv /\ DataOK /\ [Next]_vars => DataOK'
<1> SUFFICES ASSUME PoolInv, DataOK, [Next]_vars PROVE DataOK'
  OBVIOUS
<1>1. CASE Server
  BY <1>1, DataOfPool, DataOfReads, DataOfCommands DEF Server
<1>2. CASE Clients
  BY <1>2, DataOfClients DEF Clients
<1>3. CASE Kill
  BY <1>3, ConstantsOK DEF Kill, DataOK, loop, serving, wires
<1>4. CASE Restart
  BY <1>4, ConstantsOK, EmptySeq DEF Restart, DataOK, Phase
<1>5. CASE UNCHANGED vars
  BY <1>5 DEF vars, core, loop, serving, wires, DataOK
<1> QED
  BY <1>1, <1>2, <1>3, <1>4, <1>5 DEF Next, Quiet

LEMMA DataInit == Init => DataOK
BY ConstantsOK, EmptySeq DEF Init, DataOK, Amounts, Phase

\* Every variable keeps its type: the counters of the pool never fall below
\* 0, maxi never points past the array, and amounts stay ints.
THEOREM TypeCorrect == Spec => []TypeOK
<1>1. PoolInv /\ DataOK => TypeOK
  BY DEF PoolInv, PoolTypes, DataOK, TypeOK, Amounts, Phase
<1> QED
  BY <1>1, DataInit, PoolInit, PoolStep, DataStep, PTL DEF Spec

-----------------------------------------------------------------------------
(* stock.txt.                                                              *)

\* A step of a client or of the pool changes neither the inventory nor
\* stock.txt, and enters no save: only EndScan and a trade do.
LEMMA QuietSteps ==
    ASSUME FileCurrent,
           \/ \E c \in Client : Connect(c) \/ SendLine(c) \/ SendPart(c) \/ SendRest(c) \/ Close(c)
           \/ Select \/ AddClient \/ TooManyClients \/ SkipSlot \/ RemoveClient
           \/ TakeText \/ ReadMore \/ Broken \/ EndScan \/ Reply
    PROVE  FileCurrent'
<1>1. ASSUME NEW c \in Client,
             Connect(c) \/ SendLine(c) \/ SendPart(c) \/ SendRest(c) \/ Close(c)
      PROVE  FileCurrent'
  BY <1>1 DEF FileCurrent, Connect, SendLine, SendPart, SendRest, Close, Send, core, loop
<1>2. ASSUME Select \/ AddClient \/ SkipSlot \/ RemoveClient PROVE FileCurrent'
  BY <1>2 DEF FileCurrent, Select, AddClient, SkipSlot, RemoveClient, At, Scanning, core
<1>3. ASSUME TakeText \/ ReadMore \/ EndScan \/ Reply PROVE FileCurrent'
  BY <1>3 DEF FileCurrent, TakeText, ReadMore, EndScan, Reply, At, Scanning, core
<1>4. ASSUME TooManyClients \/ Broken PROVE FileCurrent'
  BY <1>4 DEF FileCurrent, TooManyClients, Broken, loop
<1>5. QED BY <1>1, <1>2, <1>3, <1>4

\* A trade that changes the inventory goes straight into its save; every
\* other command leaves the inventory as it is.
LEMMA HandledAndSaved ==
    ASSUME FileCurrent, Handle \/ SaveOpen \/ SaveClose
    PROVE  FileCurrent'
<1>1. ASSUME HandleShow \/ HandleJunk \/ HandleUnknown \/ HandleShort PROVE FileCurrent'
  BY <1>1 DEF FileCurrent, HandleShow, HandleJunk, HandleUnknown, HandleShort, Respond, At
<1>2. ASSUME HandleBuy \/ HandleSell PROVE FileCurrent'
  BY <1>2 DEF FileCurrent, HandleBuy, HandleSell, Respond
<1>3. CASE HandleExit BY <1>3 DEF FileCurrent, HandleExit, loop
<1>4. CASE SaveOpen BY <1>4 DEF FileCurrent, SaveOpen
<1>5. CASE SaveClose BY <1>5 DEF FileCurrent, SaveClose
<1>6. QED BY <1>1, <1>2, <1>3, <1>4, <1>5 DEF Handle

\* Outside a save stock.txt holds the server's inventory, through any
\* number of kills and restarts.
THEOREM FileIsCurrent == Spec => []FileCurrent
<1>1. Init => FileCurrent
  BY DEF Init, FileCurrent
<1>2. FileCurrent /\ [Next]_vars => FileCurrent'
  <2> SUFFICES ASSUME FileCurrent, [Next]_vars PROVE FileCurrent'
    OBVIOUS
  <2>1. CASE Server BY <2>1, QuietSteps, HandledAndSaved DEF Server
  <2>2. CASE Clients BY <2>2, QuietSteps DEF Clients
  <2>3. CASE Kill BY <2>3 DEF Kill, FileCurrent, loop
  <2>4. CASE Restart BY <2>4 DEF Restart, FileCurrent
  <2>5. CASE UNCHANGED vars BY <2>5 DEF vars, core, loop, FileCurrent
  <2>6. QED BY <2>1, <2>2, <2>3, <2>4, <2>5 DEF Next, Quiet
<1>3. QED BY <1>1, <1>2, PTL DEF Spec
-----------------------------------------------------------------------------
\* Clients that wait for their replies and stay until they have them, and a
\* server nobody stops.
Undisturbed == Pipelining = {} /\ Rude = {} /\ Kills = 0 /\ "exit" \notin Ops

\* No trade a client could send now would overflow an int.
NoOverflow ==
    \A r \in Trades : r.id \in DOMAIN stock =>
        IF r.op = "buy" THEN stock[r.id] - r.qty <= IntMax
        ELSE stock[r.id] + r.qty \in 0..IntMax

Requests == Trades \cup {Show, Junk}

\* Where the line of a client is, and with it whether the client waits: not
\* begun, begun, complete, in the server's read(), or in handle_cmd.
Unsent(c)  == ~waiting[c] /\ midline[c] = <<>> /\ inbox[c] = <<>>
Begun(c)   == ~waiting[c] /\ midline[c] # <<>> /\ \E r \in Requests : inbox[c] = <<Part(r)>>
Arrived(c) == waiting[c] /\ midline[c] = <<>>
                /\ \E r \in Requests : inbox[c] \in {<<Whole(r)>>, <<Part(r), Rest>>}
Blocked(c) == \/ ~waiting[c] /\ midline[c] # <<>> /\ inbox[c] = <<>>
              \/ waiting[c] /\ midline[c] = <<>> /\ inbox[c] = <<Rest>>
Taken1(c)  == waiting[c] /\ midline[c] = <<>> /\ inbox[c] = <<>>

Talk(c) ==
    /\ link[c] # "reset" /\ (waiting[c] \/ midline[c] # <<>> => Connected(c))
    /\ cur # c => Unsent(c) \/ Begun(c) \/ Arrived(c)
    /\ cur = c /\ phase = "block" => Blocked(c)
    /\ cur = c /\ phase # "block" => Taken1(c)

TalkInv ==
    /\ \A c \in Client : Talk(c)
    /\ stock \in [Item -> Amounts] /\ kills = 0
    /\ midline \in [Client -> {<<>>} \cup {<<r>> : r \in Lines}]
    /\ phase \in {"block", "handle"} => req \in Requests /\ response = <<>>
    /\ cur = None => response = <<>>

Follows == Inventory!Next \/ UNCHANGED Inventory!vars

-----------------------------------------------------------------------------
LEMMA Pair ==
    ASSUME NEW x, NEW y
    PROVE  <<>> \o <<y>> = <<y>> /\ <<x>> \o <<y>> = <<x, y>>
<1> DEFINE s == <<x>> \o <<y>>  t == <<x, y>>
<1>1. <<x>> \in Seq({x, y}) /\ <<y>> \in Seq({x, y}) /\ t \in Seq({x, y})
  OBVIOUS
<1>2. s \in Seq({x, y}) /\ Len(s) = 2
  BY <1>1, ConcatProperties
<1>3. s[1] = x /\ s[2] = y
  BY <1>1, ConcatProperties
<1>4. Len(s) = Len(t) /\ \A k \in 1..Len(s) : s[k] = t[k]
  BY <1>2, <1>3
<1>5. <<>> \o <<y>> = <<y>>
  OBVIOUS
<1> HIDE DEF s, t
<1>6. s = t
  BY <1>1, <1>2, <1>4, SeqEqual
<1> QED
  BY <1>5, <1>6 DEF s, t

LEMMA Stutters ==
    ASSUME UNCHANGED <<stock, got>>, \A c \in Client : Call(c)' = Call(c)
    PROVE  Follows
BY DEF Follows, Inventory!vars

\* A client's line is one of the requests.
LEMMA LinesAreRequests ==
    ASSUME Undisturbed
    PROVE  Lines \subseteq Requests
BY DEF Undisturbed, Lines, Requests, Exit

\* Steps that read no text, send none and touch no client's line.
LEMMA OtherSteps ==
    ASSUME Undisturbed, PoolInv, TalkInv,
           \/ Select \/ AddClient \/ TooManyClients \/ SkipSlot \/ RemoveClient \/ EndScan
           \/ SaveOpen \/ SaveClose \/ Broken \/ Kill \/ Restart \/ UNCHANGED vars
           \/ \E c \in Client : Connect(c) \/ Close(c)
    PROVE  TalkInv' /\ Follows
<1>1. ~Kill /\ ~Restart
  BY DEF Kill, Restart, Undisturbed, TalkInv
<1>2. ~Broken
  <2>1. cur # None => cur \in Client
    BY DEF PoolInv, PoolTypes
  <2>2. \A c \in Client : link[c] # "reset"
    BY DEF TalkInv, Talk
  <2>3. phase \in {"block", "reply"} => cur # None
    BY DEF PoolInv, Phases
  <2>4. Scanning /\ Ready(i) => slot[i] \in Client
    BY SlotReached DEF Ready
  <2> QED
    BY <2>1, <2>2, <2>3, <2>4 DEF Broken
<1>3. /\ UNCHANGED <<stock, got, cur, req, response, inbox, midline, waiting, kills>>
      /\ \/ phase' = phase
         \/ phase \in {"select", "accept", "scan"} /\ phase' \in {"select", "accept", "scan", "open"}
         \/ phase = "open" /\ phase' = "write"
         \/ phase = "write" /\ phase' = IF cur = None THEN "select" ELSE "reply"
  BY <1>1, <1>2 DEF Select, AddClient, TooManyClients, SkipSlot, RemoveClient, EndScan, SaveOpen,
         SaveClose, Connect, Close, At, Scanning, vars, core, loop, serving, wires
<1>4. phase' \in {"block", "handle"} <=> phase \in {"block", "handle"}
  BY <1>3
<1>5. phase' = "block" <=> phase = "block"
  BY <1>3
<1>6. \A c \in Client : Handled(c)' <=> Handled(c)
  BY <1>3, ConstantsOK DEF Handled, PoolInv, Phases
<1>7. \A c \in Client : Call(c)' = Call(c)
  BY <1>3, <1>6 DEF Call, Requested
<1>8. ASSUME NEW c \in Client
      PROVE  link'[c] # "reset" /\ (waiting[c] \/ midline[c] # <<>> => link'[c] \in {"queued", "open"})
  <2>1. link[c] # "reset" /\ (waiting[c] \/ midline[c] # <<>> => link[c] \in {"queued", "open"})
    BY DEF TalkInv, Talk, Connected
  <2>2. link \in [Client -> {"none", "queued", "open", "shut", "reset", "gone"}]
    BY DEF PoolInv, PoolTypes
  <2>3. CASE AddClient
    BY <2>1, <2>2, <2>3 DEF AddClient
  <2>4. CASE RemoveClient
    BY <2>1, <2>2, <2>4 DEF RemoveClient
  <2>5. CASE \E d \in Client : Connect(d) \/ Close(d)
    <3>1. PICK d \in Client : Connect(d) \/ Close(d)
      BY <2>5
    <3>2. CASE Connect(d)
      BY <2>1, <2>2, <3>2 DEF Connect
    <3>3. CASE Close(d)
      BY <2>1, <2>2, <3>3 DEF Close, Undisturbed
    <3> QED
      BY <3>1, <3>2, <3>3
  <2>6. CASE \/ Select \/ TooManyClients \/ SkipSlot \/ EndScan \/ SaveOpen \/ SaveClose
             \/ UNCHANGED vars
    BY <2>1, <2>6 DEF Select, TooManyClients, SkipSlot, EndScan, SaveOpen, SaveClose, vars, wires
  <2> QED
    BY <1>1, <1>2, <2>3, <2>4, <2>5, <2>6
<1>9. \A c \in Client : Talk(c)'
  BY <1>3, <1>5, <1>8 DEF TalkInv, Talk, Connected, Unsent, Begun, Arrived, Blocked, Taken1
<1>10. TalkInv'
  BY <1>3, <1>4, <1>9 DEF TalkInv
<1> QED
  BY <1>3, <1>7, <1>10, Stutters

\* A step that changes the state of one client's request.
LEMMA CallChanges ==
    ASSUME NEW c \in Client, NEW v, Call(c)' = v,
           \A d \in Client : d # c => Call(d)' = Call(d)
    PROVE  [d \in Client |-> Call(d)]' = [[d \in Client |-> Call(d)] EXCEPT ![c] = v]
OBVIOUS

LEMMA Asks ==
    ASSUME NEW c \in Client, NEW r \in Requests, UNCHANGED <<stock, got>>,
           ~waiting[c], Call(c)' = Inventory!Pending(r),
           \A d \in Client : d # c => Call(d)' = Call(d)
    PROVE  Follows
<1>1. [d \in Client |-> Call(d)][c] = Inventory!Idle
  BY DEF Call, Inventory!Idle
<1>2. Inventory!Ask(c)
  BY <1>1, CallChanges DEF Inventory!Ask, Requests
<1> QED
  BY <1>2 DEF Follows, Inventory!Next

\* A piece of text arrives: with the end of its line the request does.
LEMMA SendSteps ==
    ASSUME Undisturbed, PoolInv, TalkInv, DataOK, NEW c \in Client,
           SendLine(c) \/ SendPart(c) \/ SendRest(c)
    PROVE  TalkInv' /\ Follows
<1>1. /\ UNCHANGED <<stock, got, cur, req, response, phase, link, kills>>
      /\ inbox \in [Client -> Seq(Pieces)] /\ waiting \in [Client -> BOOLEAN]
      /\ midline \in [Client -> {<<>>} \cup {<<r>> : r \in Lines}]
  BY DEF SendLine, SendPart, SendRest, Send, core, loop, serving, DataOK, TalkInv
<1>2. \A d \in Client : d # c => UNCHANGED <<inbox[d], waiting[d], midline[d]>>
  BY <1>1 DEF SendLine, SendPart, SendRest, Send
<1>3. \A d \in Client : d # c => Talk(d)' /\ Call(d)' = Call(d)
  BY <1>1, <1>2 DEF TalkInv, Talk, Connected, Unsent, Begun, Arrived, Blocked, Taken1, Call,
                    Requested, Handled
<1>4. Talk(c) /\ Connected(c)
  BY DEF TalkInv, SendLine, SendPart, SendRest, MaySend
<1>5. CASE SendLine(c)
  <2>1. PICK r \in Requests : inbox' = [inbox EXCEPT ![c] = @ \o <<Whole(r)>>]
    BY <1>5, LinesAreRequests DEF SendLine, Send
  <2>2. ~waiting[c] /\ midline[c] = <<>> /\ midline'[c] = <<>> /\ waiting'[c]
    BY <1>1, <1>5 DEF SendLine, Send, MaySend, Undisturbed
  <2>3. cur # c /\ inbox[c] = <<>>
    BY <1>4, <2>2 DEF Talk, Unsent, Begun, Arrived, Blocked, Taken1
  <2>4. inbox'[c] = <<Whole(r)>>
    BY <1>1, <2>1, <2>3
  <2>5. Talk(c)'
    BY <1>1, <1>4, <2>2, <2>3, <2>4 DEF Talk, Arrived, Connected
  <2>6. Call(c)' = Inventory!Pending(r)
    BY <1>1, <2>2, <2>3, <2>4 DEF Call, Handled, Requested, Whole, Inventory!Pending
  <2>7. midline' \in [Client -> {<<>>} \cup {<<q>> : q \in Lines}]
    BY <1>1, <1>5 DEF SendLine, Send
  <2>8. Follows
    BY <1>1, <1>3, <2>2, <2>6, Asks
  <2> QED
    BY <1>1, <1>3, <2>5, <2>7, <2>8 DEF TalkInv
<1>6. CASE SendPart(c)
  <2>1. PICK r \in Lines : /\ inbox' = [inbox EXCEPT ![c] = @ \o <<Part(r)>>]
                           /\ midline' = [midline EXCEPT ![c] = <<r>>]
    BY <1>6 DEF SendPart, Send
  <2>2. r \in Requests /\ ~waiting[c] /\ midline[c] = <<>> /\ midline'[c] # <<>> /\ ~waiting'[c]
    BY <1>1, <1>6, <2>1, LinesAreRequests DEF SendPart, MaySend, Undisturbed
  <2>3. cur # c /\ inbox[c] = <<>>
    BY <1>4, <2>2 DEF Talk, Unsent, Begun, Arrived, Blocked, Taken1
  <2>4. inbox'[c] = <<Part(r)>>
    BY <1>1, <2>1, <2>3
  <2>5. Talk(c)'
    BY <1>1, <1>4, <2>2, <2>3, <2>4 DEF Talk, Begun, Connected
  <2>6. Call(c)' = Call(c)
    BY <2>2 DEF Call
  <2>7. midline' \in [Client -> {<<>>} \cup {<<q>> : q \in Lines}]
    BY <1>1, <2>1
  <2>8. Follows
    BY <1>1, <1>3, <2>6, Stutters
  <2> QED
    BY <1>1, <1>3, <2>5, <2>7, <2>8 DEF TalkInv
<1>7. CASE SendRest(c)
  <2>1. /\ inbox' = [inbox EXCEPT ![c] = @ \o <<Rest>>] /\ midline[c] # <<>> /\ midline'[c] = <<>>
        /\ waiting'[c]
    BY <1>1, <1>7 DEF SendRest, Send
  <2>2. PICK r \in Requests :
           \/ cur = c /\ phase = "block" /\ inbox[c] = <<>> /\ r = req
           \/ cur # c /\ inbox[c] = <<Part(r)>>
    BY <1>4, <2>1 DEF TalkInv, Talk, Unsent, Begun, Arrived, Blocked, Taken1
  <2>3. ~waiting[c]
    BY <1>4, <2>1 DEF Talk, Unsent, Begun, Arrived, Blocked, Taken1
  <2>4. inbox'[c] = IF cur = c THEN <<Rest>> ELSE <<Part(r), Rest>>
    <3>1. inbox'[c] = inbox[c] \o <<Rest>>
      BY <1>1, <2>1
    <3>2. <<>> \o <<Rest>> = <<Rest>> /\ <<Part(r)>> \o <<Rest>> = <<Part(r), Rest>>
      BY Pair
    <3> QED
      BY <2>2, <3>1, <3>2
  <2>5. Talk(c)'
    BY <1>1, <1>4, <2>1, <2>2, <2>4 DEF Talk, Arrived, Blocked, Connected
  <2>6. Call(c)' = Inventory!Pending(r)
    BY <1>1, <2>1, <2>2, <2>4 DEF Call, Handled, Requested, Part, Inventory!Pending
  <2>7. midline' \in [Client -> {<<>>} \cup {<<q>> : q \in Lines}]
    BY <1>1, <1>7 DEF SendRest, Send
  <2>8. Follows
    BY <1>1, <1>3, <2>3, <2>6, Asks
  <2> QED
    BY <1>1, <1>3, <2>5, <2>7, <2>8 DEF TalkInv
<1> QED
  BY <1>5, <1>6, <1>7

\* The server's read(): a line that is complete is handed to handle_cmd, the
\* rest of it is waited for.
LEMMA ReadSteps ==
    ASSUME Undisturbed, PoolInv, TalkInv, DataOK, TakeText \/ ReadMore
    PROVE  TalkInv' /\ Follows
<1>1. /\ UNCHANGED <<stock, got, response, midline, waiting, link, kills>>
      /\ inbox \in [Client -> Seq(Pieces)]
  BY DEF TakeText, ReadMore, core, DataOK
<1>2. CASE TakeText
  <2>1. PICK c \in Client, p \in {inbox[slot[i]]} :
           c = slot[i] /\ p = inbox[c] /\ Scanning /\ phase = "scan" /\ cur = None
    BY <1>2, SlotReached DEF TakeText, Ready
  <2> DEFINE n == IF p[1].kind = "part" /\ Len(p) > 1 THEN 2 ELSE 1
  <2>2. /\ p # <<>> /\ inbox' = [inbox EXCEPT ![c] = <<>>] /\ cur' = c /\ cur # c
        /\ \/ /\ p[1].kind # "part" \/ n = 2 \/ link[c] = "shut"
              /\ phase' = "handle"
              /\ req' \in IF p[1].kind = "rest" THEN {Junk}
                          ELSE IF p[1].kind = "part" /\ n = 1 THEN Unterminated(p[1].req)
                          ELSE {p[1].req}
           \/ /\ p[1].kind = "part" /\ n = 1 /\ link[c] # "shut"
              /\ phase' = "block" /\ req' = p[1].req
    BY <1>2, <2>1, ConstantsOK DEF TakeText
  <2>3. /\ link[c] # "shut" /\ inbox'[c] = <<>> /\ response = <<>>
        /\ \A d \in Client : d # c => inbox'[d] = inbox[d] /\ cur # d /\ cur' # d
    BY <1>1, <2>1, <2>2, ConstantsOK DEF TalkInv, Talk, Connected, Begun, Arrived, Unsent
  <2>4. PICK r \in Requests :
           \/ p = <<Part(r)>> /\ ~waiting[c] /\ midline[c] # <<>>
           \/ p \in {<<Whole(r)>>, <<Part(r), Rest>>} /\ waiting[c] /\ midline[c] = <<>>
    BY <2>1, <2>2 DEF TalkInv, Talk, Unsent, Begun, Arrived
  <2>5. /\ req' = r
        /\ phase' = IF p = <<Part(r)>> THEN "block" ELSE "handle"
    <3>1. CASE p = <<Part(r)>>
      <4>1. p[1].kind = "part" /\ p[1].req = r /\ Len(p) = 1
        BY <3>1 DEF Part
      <4> QED
        BY <2>2, <2>3, <3>1, <4>1
    <3>2. CASE p = <<Part(r), Rest>>
      <4>1. p[1].kind = "part" /\ p[1].req = r /\ Len(p) = 2 /\ p # <<Part(r)>>
        BY <3>2 DEF Part
      <4> QED
        BY <2>2, <3>2, <4>1
    <3>3. CASE p = <<Whole(r)>>
      <4>1. p[1].kind = "whole" /\ p[1].req = r /\ Len(p) = 1 /\ p # <<Part(r)>>
        BY <3>3 DEF Whole, Part
      <4> QED
        BY <2>2, <3>3, <4>1
    <3> QED
      BY <2>4, <3>1, <3>2, <3>3
  <2>6. p = <<Part(r)>> <=> ~waiting[c]
    BY <2>4 DEF Whole, Part
  <2> HIDE DEF n
  <2>7. Talk(c)'
    <3>1. Talk(c)
      BY DEF TalkInv
    <3> QED
      BY <1>1, <2>2, <2>3, <2>4, <2>5, <2>6, <3>1 DEF Talk, Connected, Blocked, Taken1
  <2>8. ASSUME NEW d \in Client, d # c PROVE Talk(d)'
    <3>1. Talk(d) /\ cur # d /\ cur' # d /\ inbox'[d] = inbox[d]
      BY <2>3, <2>8 DEF TalkInv
    <3> QED
      BY <1>1, <3>1 DEF Talk, Connected, Unsent, Begun, Arrived
  <2>9. TalkInv'
    <3>1. \A d \in Client : Talk(d)'
      BY <2>7, <2>8
    <3>2. cur' # None
      BY <2>2, ConstantsOK
    <3> QED
      BY <1>1, <2>3, <2>5, <3>1, <3>2 DEF TalkInv
  <2>10. Requested(c)' = r /\ (waiting[c] => Requested(c) = r) /\ ~Handled(c) /\ ~Handled(c)'
    <3>1. Requested(c)' = r
      BY <2>2, <2>5 DEF Requested
    <3>2. waiting[c] => inbox[c][1].req = r
      BY <2>1, <2>4 DEF Whole, Part
    <3> QED
      BY <2>2, <2>5, <3>1, <3>2 DEF Requested, Handled
  <2>11. \A d \in Client : Call(d)' = Call(d)
    <3>1. Call(c)' = Call(c)
      BY <1>1, <2>10 DEF Call
    <3>2. \A d \in Client : d # c => Call(d)' = Call(d)
      BY <1>1, <2>3 DEF Call, Requested, Handled
    <3> QED
      BY <3>1, <3>2
  <2> QED
    BY <1>1, <2>9, <2>11, Stutters
<1>3. CASE ReadMore
  <2>1. /\ phase = "block" /\ phase' = "handle" /\ cur' = cur /\ inbox' = [inbox EXCEPT ![cur] = <<>>]
        /\ \/ inbox[cur] # <<>> /\ req' = req
           \/ inbox[cur] = <<>> /\ link[cur] = "shut"
    BY <1>3 DEF ReadMore, At
  <2>2. cur \in Client /\ cur # None
    BY <2>1 DEF PoolInv, Phases, PoolTypes
  <2>3. Blocked(cur) /\ req \in Requests /\ response = <<>>
    BY <2>1, <2>2 DEF TalkInv, Talk
  <2>4. inbox[cur] = <<Rest>> /\ waiting[cur] /\ midline[cur] = <<>> /\ req' = req
    BY <2>1, <2>2, <2>3 DEF TalkInv, Talk, Connected, Blocked
  <2>5. inbox'[cur] = <<>> /\ \A d \in Client : d # cur => inbox'[d] = inbox[d]
    BY <1>1, <2>1, <2>2
  <2>6. \A d \in Client : Talk(d)'
    BY <1>1, <2>1, <2>4, <2>5 DEF TalkInv, Talk, Connected, Unsent, Begun, Arrived, Taken1
  <2>7. TalkInv'
    BY <1>1, <2>1, <2>2, <2>3, <2>4, <2>6 DEF TalkInv
  <2>8. \A d \in Client : Call(d)' = Call(d)
    BY <1>1, <2>1, <2>4, <2>5 DEF Call, Requested, Handled
  <2> QED
    BY <1>1, <2>7, <2>8, Stutters
<1> QED
  BY <1>2, <1>3

-----------------------------------------------------------------------------
\* The answer a request gets.
LEMMA Replies ==
    ASSUME NEW c \in Client, NEW s, UNCHANGED got, Call(c)' = Inventory!Done(s),
           \A d \in Client : d # c => Call(d)' = Call(d)
    PROVE  Inventory!Reply(c, s)
BY CallChanges DEF Inventory!Reply

LEMMA Performs ==
    ASSUME NEW c \in Client, NEW r, Call(c) = Inventory!Pending(r),
           \/ Inventory!List(c, r) \/ Inventory!Trade(c, r) \/ Inventory!Refuse(c, r)
           \/ Inventory!UnknownItem(c, r) \/ Inventory!Reject(c, r)
    PROVE  Follows
<1>1. [d \in Client |-> Call(d)][c].phase = "pending" /\ [d \in Client |-> Call(d)][c].req = r
  BY DEF Inventory!Pending
<1>2. Inventory!Perform(c)
  BY <1>1 DEF Inventory!Perform
<1> QED
  BY <1>2 DEF Follows, Inventory!Next

\* show_stock walks the whole inventory in the order of the IDs.
LEMMA SameListing ==
    ASSUME stock \in [Item -> Amounts]
    PROVE  Listing = Inventory!Listing(stock) /\ <<>> \o Listing = Listing
<1> DEFINE order(D) == CHOOSE s \in [1..Cardinality(D) -> D] :
                          \A j, k \in DOMAIN s : j < k => s[j] < s[k]
           rows(D) == [k \in 1..Cardinality(D) |-> <<"row", order(D)[k], stock[order(D)[k]]>>]
<1>1. DOMAIN stock = Item
  OBVIOUS
<1>2. Listing = rows(DOMAIN stock)
  BY DEF Listing, ShowOrder, Row
<1>3. Inventory!Listing(stock) = rows(Item)
  <2>1. Inventory!Cardinality(Item) = Cardinality(Item)
    BY DEF Cardinality, Inventory!Cardinality
  <2> QED
    BY <2>1 DEF Inventory!Listing
<1>4. rows(Item) \in Seq({rows(Item)[k] : k \in 1..Cardinality(Item)})
  <2>1. Cardinality(Item) \in Nat
    BY ConstantsOK, FS_CardinalityType
  <2> HIDE DEF order
  <2> QED
    BY <2>1, IsASeq
<1> HIDE DEF rows
<1>5. <<>> \o rows(Item) = rows(Item)
  BY <1>4, ConcatEmptySeq
<1> QED
  BY <1>1, <1>2, <1>3, <1>5

\* handle_cmd: the request takes effect, and its answer is decided.
LEMMA HandleSteps ==
    ASSUME Undisturbed, NoOverflow, PoolInv, TalkInv, Handle
    PROVE  TalkInv' /\ Follows
<1>1. phase = "handle"
  BY DEF Handle, HandleShow, HandleJunk, HandleUnknown, HandleShort, HandleBuy, HandleSell,
         HandleExit, Respond, At
<1>2. cur \in Client /\ cur # None /\ req \in Requests /\ response = <<>> /\ Taken1(cur)
  BY <1>1 DEF PoolInv, Phases, PoolTypes, TalkInv, Talk
<1>3. ~HandleExit
  BY <1>2 DEF HandleExit, Requests, Trades, Show, Junk, Exit
<1>4. /\ UNCHANGED <<got, cur, req, link, inbox, midline, waiting, kills>>
      /\ phase' \in {"reply", "open"}
  BY <1>3 DEF Handle, HandleShow, HandleJunk, HandleUnknown, HandleShort, HandleBuy, HandleSell,
              Respond, wires
<1>5. stock \in [Item -> Amounts] /\ DOMAIN stock = Item
  BY DEF TalkInv
<1>6. Call(cur) = Inventory!Pending(req) /\ Call(cur)' = Inventory!Done(response')
  BY <1>1, <1>2, <1>4 DEF Call, Handled, Requested, Taken1, Inventory!Pending, Inventory!Done
<1>7. \A d \in Client : d # cur => Call(d)' = Call(d)
  BY <1>4 DEF Call, Handled, Requested
<1>8. ASSUME NEW s, response' = s PROVE Inventory!Reply(cur, s)
  BY <1>2, <1>4, <1>6, <1>7, <1>8, Replies
<1>9. \A d \in Client : Talk(d)'
  BY <1>1, <1>4 DEF TalkInv, Talk, Connected, Unsent, Begun, Arrived, Taken1
<1>10. ASSUME stock' \in [Item -> Amounts] PROVE TalkInv'
  BY <1>2, <1>4, <1>9, <1>10 DEF TalkInv
<1>11. \A m : <<>> \o Say(m) = Say(m) /\ Say(m) \o Say(m) = <<<<m>>, <<m>>>>
  BY Pair DEF Say
<1>12. CASE HandleShow
  <2>1. req.op = "show" /\ response' = Inventory!Listing(stock) /\ stock' = stock
    BY <1>2, <1>5, <1>12, SameListing DEF HandleShow, Respond, Show
  <2>2. Inventory!List(cur, req)
    BY <1>8, <2>1 DEF Inventory!List
  <2> QED
    BY <1>2, <1>5, <1>6, <1>10, <2>1, <2>2, Performs
<1>13. CASE HandleJunk
  <2>1. req.op = "junk" /\ response' = <<<<"invalid">>>> /\ stock' = stock
    BY <1>2, <1>11, <1>13 DEF HandleJunk, Respond, Junk, Say
  <2>2. Inventory!Reject(cur, req)
    BY <1>8, <2>1 DEF Inventory!Reject
  <2> QED
    BY <1>2, <1>5, <1>6, <1>10, <2>1, <2>2, Performs
<1>14. CASE HandleUnknown
  <2>1. /\ req.op \in {"buy", "sell"} /\ req.id \notin Item /\ stock' = stock
        /\ response' \in {<<>> \o Say("none"), <<>> \o (Say("none") \o Say("none"))}
    BY <1>2, <1>5, <1>14 DEF HandleUnknown, Respond, Trades
  <2>2. response' \in {<<<<"none">>>>, <<<<"none">>, <<"none">>>>}
    <3>1. <<>> \o <<<<"none">>, <<"none">>>> = <<<<"none">>, <<"none">>>>
      OBVIOUS
    <3> QED
      BY <1>11, <2>1, <3>1 DEF Say
  <2>3. \E n \in 1..2 : response' = [k \in 1..n |-> <<"none">>]
    <3>1. <<<<"none">>>> = [k \in 1..1 |-> <<"none">>]
      OBVIOUS
    <3>2. <<<<"none">>, <<"none">>>> = [k \in 1..2 |-> <<"none">>]
      OBVIOUS
    <3> QED
      BY <2>2, <3>1, <3>2
  <2>4. Inventory!UnknownItem(cur, req)
    BY <1>8, <2>1, <2>3 DEF Inventory!UnknownItem
  <2> QED
    BY <1>2, <1>5, <1>6, <1>10, <2>1, <2>4, Performs
<1>15. ASSUME req \in Trades, req.id \in Item
       PROVE  /\ req.op \in {"buy", "sell"} /\ stock[req.id] \in Int /\ req.qty \in Int
              /\ IntMax \in Nat
              /\ req.op = "buy" => stock[req.id] - req.qty <= IntMax
              /\ req.op = "sell" => stock[req.id] + req.qty \in 0..IntMax
  <2>1. stock[req.id] \in Amounts /\ req.qty \in Qty /\ req.op \in {"buy", "sell"}
    BY <1>5, <1>15 DEF Trades
  <2>2. stock[req.id] \in Int /\ req.qty \in Int /\ IntMax \in Nat
    <3>1. Amounts \subseteq Int /\ Qty \subseteq Int /\ IntMax \in Nat
      BY ConstantsOK DEF Amounts
    <3> QED
      BY <2>1, <3>1
  <2>3. IF req.op = "buy" THEN stock[req.id] - req.qty <= IntMax
        ELSE stock[req.id] + req.qty \in 0..IntMax
    BY <1>5, <1>15 DEF NoOverflow
  <2> QED
    BY <2>1, <2>2, <2>3
<1>16. CASE HandleShort
  <2>1. /\ req \in Trades /\ req.op = "buy" /\ req.id \in Item /\ stock[req.id] < req.qty
        /\ response' = <<<<"short">>>> /\ stock' = stock
    BY <1>2, <1>5, <1>11, <1>16 DEF HandleShort, Short, Respond, Say
  <2>2. stock[req.id] - req.qty \notin 0..IntMax
    BY <1>15, <2>1
  <2>3. Inventory!Refuse(cur, req)
    BY <1>8, <2>1, <2>2 DEF Inventory!Refuse, Inventory!Balance
  <2> QED
    BY <1>2, <1>5, <1>6, <1>10, <2>1, <2>3, Performs
<1>17. CASE HandleBuy
  <2>1. /\ req \in Trades /\ req.op = "buy" /\ req.id \in Item /\ ~(stock[req.id] < req.qty)
        /\ response' = <<<<"buy">>>>
        /\ stock' = [stock EXCEPT ![req.id] = Wrap(stock[req.id] - req.qty)]
    BY <1>2, <1>5, <1>11, <1>17 DEF HandleBuy, Short, Respond, Say
  <2>2. /\ stock[req.id] - req.qty \in 0..IntMax
        /\ Wrap(stock[req.id] - req.qty) = stock[req.id] - req.qty
    BY <1>15, <2>1 DEF Wrap
  <2>3. Inventory!Trade(cur, req)
    BY <1>8, <2>1, <2>2 DEF Inventory!Trade, Inventory!Balance
  <2>4. stock' \in [Item -> Amounts]
    BY <1>5, <1>15, <2>1, <2>2 DEF Amounts
  <2> QED
    BY <1>2, <1>6, <1>10, <2>3, <2>4, Performs
<1>18. CASE HandleSell
  <2>1. /\ req \in Trades /\ req.op = "sell" /\ req.id \in Item
        /\ response' = <<<<"sell">>>>
        /\ stock' = [stock EXCEPT ![req.id] = Wrap(stock[req.id] + req.qty)]
    BY <1>2, <1>5, <1>11, <1>18 DEF HandleSell, Respond, Say
  <2>2. /\ stock[req.id] + req.qty \in 0..IntMax
        /\ Wrap(stock[req.id] + req.qty) = stock[req.id] + req.qty
    BY <1>15, <2>1 DEF Wrap
  <2>3. Inventory!Trade(cur, req)
    BY <1>8, <2>1, <2>2 DEF Inventory!Trade, Inventory!Balance
  <2>4. stock' \in [Item -> Amounts]
    BY <1>5, <1>15, <2>1, <2>2 DEF Amounts
  <2> QED
    BY <1>2, <1>6, <1>10, <2>3, <2>4, Performs
<1> QED
  BY <1>3, <1>12, <1>13, <1>14, <1>16, <1>17, <1>18 DEF Handle

\* The reply reaches its client, which has kept the connection.
LEMMA AnswerStep ==
    ASSUME Undisturbed, PoolInv, TalkInv, DataOK, Reply
    PROVE  TalkInv' /\ Follows
<1>1. /\ phase = "reply" /\ phase' = "scan" /\ cur' = None /\ response' = <<>>
      /\ UNCHANGED <<stock, req, inbox, midline, kills>>
      /\ waiting' = [waiting EXCEPT ![cur] = FALSE]
  BY DEF Reply, At, core
<1>2. PICK c \in Client : c = cur
  BY <1>1 DEF PoolInv, Phases, PoolTypes
<1>3. Taken1(c) /\ link[c] # "shut"
  BY <1>1, <1>2 DEF TalkInv, Talk, Taken1, Connected
<1>4. link' = link /\ got' = [got EXCEPT ![c] = response]
  BY <1>2, <1>3 DEF Reply
<1>5. ~waiting'[c] /\ \A d \in Client : d # c => waiting'[d] = waiting[d]
  BY <1>1, <1>2 DEF DataOK
<1>6. ASSUME NEW d \in Client PROVE Talk(d)'
  <2>1. CASE d = c
    <3>1. cur' # c
      BY <1>1, ConstantsOK
    <3> QED
      BY <1>1, <1>3, <1>4, <1>5, <2>1, <3>1 DEF TalkInv, Talk, Taken1, Unsent, Connected
  <2>2. CASE d # c
    <3>1. Talk(d) /\ cur' # d
      BY <1>1, ConstantsOK DEF TalkInv
    <3> QED
      BY <1>1, <1>2, <1>4, <1>5, <2>2, <3>1 DEF Talk, Unsent, Begun, Arrived, Connected
  <2> QED
    BY <2>1, <2>2
<1>7. TalkInv'
  BY <1>1, <1>6 DEF TalkInv
<1>8. Call(c) = Inventory!Done(response) /\ Call(c)' = Inventory!Idle
  BY <1>1, <1>2, <1>3, <1>5 DEF Call, Handled, Taken1, Inventory!Done, Inventory!Idle
<1>9. \A d \in Client : d # c => Call(d)' = Call(d)
  BY <1>1, <1>2, <1>5, ConstantsOK DEF Call, Handled, Requested
<1>10. Inventory!Answer(c)
  <2>1. [d \in Client |-> Call(d)][c].phase = "done"
        /\ [d \in Client |-> Call(d)][c].reply = response
    BY <1>8 DEF Inventory!Done
  <2>2. [d \in Client |-> Call(d)]' = [[d \in Client |-> Call(d)] EXCEPT ![c] = Inventory!Idle]
    BY <1>8, <1>9, CallChanges
  <2> QED
    BY <1>1, <1>4, <2>1, <2>2 DEF Inventory!Answer
<1> QED
  BY <1>7, <1>10 DEF Follows, Inventory!Next

LEMMA Starts ==
    ASSUME Init
    PROVE  TalkInv /\ Inventory!Init
<1>1. /\ stock = Initial /\ phase = "select" /\ cur = None /\ response = <<>> /\ kills = 0
      /\ \A c \in Client : /\ link[c] = "none" /\ inbox[c] = <<>> /\ midline[c] = <<>>
                           /\ ~waiting[c]
      /\ midline \in [Client -> {<<>>}] /\ got = [c \in Client |-> <<>>]
  BY DEF Init
<1>2. \A c \in Client : Talk(c)
  BY <1>1, ConstantsOK DEF Talk, Unsent
<1>3. stock \in [Item -> Amounts]
  BY <1>1, ConstantsOK DEF Amounts
<1>4. [c \in Client |-> Call(c)] = [c \in Client |-> Inventory!Idle]
  BY <1>1 DEF Call, Inventory!Idle
<1> QED
  BY <1>1, <1>2, <1>3, <1>4 DEF TalkInv, Inventory!Init

\* However the lines of several clients arrive, in pieces and at any time,
\* the event loop is the atomic inventory of StockInventory for clients that
\* wait for their replies, whatever the numbers of slots and clients, as long
\* as no trade overflows an int (handle_clients and handle_cmd,
\* task_1/stockserver.c:187-242).
THEOREM ServesAtomically ==
    ASSUME Undisturbed
    PROVE  Spec /\ []NoOverflow => ImplementsInventory
<1> DEFINE I == PoolInv /\ DataOK /\ TalkInv
<1>1. Init => I /\ Inventory!Init
  BY PoolInit, DataInit, Starts
<1>2. I /\ NoOverflow /\ [Next]_vars => I' /\ [Inventory!Next]_(Inventory!vars)
  <2> SUFFICES ASSUME I, NoOverflow, [Next]_vars PROVE TalkInv' /\ Follows
    BY PoolStep, DataStep DEF Follows
  <2>1. CASE Server
    BY <2>1, OtherSteps, ReadSteps, HandleSteps, AnswerStep DEF Server
  <2>2. CASE Clients
    BY <2>2, OtherSteps, SendSteps DEF Clients
  <2>3. CASE Kill \/ Restart \/ UNCHANGED vars
    BY <2>3, OtherSteps
  <2> QED
    BY <2>1, <2>2, <2>3 DEF Next, Quiet
<1> HIDE DEF I
<1> QED
  BY <1>1, <1>2, PTL DEF Spec, ImplementsInventory, Inventory!Spec
=============================================================================
