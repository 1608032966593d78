------------------------- MODULE RioDialogue_proofs -------------------------
(***************************************************************************)
(* The bytes arrive in order, the two sides agree where a line ends, and   *)
(* what they do implements RequestReply, for every MAXLINE, every size of  *)
(* the buffers and of the connection, and every text.                      *)
(***************************************************************************)
EXTENDS RioDialogue, TLAPS

Left(c) == IF c > 0 THEN c ELSE 0

\* The stream of one direction, from the byte its reader's callers have got
\* last: the rest of rio_buf, then what is on its way.
InOrder(g, b, p, c, q) ==
    /\ \A i \in 1..Len(g) : g[i] = i
    /\ c > 0 => p + c = Len(b) /\ \A i \in 1..c : b[p + i] = Len(g) + i
    /\ \A i \in 1..Len(q) : q[i] = Len(g) + Left(c) + i

Moved(d) == Len(got[d]) + Left(cnt[d]) + Len(conn[d])

Streams ==
    /\ \A d \in Dir : InOrder(got[d], buf[d], ptr[d], cnt[d], conn[d])
    /\ \A d \in Dir : wrote[d] <= made[d]
    /\ sv # "gone" => wrote["up"] = Moved("up")
    /\ cl # "gone" => wrote["down"] = Moved("down")

\* A newline the server has not had is the end of the piece, a line of the
\* server begins where a piece does, and with a line its buffer is empty.
Lines ==
    sv # "gone" =>
    /\ \A x \in newlines : x <= Len(got["up"]) \/ x = made["up"]
    /\ Len(got["up"]) - n["up"] >= made["up"] - size
    /\ sv = "write" => Left(cnt["up"]) = 0

\* The server has the piece yet to come to its end, or it has answered.
Waiting == sv = "read" /\ n["down"] = 0 /\ Len(got["down"]) = made["down"]

Answering ==
    /\ \/ sv = "write" /\ wrote["down"] < made["down"]
       \/ sv = "read" /\ n["up"] = 0 /\ wrote["down"] = made["down"]
    /\ Len(got["up"]) = made["up"]
    /\ n["down"] < MaxLine /\ made["down"] = Len(got["down"]) + MaxLine - n["down"]

Turns ==
    sv # "gone" =>
    /\ cl = "fgets" => /\ sv = "read" /\ n["up"] = 0
                       /\ \A d \in Dir : Len(got[d]) = made[d]
    /\ cl = "write" => /\ sv = "read" /\ wrote["up"] < made["up"]
                       /\ Len(got["down"]) = made["down"]
    /\ cl = "read" => wrote["up"] = made["up"] /\ (Waiting \/ Answering)

\* rio_readnb is in its loop.
Short == cl = "read" => n["down"] < MaxLine

DialogueInv == TypeOK /\ Streams /\ Lines /\ Turns /\ Short

-----------------------------------------------------------------------------
\* Sequences: what concatenation and SubSeq hold.

LEMMA Joined ==
    ASSUME NEW s \in Seq(Nat), NEW t \in Seq(Nat)
    PROVE  /\ s \o t \in Seq(Nat) /\ Len(s \o t) = Len(s) + Len(t)
           /\ \A i \in 1..Len(s) : (s \o t)[i] = s[i]
           /\ \A i \in 1..Len(t) : (s \o t)[Len(s) + i] = t[i]
OBVIOUS

LEMMA Part ==
    ASSUME NEW s \in Seq(Nat), NEW i \in Nat, NEW k \in Nat, i + k <= Len(s)
    PROVE  /\ SubSeq(s, i + 1, i + k) \in Seq(Nat)
           /\ Len(SubSeq(s, i + 1, i + k)) = k
           /\ \A j \in 1..k : SubSeq(s, i + 1, i + k)[j] = s[i + j]
OBVIOUS

\* What a refill, a copy and a write do to a stream.

LEMMA FillKeeps ==
    ASSUME NEW g \in Seq(Nat), NEW b, NEW p, NEW c \in Int, NEW q \in Seq(Nat), c <= 0,
           InOrder(g, b, p, c, q), NEW k \in 1..Len(q)
    PROVE  /\ InOrder(g, SubSeq(q, 1, k), 0, k, SubSeq(q, k + 1, Len(q)))
           /\ SubSeq(q, 1, k) \in Seq(Nat) /\ SubSeq(q, k + 1, Len(q)) \in Seq(Nat)
           /\ Len(SubSeq(q, k + 1, Len(q))) = Len(q) - k
<1> DEFINE b2 == SubSeq(q, 1, k)
           q2 == SubSeq(q, k + 1, Len(q))
<1>1. Len(q) \in Nat /\ Len(g) \in Nat /\ k \in Nat /\ 0 + k <= Len(q) /\ k + (Len(q) - k) <= Len(q)
      /\ Len(q) - k \in Nat
  OBVIOUS
<1>2. b2 \in Seq(Nat) /\ Len(b2) = k /\ \A j \in 1..k : b2[j] = q[j]
  BY <1>1, Part
<1>3. q2 \in Seq(Nat) /\ Len(q2) = Len(q) - k /\ \A j \in 1..(Len(q) - k) : q2[j] = q[k + j]
  BY <1>1, Part
<1>4. \A i \in 1..Len(q) : q[i] = Len(g) + i
  BY <1>1 DEF InOrder, Left
<1> HIDE DEF b2, q2
<1>5. InOrder(g, b2, 0, k, q2)
  <2>1. 0 + k = Len(b2) /\ \A i \in 1..k : b2[0 + i] = Len(g) + i
    BY <1>1, <1>2, <1>4
  <2>2. \A i \in 1..Len(q2) : q2[i] = Len(g) + Left(k) + i
    BY <1>1, <1>3, <1>4 DEF Left
  <2>3. \A i \in 1..Len(g) : g[i] = i
    BY DEF InOrder
  <2> QED
    BY <2>1, <2>2, <2>3 DEF InOrder
<1> QED
  BY <1>2, <1>3, <1>5 DEF b2, q2

LEMMA CopyKeeps ==
    ASSUME NEW g \in Seq(Nat), NEW b \in Seq(Nat), NEW p \in Nat, NEW c \in Int, NEW q \in Seq(Nat),
           InOrder(g, b, p, c, q), NEW k \in 1..c
    PROVE  /\ InOrder(g \o SubSeq(b, p + 1, p + k), b, p + k, c - k, q)
           /\ g \o SubSeq(b, p + 1, p + k) \in Seq(Nat)
           /\ Len(g \o SubSeq(b, p + 1, p + k)) = Len(g) + k
           /\ b[p + 1] = Len(g) + 1
<1> DEFINE t == SubSeq(b, p + 1, p + k)
           h == g \o t
<1>1. c > 0 /\ c \in Nat /\ k \in Nat /\ Len(g) \in Nat /\ Left(c) = c /\ Left(c - k) = c - k
  BY DEF Left
<1>9. \A i \in 1..Len(g) : g[i] = i
  BY DEF InOrder
<1>10. p + c = Len(b)
  BY <1>1 DEF InOrder
<1>11. \A i \in 1..c : b[p + i] = Len(g) + i
  BY <1>1 DEF InOrder
<1>12. \A i \in 1..Len(q) : q[i] = Len(g) + c + i
  BY <1>1 DEF InOrder
<1>2. t \in Seq(Nat) /\ Len(t) = k /\ \A j \in 1..k : t[j] = b[p + j]
  <2>1. p + k <= Len(b)
    BY <1>1, <1>10
  <2> QED
    BY <1>1, <2>1, Part
<1> HIDE DEF t
<1>3. /\ h \in Seq(Nat) /\ Len(h) = Len(g) + k
      /\ \A i \in 1..Len(g) : h[i] = g[i]
      /\ \A i \in 1..k : h[Len(g) + i] = t[i]
  BY <1>2, Joined
<1> HIDE DEF h
<1>4. \A i \in 1..Len(h) : h[i] = i
  <2> SUFFICES ASSUME NEW i \in 1..Len(h) PROVE h[i] = i
    OBVIOUS
  <2>1. CASE i <= Len(g)
    <3>1. i \in 1..Len(g)
      BY <1>1, <2>1
    <3> QED
      BY <1>3, <1>9, <3>1
  <2>2. CASE i > Len(g)
    <3>1. i - Len(g) \in 1..k /\ i = Len(g) + (i - Len(g))
      BY <1>1, <1>3, <2>2
    <3>2. h[i] = t[i - Len(g)] /\ t[i - Len(g)] = b[p + (i - Len(g))]
      BY <1>2, <1>3, <3>1
    <3>3. i - Len(g) \in 1..c
      BY <1>1, <3>1
    <3>4. b[p + (i - Len(g))] = Len(g) + (i - Len(g))
      BY <1>11, <3>3
    <3> QED
      BY <3>1, <3>2, <3>4
  <2> QED
    BY <1>1, <1>3, <2>1, <2>2
<1>5. \A i \in 1..(c - k) : b[(p + k) + i] = Len(h) + i
  <2> SUFFICES ASSUME NEW i \in 1..(c - k) PROVE b[(p + k) + i] = Len(h) + i
    OBVIOUS
  <2>1. k + i \in 1..c /\ (p + k) + i = p + (k + i)
    BY <1>1
  <2>2. b[p + (k + i)] = Len(g) + (k + i)
    BY <1>11, <2>1
  <2> QED
    BY <1>1, <1>3, <2>1, <2>2
<1>6. \A i \in 1..Len(q) : q[i] = Len(h) + Left(c - k) + i
  BY <1>1, <1>3, <1>12
<1>7. InOrder(h, b, p + k, c - k, q)
  <2>1. (p + k) + (c - k) = p + c
    BY <1>1
  <2>2. (p + k) + (c - k) = Len(b)
    BY <1>10, <2>1, Zenon
  <2> QED
    BY <2>2, <1>4, <1>5, <1>6 DEF InOrder
<1>8. b[p + 1] = Len(g) + 1
  BY <1>1, <1>11
<1> QED
  BY <1>3, <1>7, <1>8 DEF h, t

LEMMA PutKeeps ==
    ASSUME NEW g \in Seq(Nat), NEW b, NEW p, NEW c \in Int, NEW q \in Seq(Nat),
           InOrder(g, b, p, c, q), NEW k \in Nat, NEW w, w = Len(g) + Left(c) + Len(q)
    PROVE  /\ InOrder(g, b, p, c, q \o [i \in 1..k |-> w + i])
           /\ q \o [i \in 1..k |-> w + i] \in Seq(Nat)
           /\ Len(q \o [i \in 1..k |-> w + i]) = Len(q) + k
<1> DEFINE t == [i \in 1..k |-> w + i]
           r == q \o t
<1>1. Len(g) \in Nat /\ Len(q) \in Nat /\ Left(c) \in Nat /\ w \in Nat
  BY DEF Left
<1>2. t \in Seq(Nat) /\ Len(t) = k /\ \A i \in 1..k : t[i] = w + i
  BY <1>1
<1> HIDE DEF t
<1>3. /\ r \in Seq(Nat) /\ Len(r) = Len(q) + k
      /\ \A i \in 1..Len(q) : r[i] = q[i]
      /\ \A i \in 1..k : r[Len(q) + i] = t[i]
  BY <1>2, Joined
<1> HIDE DEF r
<1>4. \A i \in 1..Len(r) : r[i] = Len(g) + Left(c) + i
  <2> SUFFICES ASSUME NEW i \in 1..Len(r) PROVE r[i] = Len(g) + Left(c) + i
    OBVIOUS
  <2>1. CASE i <= Len(q)
    BY <1>1, <1>3, <2>1 DEF InOrder
  <2>2. CASE i > Len(q)
    <3>1. i - Len(q) \in 1..k /\ i = Len(q) + (i - Len(q))
      BY <1>1, <1>3, <2>2
    <3>2. r[i] = t[i - Len(q)] /\ t[i - Len(q)] = w + (i - Len(q))
      BY <1>2, <1>3, <3>1
    <3> QED
      BY <1>1, <3>1, <3>2
  <2> QED
    BY <1>1, <1>3, <2>1, <2>2
<1>5. InOrder(g, b, p, c, r)
  BY <1>4 DEF InOrder
<1> QED
  BY <1>3, <1>5 DEF r, t

-----------------------------------------------------------------------------
\* What the functions of csapp.c do to the streams.

LEMMA Numbers ==
    ASSUME TypeOK, NEW d \in Dir
    PROVE  /\ got[d] \in Seq(Nat) /\ conn[d] \in Seq(Nat) /\ buf[d] \in Seq(Nat)
           /\ ptr[d] \in Nat /\ cnt[d] \in Int /\ n[d] \in Nat
           /\ made[d] \in Nat /\ wrote[d] \in Nat
           /\ Len(got[d]) \in Nat /\ Len(conn[d]) \in Nat /\ Left(cnt[d]) \in Nat
BY DEF TypeOK, Left

LEMMA CopyStream ==
    ASSUME TypeOK, Streams, NEW d \in Dir, NEW want \in Nat \ {0}, Copy(d, want),
           UNCHANGED <<buf, conn>>
    PROVE  \E c \in 1..want :
             /\ c <= Left(cnt[d]) /\ Left(cnt'[d]) = Left(cnt[d]) - c
             /\ Len(got'[d]) = Len(got[d]) + c /\ n'[d] = n[d] + c
             /\ \A e \in Dir : e # d => got'[e] = got[e] /\ cnt'[e] = cnt[e] /\ n'[e] = n[e]
             /\ \A e \in Dir : InOrder(got'[e], buf'[e], ptr'[e], cnt'[e], conn'[e])
             /\ buf[d][ptr[d] + 1] = Len(got[d]) + 1
             /\ got' \in [Dir -> Seq(Nat)] /\ ptr' \in [Dir -> Nat]
             /\ cnt' \in [Dir -> Int] /\ n' \in [Dir -> Nat]
<1> DEFINE c == Least(want, cnt[d])
<1>1. cnt[d] > 0 /\ c \in 1..cnt[d] /\ c \in 1..want /\ c \in Nat
  BY Numbers DEF Copy, Least
<1>2. got' = [got EXCEPT ![d] = @ \o SubSeq(buf[d], ptr[d] + 1, ptr[d] + c)]
  BY DEF Copy
<1>11. ptr' = [ptr EXCEPT ![d] = @ + c] /\ cnt' = [cnt EXCEPT ![d] = @ - c]
  BY DEF Copy
<1>12. n' = [n EXCEPT ![d] = @ + c]
  BY DEF Copy
<1> HIDE DEF c
<1> DEFINE g == got[d] \o SubSeq(buf[d], ptr[d] + 1, ptr[d] + c)
<1>3. InOrder(got[d], buf[d], ptr[d], cnt[d], conn[d])
  BY DEF Streams
<1>4. /\ InOrder(g, buf[d], ptr[d] + c, cnt[d] - c, conn[d])
      /\ g \in Seq(Nat) /\ Len(g) = Len(got[d]) + c /\ buf[d][ptr[d] + 1] = Len(got[d]) + 1
  <2>1. got[d] \in Seq(Nat) /\ buf[d] \in Seq(Nat) /\ ptr[d] \in Nat /\ cnt[d] \in Int
        /\ conn[d] \in Seq(Nat)
    BY Numbers
  <2>2. \A k \in 1..cnt[d] :
          /\ InOrder(got[d] \o SubSeq(buf[d], ptr[d] + 1, ptr[d] + k), buf[d], ptr[d] + k,
                     cnt[d] - k, conn[d])
          /\ got[d] \o SubSeq(buf[d], ptr[d] + 1, ptr[d] + k) \in Seq(Nat)
          /\ Len(got[d] \o SubSeq(buf[d], ptr[d] + 1, ptr[d] + k)) = Len(got[d]) + k
          /\ buf[d][ptr[d] + 1] = Len(got[d]) + 1
    BY <1>3, <2>1, CopyKeeps, Zenon
  <2> QED
    BY <1>1, <2>2, Zenon
<1> HIDE DEF g
<1>5. got' = [got EXCEPT ![d] = g]
  BY <1>2 DEF g
<1>6. /\ got' \in [Dir -> Seq(Nat)] /\ ptr' \in [Dir -> Nat]
      /\ cnt' \in [Dir -> Int] /\ n' \in [Dir -> Nat]
  <2>1. got \in [Dir -> Seq(Nat)] /\ ptr \in [Dir -> Nat] /\ cnt \in [Dir -> Int] /\ n \in [Dir -> Nat]
    BY DEF TypeOK
  <2>2. got' \in [Dir -> Seq(Nat)]
    BY <1>4, <1>5, <2>1
  <2>3. ptr' \in [Dir -> Nat]
    BY <1>1, <1>11, <2>1
  <2>4. cnt' \in [Dir -> Int]
    BY <1>1, <1>11, <2>1
  <2>5. n' \in [Dir -> Nat]
    BY <1>1, <1>12, <2>1
  <2> QED
    BY <2>2, <2>3, <2>4, <2>5
<1>7. got'[d] = g /\ ptr'[d] = ptr[d] + c /\ cnt'[d] = cnt[d] - c /\ n'[d] = n[d] + c
  BY <1>5, <1>11, <1>12 DEF TypeOK
<1>8. \A e \in Dir : e # d => got'[e] = got[e] /\ ptr'[e] = ptr[e] /\ cnt'[e] = cnt[e] /\ n'[e] = n[e]
  BY <1>5, <1>11, <1>12 DEF TypeOK
<1>9. \A e \in Dir : InOrder(got'[e], buf'[e], ptr'[e], cnt'[e], conn'[e])
  BY <1>4, <1>7, <1>8 DEF Streams
<1>10. c <= Left(cnt[d]) /\ Left(cnt'[d]) = Left(cnt[d]) - c
  BY <1>1, <1>7, Numbers DEF Left
<1> QED
  BY <1>1, <1>4, <1>6, <1>7, <1>8, <1>9, <1>10

LEMMA PutStream ==
    ASSUME TypeOK, Streams, NEW d \in Dir, wrote[d] = Moved(d), NEW k \in 1..MaxLine, Put(d, k)
    PROVE  /\ InOrder(got[d], buf[d], ptr[d], cnt[d], conn'[d])
           /\ \A e \in Dir : e # d => conn'[e] = conn[e] /\ wrote'[e] = wrote[e]
           /\ Len(conn'[d]) = Len(conn[d]) + k /\ wrote'[d] = wrote[d] + k
           /\ wrote'[d] <= made[d]
           /\ conn' \in [Dir -> Seq(Nat)] /\ wrote' \in [Dir -> Nat]
<1> DEFINE q == conn[d] \o [i \in 1..k |-> wrote[d] + i]
<1>1. k \in Nat /\ wrote[d] + k <= made[d]
  BY ConstantsOK, Numbers DEF Put, Least
<1>2. InOrder(got[d], buf[d], ptr[d], cnt[d], conn[d])
  BY DEF Streams
<1>3. wrote[d] = Len(got[d]) + Left(cnt[d]) + Len(conn[d])
  BY DEF Moved
<1>4. /\ InOrder(got[d], buf[d], ptr[d], cnt[d], q) /\ q \in Seq(Nat)
      /\ Len(q) = Len(conn[d]) + k
  <2>1. got[d] \in Seq(Nat) /\ cnt[d] \in Int /\ conn[d] \in Seq(Nat)
    BY Numbers
  <2> QED
    BY <1>1, <1>2, <1>3, <2>1, PutKeeps
<1>5. conn' = [conn EXCEPT ![d] = q] /\ wrote' = [wrote EXCEPT ![d] = @ + k]
  BY DEF Put
<1> HIDE DEF q
<1> QED
  BY <1>1, <1>4, <1>5 DEF TypeOK

LEMMA FillStep ==
    ASSUME DialogueInv, NEW d \in Dir, Fill(d), d = "up" => sv = "read"
    PROVE  DialogueInv'
<1> USE DEF DialogueInv
<1>1. /\ UNCHANGED <<server, made, size, newlines, cl, sv, wrote, n, got, asked, served, heard>>
      /\ cnt[d] <= 0 /\ ptr' = [ptr EXCEPT ![d] = 0]
  BY DEF Fill, text, tally
<1>2. PICK k \in 1..Len(conn[d]) :
        /\ buf' = [buf EXCEPT ![d] = SubSeq(conn[d], 1, k)]
        /\ conn' = [conn EXCEPT ![d] = SubSeq(@, k + 1, Len(@))]
        /\ cnt' = [cnt EXCEPT ![d] = k]
  <2>1. Len(conn[d]) \in Nat /\ RioBuf \in Nat
    BY Numbers, ConstantsOK
  <2>2. \A k \in 1..Least(RioBuf, Len(conn[d])) : k \in 1..Len(conn[d])
    BY <2>1 DEF Least
  <2> QED
    BY <2>2 DEF Fill
<1>3. InOrder(got[d], buf[d], ptr[d], cnt[d], conn[d])
  BY DEF Streams
<1> DEFINE b == SubSeq(conn[d], 1, k)
           q == SubSeq(conn[d], k + 1, Len(conn[d]))
<1>4. /\ InOrder(got[d], b, 0, k, q) /\ b \in Seq(Nat) /\ q \in Seq(Nat)
      /\ Len(q) = Len(conn[d]) - k
  BY <1>1, <1>3, Numbers, FillKeeps
<1>5. buf' = [buf EXCEPT ![d] = b] /\ conn' = [conn EXCEPT ![d] = q]
  BY <1>2
<1> HIDE DEF b, q
<1>6. TypeOK'
  <2>1. /\ buf' \in [Dir -> Seq(Nat)] /\ conn' \in [Dir -> Seq(Nat)]
        /\ ptr' \in [Dir -> Nat] /\ cnt' \in [Dir -> Int]
    <3>1. /\ buf \in [Dir -> Seq(Nat)] /\ conn \in [Dir -> Seq(Nat)]
          /\ ptr \in [Dir -> Nat] /\ cnt \in [Dir -> Int] /\ k \in Int
      BY DEF TypeOK
    <3>2. buf' \in [Dir -> Seq(Nat)] /\ conn' \in [Dir -> Seq(Nat)]
      BY <1>4, <1>5, <3>1
    <3>3. ptr' \in [Dir -> Nat] /\ cnt' \in [Dir -> Int]
      BY <1>1, <1>2, <3>1
    <3> QED
      BY <3>2, <3>3
  <2> QED
    BY <1>1, <2>1 DEF TypeOK
<1>7. /\ buf'[d] = b /\ conn'[d] = q /\ ptr'[d] = 0 /\ cnt'[d] = k
      /\ \A e \in Dir : e # d => /\ buf'[e] = buf[e] /\ conn'[e] = conn[e]
                                 /\ ptr'[e] = ptr[e] /\ cnt'[e] = cnt[e]
  BY <1>1, <1>2, <1>5 DEF TypeOK
<1>8. \A e \in Dir : InOrder(got'[e], buf'[e], ptr'[e], cnt'[e], conn'[e])
  BY <1>1, <1>4, <1>7 DEF Streams
<1>9. Left(cnt[d]) = 0 /\ Left(cnt'[d]) = k
  BY <1>1, <1>7, Numbers DEF Left
<1>10. \A e \in Dir : Moved(e)' = Moved(e)
  <2> SUFFICES ASSUME NEW e \in Dir PROVE Moved(e)' = Moved(e)
    OBVIOUS
  <2>1. CASE e = d
    BY <1>1, <1>4, <1>7, <1>9, <2>1, Numbers DEF Moved
  <2>2. CASE e # d
    BY <1>1, <1>7, <2>2 DEF Moved
  <2> QED
    BY <2>1, <2>2
<1>11. Streams'
  BY <1>1, <1>8, <1>10 DEF Streams, Dir
<1>12. Lines' /\ Turns' /\ Short'
  BY <1>1, <1>7 DEF Lines, Turns, Waiting, Answering, Short, Dir
<1> QED
  BY <1>6, <1>11, <1>12

LEMMA InterruptedStep ==
    ASSUME DialogueInv, NEW d \in Dir, Interrupted(d)
    PROVE  DialogueInv'
<1> USE DEF DialogueInv
<1>1. /\ UNCHANGED <<server, made, size, newlines, cl, sv, wrote, n, got, asked, served, heard,
                    conn, buf, ptr>>
      /\ cnt[d] <= 0 /\ cnt' = [cnt EXCEPT ![d] = -1]
  BY DEF Interrupted, text, tally
<1>2. TypeOK'
  <2>1. cnt' \in [Dir -> Int]
    BY <1>1 DEF TypeOK
  <2> QED
    BY <1>1, <2>1 DEF TypeOK
<1>3. /\ cnt'[d] = -1 /\ Left(cnt[d]) = 0 /\ Left(-1) = 0
      /\ \A e \in Dir : e # d => cnt'[e] = cnt[e]
  BY <1>1, Numbers DEF TypeOK, Left
<1>4. \A e \in Dir : Left(cnt'[e]) = Left(cnt[e]) /\ (cnt'[e] > 0 => cnt'[e] = cnt[e])
  BY <1>3
<1>5. \A e \in Dir : InOrder(got'[e], buf'[e], ptr'[e], cnt'[e], conn'[e])
  BY <1>1, <1>4 DEF Streams, InOrder
<1>6. Streams'
  BY <1>1, <1>4, <1>5 DEF Streams, Moved, Dir
<1>7. Lines' /\ Turns' /\ Short'
  BY <1>1, <1>4 DEF Lines, Turns, Waiting, Answering, Short, Dir
<1> QED
  BY <1>2, <1>6, <1>7

-----------------------------------------------------------------------------
\* The steps of the client.

LEMMA FgetsStep ==
    ASSUME DialogueInv, NEW k \in 1..MaxText, NEW nl \in BOOLEAN, Fgets(k, nl)
    PROVE  DialogueInv'
<1> USE DEF DialogueInv
<1>1. /\ UNCHANGED <<server, sv, wrote, conn, buf, ptr, cnt, n, got, served, heard>>
      /\ cl = "fgets" /\ cl' = "write" /\ size' = k /\ k < MaxLine /\ k \in Nat /\ k > 0
      /\ asked' = asked + 1
  BY ConstantsOK DEF Fgets, rio
<1>2. made' = [made EXCEPT !["up"] = @ + k]
  BY DEF Fgets
<1>3. newlines' \subseteq newlines \cup {made["up"] + k}
  BY DEF Fgets
<1>4. /\ made'["up"] = made["up"] + k /\ made'["down"] = made["down"]
      /\ made' \in [Dir -> Nat] /\ made["up"] \in Nat
  BY <1>1, <1>2 DEF TypeOK, Dir
<1>5. TypeOK'
  <2>1. newlines' \subseteq 1..made'["up"]
    <3>1. newlines \subseteq 1..made["up"]
      BY DEF TypeOK
    <3>2. \A x \in newlines' : x \in 1..made["up"] \/ x = made["up"] + k
      BY <1>3, <3>1
    <3> QED
      BY <1>1, <1>4, <3>2
  <2>2. size' \in 0..(MaxLine - 1) /\ asked' \in Nat
    BY <1>1, ConstantsOK DEF TypeOK
  <2> QED
    BY <1>1, <1>4, <2>1, <2>2 DEF TypeOK
<1>6. Streams'
  <2>1. \A d \in Dir : wrote[d] <= made[d] /\ wrote[d] \in Nat /\ made[d] \in Nat
    BY Numbers DEF Streams
  <2>2. \A d \in Dir : wrote'[d] <= made'[d]
    BY <1>1, <1>4, <2>1 DEF Dir
  <2> QED
    BY <1>1, <2>2 DEF Streams, Moved
<1>9. Short'
  BY <1>1 DEF Short
<1>7. CASE sv = "gone"
  BY <1>1, <1>5, <1>6, <1>7, <1>9 DEF Lines, Turns
<1>8. CASE sv # "gone"
  <2>1. /\ sv = "read" /\ n["up"] = 0 /\ Len(got["up"]) = made["up"]
        /\ Len(got["down"]) = made["down"]
    BY <1>1, <1>8 DEF Turns, Dir
  <2>2. wrote["up"] <= made["up"] /\ wrote["up"] \in Nat
    BY Numbers DEF Streams, Dir
  <2>3. \A x \in newlines' : x <= Len(got["up"]) \/ x = made'["up"]
    BY <1>3, <1>4, <2>1 DEF TypeOK
  <2>4. Lines'
    BY <1>1, <1>4, <2>1, <2>3 DEF Lines
  <2>5. Turns'
    BY <1>1, <1>4, <2>1, <2>2 DEF Turns
  <2> QED
    BY <1>5, <1>6, <1>9, <2>4, <2>5
<1> QED
  BY <1>7, <1>8

LEMMA ClientWriteStep ==
    ASSUME DialogueInv, ClientWrite
    PROVE  DialogueInv'
<1> USE DEF DialogueInv
<1>1. /\ UNCHANGED <<server, made, size, newlines, sv, buf, ptr, cnt, got, asked, served, heard>>
      /\ cl = "write" /\ sv # "gone" /\ "up" \in Dir
  BY DEF ClientWrite, text, rio, tally, Dir
<1>2. PICK k \in 1..MaxLine : Put("up", k)
  BY DEF ClientWrite
<1>3. wrote["up"] = Moved("up")
  BY <1>1 DEF Streams
<1>4. /\ InOrder(got["up"], buf["up"], ptr["up"], cnt["up"], conn'["up"])
      /\ conn'["down"] = conn["down"] /\ wrote'["down"] = wrote["down"]
      /\ Len(conn'["up"]) = Len(conn["up"]) + k /\ wrote'["up"] = wrote["up"] + k
      /\ wrote'["up"] <= made["up"]
      /\ conn' \in [Dir -> Seq(Nat)] /\ wrote' \in [Dir -> Nat]
  BY <1>1, <1>2, <1>3, PutStream DEF Dir
<1>5. /\ cl' \in {"write", "read"} /\ n' \in [Dir -> Nat] /\ n'["up"] = n["up"]
      /\ cl' = "write" => wrote'["up"] # made["up"] /\ n' = n
      /\ cl' = "read" => wrote'["up"] = made["up"] /\ n'["down"] = 0
  BY <1>1 DEF ClientWrite, TypeOK, Dir
<1>6. TypeOK'
  BY <1>1, <1>4, <1>5 DEF TypeOK
<1>7. Streams'
  <2>1. \A d \in Dir : InOrder(got'[d], buf'[d], ptr'[d], cnt'[d], conn'[d])
    BY <1>1, <1>4 DEF Streams, Dir
  <2>2. \A d \in Dir : wrote'[d] <= made'[d]
    BY <1>1, <1>4 DEF Streams, Dir
  <2>3. Moved("up")' = Moved("up") + k
    <3>1. Len(got["up"]) \in Nat /\ Left(cnt["up"]) \in Nat /\ Len(conn["up"]) \in Nat
      BY <1>1, Numbers
    <3> QED
      BY <1>1, <1>4, <3>1 DEF Moved
  <2>4. Moved("down")' = Moved("down")
    BY <1>1, <1>4 DEF Moved
  <2> QED
    BY <1>1, <1>3, <1>4, <2>1, <2>2, <2>3, <2>4 DEF Streams
<1>8. Lines'
  BY <1>1, <1>5 DEF Lines
<1>9. Turns'
  <2>1. sv = "read" /\ Len(got["down"]) = made["down"]
    BY <1>1 DEF Turns
  <2>2. wrote'["up"] \in Nat /\ made["up"] \in Nat
    BY <1>4 DEF TypeOK, Dir
  <2> QED
    BY <1>1, <1>4, <1>5, <2>1, <2>2 DEF Turns, Waiting
<1>10. Short'
  BY <1>1, <1>5, ConstantsOK DEF Short
<1> QED
  BY <1>6, <1>7, <1>8, <1>9, <1>10

LEMMA ClientCopyStep ==
    ASSUME DialogueInv, ClientCopy
    PROVE  DialogueInv'
<1> USE DEF DialogueInv
<1>1. /\ UNCHANGED <<server, made, size, newlines, sv, wrote, conn, buf, asked, served>>
      /\ cl = "read" /\ "down" \in Dir /\ "up" \in Dir
      /\ Copy("down", MaxLine - n["down"])
  BY DEF ClientCopy, text, Dir
<1>2. /\ n["down"] \in Nat /\ Len(got["down"]) \in Nat /\ Left(cnt["down"]) \in Nat
      /\ Len(conn["down"]) \in Nat /\ made["down"] \in Nat /\ wrote["down"] \in Nat
  BY <1>1, Numbers
<1>3. MaxLine - n["down"] \in Nat \ {0}
  BY <1>1, <1>2, ConstantsOK DEF Short
<1>4. PICK c \in 1..(MaxLine - n["down"]) :
         /\ c <= Left(cnt["down"]) /\ Left(cnt'["down"]) = Left(cnt["down"]) - c
         /\ Len(got'["down"]) = Len(got["down"]) + c /\ n'["down"] = n["down"] + c
         /\ \A e \in Dir : e # "down" => got'[e] = got[e] /\ cnt'[e] = cnt[e] /\ n'[e] = n[e]
         /\ \A e \in Dir : InOrder(got'[e], buf'[e], ptr'[e], cnt'[e], conn'[e])
         /\ got' \in [Dir -> Seq(Nat)] /\ ptr' \in [Dir -> Nat]
         /\ cnt' \in [Dir -> Int] /\ n' \in [Dir -> Nat]
  BY <1>1, <1>3, CopyStream
<1>5. c \in Nat /\ c > 0 /\ n'["down"] <= MaxLine
  BY <1>2, <1>3, <1>4, ConstantsOK
<1>13. c <= Left(cnt["down"]) /\ Len(got'["down"]) = Len(got["down"]) + c /\ n'["down"] = n["down"] + c
  BY <1>4
<1>6. /\ got'["up"] = got["up"] /\ cnt'["up"] = cnt["up"] /\ n'["up"] = n["up"]
  BY <1>1, <1>4
<1>7. /\ n'["down"] = MaxLine => cl' = "fgets" /\ heard' = heard + 1
      /\ n'["down"] # MaxLine => cl' = "read" /\ heard' = heard
  BY <1>1 DEF ClientCopy
<1>8. TypeOK'
  <2>1. cl' \in {"fgets", "read"} /\ heard' \in Nat
    BY <1>7 DEF TypeOK
  <2> QED
    BY <1>1, <1>4, <2>1 DEF TypeOK
<1>9. Streams'
  <2>1. Moved("down")' = Moved("down")
    BY <1>1, <1>2, <1>4, <1>5 DEF Moved
  <2>2. Moved("up")' = Moved("up")
    BY <1>1, <1>6 DEF Moved
  <2>3. cl # "gone" /\ cl' # "gone"
    BY <1>1, <1>7
  <2>4. \A d \in Dir : InOrder(got'[d], buf'[d], ptr'[d], cnt'[d], conn'[d])
    BY <1>4
  <2> QED
    BY <1>1, <2>1, <2>2, <2>3, <2>4 DEF Streams
<1>10. Lines'
  BY <1>1, <1>6 DEF Lines
<1>11. Short'
  BY <1>2, <1>4, <1>5, <1>7, ConstantsOK DEF Short
<1>12. Turns'
  <2>1. CASE sv = "gone"
    BY <1>1, <2>1 DEF Turns
  <2>2. CASE sv # "gone"
    <3>1. wrote["up"] = made["up"] /\ (Waiting \/ Answering)
      BY <1>1, <2>2 DEF Turns
    <3>2. wrote["down"] = Moved("down") /\ wrote["down"] <= made["down"]
      BY <1>1 DEF Streams
    <3>3. Left(cnt["down"]) >= 1 /\ wrote["down"] >= Len(got["down"]) + c
      BY <1>2, <1>5, <1>13, <3>2 DEF Moved
    <3>4. Answering
      BY <1>2, <1>5, <3>1, <3>2, <3>3 DEF Waiting
    <3>5. made["down"] = Len(got'["down"]) + MaxLine - n'["down"]
      BY <1>2, <1>5, <1>13, <3>4, ConstantsOK DEF Answering
    <3>6. CASE n'["down"] = MaxLine
      <4>1. wrote["down"] = made["down"] /\ Len(got'["down"]) = made["down"]
        BY <1>2, <1>5, <1>13, <3>2, <3>3, <3>5, <3>6, ConstantsOK
      <4>2. sv = "read" /\ n["up"] = 0 /\ Len(got["up"]) = made["up"]
        BY <1>2, <3>4, <4>1 DEF Answering
      <4> QED
        BY <1>1, <1>6, <1>7, <3>6, <4>1, <4>2 DEF Turns, Dir
    <3>7. CASE n'["down"] # MaxLine
      <4>1. n'["down"] < MaxLine
        BY <1>2, <1>5, <1>13, <3>7, ConstantsOK
      <4>2. Answering'
        BY <1>1, <1>6, <3>4, <3>5, <4>1 DEF Answering
      <4> QED
        BY <1>1, <1>7, <3>1, <3>7, <4>2 DEF Turns
    <3> QED
      BY <3>6, <3>7
  <2> QED
    BY <2>1, <2>2
<1> QED
  BY <1>8, <1>9, <1>10, <1>11, <1>12

\* The steps of a client whose server has ended, and its own end.
LEMMA ClientLeaveStep ==
    ASSUME DialogueInv, ClientShort \/ ClientEnds
    PROVE  DialogueInv'
<1> USE DEF DialogueInv
<1>1. /\ UNCHANGED <<server, made, size, newlines, sv, wrote, conn, buf, ptr, cnt, n, got,
                    asked, served, heard>>
      /\ cl # "gone" /\ cl' \in {"fgets", "gone"} /\ (cl' = "fgets" => sv = "gone")
  BY DEF ClientShort, ClientEnds, AtEof, text, rio, tally
<1>2. TypeOK'
  BY <1>1 DEF TypeOK
<1>3. Streams'
  BY <1>1 DEF Streams, Moved
<1>4. Lines' /\ Turns' /\ Short'
  BY <1>1 DEF Lines, Turns, Short
<1> QED
  BY <1>2, <1>3, <1>4

LEMMA ClientWriteLostStep ==
    ASSUME DialogueInv, ClientWriteLost
    PROVE  DialogueInv'
<1> USE DEF DialogueInv
<1>1. /\ UNCHANGED <<server, made, size, newlines, sv, conn, buf, ptr, cnt, got,
                    asked, served, heard>>
      /\ cl = "write" /\ cl' = "read" /\ sv = "gone"
  BY DEF ClientWriteLost, text, rio, tally
<1>2. wrote' = [wrote EXCEPT !["up"] = made["up"]] /\ n' = [n EXCEPT !["down"] = 0]
  BY DEF ClientWriteLost
<1>3. /\ wrote' \in [Dir -> Nat] /\ wrote'["up"] = made["up"] /\ wrote'["down"] = wrote["down"]
      /\ n' \in [Dir -> Nat] /\ n'["down"] = 0
  BY <1>2 DEF TypeOK, Dir
<1>4. TypeOK'
  BY <1>1, <1>3 DEF TypeOK
<1>5. Streams'
  <2>1. made["up"] <= made["up"]
    BY Numbers DEF Dir
  <2> QED
    BY <1>1, <1>3, <2>1 DEF Streams, Moved, Dir
<1>6. Lines' /\ Turns'
  BY <1>1 DEF Lines, Turns
<1>7. Short'
  BY <1>3, ConstantsOK DEF Short
<1> QED
  BY <1>4, <1>5, <1>6, <1>7

-----------------------------------------------------------------------------
\* The steps of the server.

LEMMA ServerCopyStep ==
    ASSUME DialogueInv, ServerCopy
    PROVE  DialogueInv' /\ (sv' = "write" => Len(got'["up"]) = wrote'["up"])
<1> USE DEF DialogueInv
<1>1. /\ UNCHANGED <<server, size, newlines, cl, wrote, conn, buf, asked, heard>>
      /\ sv = "read" /\ "down" \in Dir /\ "up" \in Dir
      /\ Copy("up", 1)
  BY DEF ServerCopy, Dir
<1>2. /\ n["up"] \in Nat /\ Len(got["up"]) \in Nat /\ Left(cnt["up"]) \in Nat
      /\ Len(conn["up"]) \in Nat /\ made["up"] \in Nat /\ wrote["up"] \in Nat
      /\ made["down"] \in Nat /\ wrote["down"] \in Nat /\ Len(got["down"]) \in Nat
      /\ n["down"] \in Nat
  BY <1>1, Numbers
<1>3. PICK c \in 1..1 :
         /\ c <= Left(cnt["up"]) /\ Left(cnt'["up"]) = Left(cnt["up"]) - c
         /\ Len(got'["up"]) = Len(got["up"]) + c /\ n'["up"] = n["up"] + c
         /\ \A e \in Dir : e # "up" => got'[e] = got[e] /\ cnt'[e] = cnt[e] /\ n'[e] = n[e]
         /\ \A e \in Dir : InOrder(got'[e], buf'[e], ptr'[e], cnt'[e], conn'[e])
         /\ buf["up"][ptr["up"] + 1] = Len(got["up"]) + 1
         /\ got' \in [Dir -> Seq(Nat)] /\ ptr' \in [Dir -> Nat]
         /\ cnt' \in [Dir -> Int] /\ n' \in [Dir -> Nat]
  <2>1. 1 \in Nat \ {0}
    OBVIOUS
  <2> QED
    BY <1>1, <2>1, CopyStream
<1>4. /\ 1 <= Left(cnt["up"]) /\ Left(cnt'["up"]) = Left(cnt["up"]) - 1
      /\ Len(got'["up"]) = Len(got["up"]) + 1 /\ n'["up"] = n["up"] + 1
      /\ buf["up"][ptr["up"] + 1] = Len(got["up"]) + 1
  BY <1>3
<1>17. Len(got'["up"]) = Len(got["up"]) + 1 /\ n'["up"] = n["up"] + 1
  BY <1>4
<1>5. got'["down"] = got["down"] /\ cnt'["down"] = cnt["down"] /\ n'["down"] = n["down"]
  BY <1>1, <1>3
<1>6. \/ /\ Len(got["up"]) + 1 \in newlines \/ n'["up"] = MaxLine - 1
         /\ sv' = "write" /\ served' = served + 1 /\ made' = [made EXCEPT !["down"] = @ + MaxLine]
      \/ sv' = "read" /\ served' = served /\ made' = made
  BY <1>1, <1>4 DEF ServerCopy, Handle
<1>7. /\ made' \in [Dir -> Nat] /\ made'["up"] = made["up"]
      /\ sv' = "write" => made'["down"] = made["down"] + MaxLine
      /\ sv' = "read" => made'["down"] = made["down"]
  BY <1>6, ConstantsOK DEF TypeOK, Dir
<1>8. TypeOK'
  <2>1. sv' \in {"read", "write"} /\ served' \in Nat
    BY <1>6 DEF TypeOK
  <2> QED
    BY <1>1, <1>3, <1>7, <2>1 DEF TypeOK
<1>9. wrote["up"] <= made["up"] /\ wrote["down"] <= made["down"]
      /\ wrote["up"] = Len(got["up"]) + Left(cnt["up"]) + Len(conn["up"])
  BY <1>1 DEF Streams, Moved
<1>10. Streams'
  <2>1. Moved("up")' = Moved("up")
    BY <1>1, <1>2, <1>4 DEF Moved
  <2>2. Moved("down")' = Moved("down")
    BY <1>1, <1>5 DEF Moved
  <2>3. \A d \in Dir : InOrder(got'[d], buf'[d], ptr'[d], cnt'[d], conn'[d])
    BY <1>3
  <2>4. made["down"] <= made'["down"]
    BY <1>2, <1>6, <1>7, ConstantsOK
  <2>5. made'["down"] \in Nat
    BY <1>1, <1>7
  <2>6. wrote'["up"] <= made'["up"] /\ wrote'["down"] <= made'["down"]
    BY <1>1, <1>2, <1>7, <1>9, <2>4, <2>5
  <2>7. \A d \in Dir : wrote'[d] <= made'[d]
    BY <2>6 DEF Dir
  <2> QED
    BY <1>1, <2>1, <2>2, <2>3, <2>7 DEF Streams
<1>11. /\ \A x \in newlines : x <= Len(got["up"]) \/ x = made["up"]
       /\ Len(got["up"]) - n["up"] >= made["up"] - size
  BY <1>1 DEF Lines
<1>12. sv' = "write" => Left(cnt'["up"]) = 0 /\ Len(got'["up"]) = made["up"] /\ wrote["up"] = made["up"]
  <2>1. CASE Len(got["up"]) + 1 \in newlines
    <3>1. Len(got["up"]) + 1 = made["up"]
      BY <1>2, <1>11, <2>1
    <3> QED
      BY <1>2, <1>4, <1>9, <3>1
  <2>2. CASE n'["up"] = MaxLine - 1
    <3>1. size \in Nat /\ size <= MaxLine - 1
      BY ConstantsOK DEF TypeOK
    <3>2. Len(got["up"]) - n["up"] >= made["up"] - size
      BY <1>11
    <3>3. n["up"] + 1 = MaxLine - 1
      BY <1>17, <2>2
    <3>4. Len(got["up"]) + 1 >= made["up"]
      BY <1>2, <3>1, <3>2, <3>3, ConstantsOK
    <3> QED
      BY <1>2, <1>4, <1>9, <3>4
  <2> QED
    BY <1>6, <2>1, <2>2
<1>13. Lines'
  <2>1. \A x \in newlines' : x <= Len(got'["up"]) \/ x = made'["up"]
    <3>1. newlines \subseteq Nat
      BY DEF TypeOK
    <3> QED
      BY <1>1, <1>2, <1>4, <1>7, <1>11, <3>1
  <2>2. Len(got'["up"]) - n'["up"] = Len(got["up"]) - n["up"]
    <3>1. \A a \in Nat, b \in Nat : (a + 1) - (b + 1) = a - b
      OBVIOUS
    <3> QED
      <4>1. Len(got["up"]) \in Nat /\ n["up"] \in Nat
        BY <1>2
      <4>2. (Len(got["up"]) + 1) - (n["up"] + 1) = Len(got["up"]) - n["up"]
        BY <3>1, <4>1, Zenon
      <4> QED
        BY <1>17, <4>2, Zenon
  <2>3. Len(got'["up"]) - n'["up"] >= made'["up"] - size'
    BY <1>1, <1>7, <1>11, <2>2
  <2> QED
    BY <1>12, <2>1, <2>3 DEF Lines
<1>14. Len(got["up"]) < made["up"]
  BY <1>2, <1>4, <1>9
<1>15. Turns'
  <2>1. cl # "fgets"
    BY <1>1, <1>2, <1>14 DEF Turns
  <2>2. CASE cl = "write"
    <3>1. wrote["up"] < made["up"] /\ Len(got["down"]) = made["down"]
      BY <1>1, <2>2 DEF Turns
    <3>2. sv' = "read"
      BY <1>2, <1>6, <1>12, <3>1
    <3> QED
      BY <1>1, <1>5, <1>7, <2>2, <3>1, <3>2 DEF Turns
  <2>3. CASE cl = "read"
    <3>1. wrote["up"] = made["up"] /\ Waiting
      BY <1>1, <1>2, <1>14, <2>3 DEF Turns, Answering
    <3>2. CASE sv' = "read"
      <4>1. Waiting'
        BY <1>5, <1>7, <3>1, <3>2 DEF Waiting
      <4> QED
        BY <1>1, <1>7, <2>3, <3>1, <4>1 DEF Turns
    <3>3. CASE sv' = "write"
      <4>1. Len(got'["up"]) = made'["up"]
        BY <1>7, <1>12, <3>3
      <4>2. made'["down"] = Len(got'["down"]) + MaxLine - n'["down"] /\ n'["down"] < MaxLine
        BY <1>2, <1>5, <1>7, <3>1, <3>3, ConstantsOK DEF Waiting
      <4>3. wrote'["down"] < made'["down"]
        BY <1>1, <1>2, <1>7, <1>9, <3>3, ConstantsOK
      <4>4. Answering'
        BY <3>3, <4>1, <4>2, <4>3 DEF Answering
      <4> QED
        BY <1>1, <1>7, <2>3, <3>1, <4>4 DEF Turns
    <3> QED
      BY <1>6, <3>2, <3>3
  <2> QED
    BY <1>1, <2>1, <2>2, <2>3 DEF Turns
<1>16. Short'
  BY <1>1, <1>5 DEF Short
<1> QED
  BY <1>1, <1>8, <1>10, <1>12, <1>13, <1>15, <1>16

LEMMA ServerEofStep ==
    ASSUME DialogueInv, ServerEof
    PROVE  DialogueInv'
<1> USE DEF DialogueInv
<1>1. /\ UNCHANGED <<server, size, newlines, cl, wrote, conn, buf, ptr, cnt, n, got, asked, heard>>
      /\ sv = "read" /\ cl = "gone" /\ cnt["up"] <= 0
  BY DEF ServerEof, AtEof, rio
<1>2. \/ /\ sv' = "write" /\ served' = served + 1
         /\ made' = [made EXCEPT !["down"] = @ + MaxLine]
      \/ sv' = "gone" /\ served' = served /\ made' = made
  BY DEF ServerEof, Handle
<1>3. /\ made' \in [Dir -> Nat] /\ made'["up"] = made["up"]
      /\ made'["down"] = made["down"] + MaxLine \/ made'["down"] = made["down"]
  <2>1. made \in [Dir -> Nat] /\ MaxLine \in Nat /\ "up" \in Dir /\ "down" \in Dir
    BY ConstantsOK DEF TypeOK, Dir
  <2>2. made' = [made EXCEPT !["down"] = @ + MaxLine] \/ made' = made
    BY <1>2
  <2> QED
    BY <2>1, <2>2
<1>4. TypeOK'
  <2>1. sv' \in {"write", "gone"} /\ served' \in Nat
    BY <1>2 DEF TypeOK
  <2> QED
    BY <1>1, <1>3, <2>1 DEF TypeOK
<1>5. Streams'
  <2>1. wrote["up"] <= made["up"] /\ wrote["down"] <= made["down"] /\ wrote["up"] = Moved("up")
    BY <1>1 DEF Streams, Dir
  <2>2. made["down"] \in Nat /\ wrote["down"] \in Nat
    BY Numbers DEF Dir
  <2>3. wrote["down"] <= made'["down"]
    BY <1>3, <2>1, <2>2, ConstantsOK
  <2>4. \A d \in Dir : wrote'[d] <= made'[d]
    BY <1>1, <1>3, <2>1, <2>3 DEF Dir
  <2>5. Moved("up")' = Moved("up")
    BY <1>1 DEF Moved
  <2> QED
    BY <1>1, <2>1, <2>4, <2>5 DEF Streams
<1>6. Lines'
  <2>1. Left(cnt["up"]) = 0
    BY <1>1, Numbers DEF Left, Dir
  <2> QED
    BY <1>1, <1>3, <2>1 DEF Lines
<1>7. Turns' /\ Short'
  BY <1>1 DEF Turns, Short
<1> QED
  BY <1>4, <1>5, <1>6, <1>7

\* The next line starts with nothing left of the last, whichever rio_t is used.
LEMMA NextLineKeeps ==
    ASSUME DialogueInv, sv = "write", NextLine, UNCHANGED <<got, buf, ptr>>
    PROVE  /\ n' \in [Dir -> Nat] /\ cnt' \in [Dir -> Int]
           /\ n'["up"] = 0 /\ n'["down"] = n["down"] /\ cnt'["down"] = cnt["down"]
           /\ Left(cnt["up"]) = 0 /\ Left(cnt'["up"]) = 0
           /\ \A d \in Dir : InOrder(got'[d], buf'[d], ptr'[d], cnt'[d], conn[d])
<1> USE DEF DialogueInv
<1>1. /\ n' = [n EXCEPT !["up"] = 0]
      /\ cnt' = [cnt EXCEPT !["up"] = 0] \/ cnt' = cnt
  BY DEF NextLine
<1>2. Left(cnt["up"]) = 0
  BY DEF Lines
<1>3. /\ n' \in [Dir -> Nat] /\ n'["up"] = 0 /\ n'["down"] = n["down"]
  BY <1>1 DEF TypeOK, Dir
<1>4. /\ cnt' \in [Dir -> Int] /\ cnt'["down"] = cnt["down"]
      /\ cnt'["up"] = 0 \/ cnt'["up"] = cnt["up"]
  BY <1>1 DEF TypeOK, Dir
<1>5. Left(cnt'["up"]) = 0 /\ ~(cnt["up"] > 0)
  BY <1>2, <1>4, Numbers DEF Left, Dir
<1>6. ~(cnt'["up"] > 0)
  BY <1>4, <1>5
<1>7. InOrder(got["up"], buf["up"], ptr["up"], cnt'["up"], conn["up"])
  BY <1>2, <1>5, <1>6 DEF Streams, InOrder, Dir
<1>8. InOrder(got["down"], buf["down"], ptr["down"], cnt'["down"], conn["down"])
  BY <1>4 DEF Streams, Dir
<1>9. \A d \in Dir : InOrder(got'[d], buf'[d], ptr'[d], cnt'[d], conn[d])
  BY <1>7, <1>8 DEF Dir
<1> QED
  BY <1>2, <1>3, <1>4, <1>5, <1>9

LEMMA ServerWriteStep ==
    ASSUME DialogueInv, ServerWrite
    PROVE  DialogueInv'
<1> USE DEF DialogueInv
<1>1. /\ UNCHANGED <<server, made, size, newlines, cl, buf, ptr, got, asked, served, heard>>
      /\ sv = "write" /\ cl # "gone" /\ "up" \in Dir /\ "down" \in Dir
  BY DEF ServerWrite, text, tally, Dir
<1>2. PICK k \in 1..MaxLine : Put("down", k)
  BY DEF ServerWrite
<1>3. wrote["down"] = Moved("down") /\ wrote["up"] = Moved("up") /\ wrote["up"] <= made["up"]
  BY <1>1 DEF Streams
<1>4. /\ InOrder(got["down"], buf["down"], ptr["down"], cnt["down"], conn'["down"])
      /\ conn'["up"] = conn["up"] /\ wrote'["up"] = wrote["up"]
      /\ Len(conn'["down"]) = Len(conn["down"]) + k /\ wrote'["down"] = wrote["down"] + k
      /\ wrote'["down"] <= made["down"]
      /\ conn' \in [Dir -> Seq(Nat)] /\ wrote' \in [Dir -> Nat]
  BY <1>1, <1>2, <1>3, PutStream
<1>5. /\ wrote'["down"] = made["down"] => NextLine
      /\ wrote'["down"] # made["down"] => sv' = sv /\ n' = n /\ cnt' = cnt
  BY DEF ServerWrite
<1>6. /\ n' \in [Dir -> Nat] /\ cnt' \in [Dir -> Int]
      /\ n'["down"] = n["down"] /\ cnt'["down"] = cnt["down"]
      /\ Left(cnt["up"]) = 0 /\ Left(cnt'["up"]) = 0
      /\ n'["up"] = n["up"] \/ n'["up"] = 0
      /\ \A d \in Dir : InOrder(got'[d], buf'[d], ptr'[d], cnt'[d], conn[d])
  <2>1. CASE wrote'["down"] = made["down"]
    BY <1>1, <1>5, <2>1, NextLineKeeps
  <2>2. CASE wrote'["down"] # made["down"]
    BY <1>1, <1>5, <2>2 DEF TypeOK, Streams, Lines
  <2> QED
    BY <2>1, <2>2
<1>7. /\ sv' = "read" => wrote'["down"] = made["down"] /\ n'["up"] = 0
      /\ sv' \in {"read", "write"}
      /\ sv' = "write" => wrote'["down"] # made["down"]
  BY <1>1, <1>5 DEF NextLine, TypeOK, Dir
<1>8. TypeOK'
  BY <1>1, <1>4, <1>6, <1>7 DEF TypeOK
<1>9. Streams'
  <2>1. \A d \in Dir : InOrder(got'[d], buf'[d], ptr'[d], cnt'[d], conn'[d])
    BY <1>1, <1>4, <1>6 DEF Dir
  <2>2. \A d \in Dir : wrote'[d] <= made'[d]
    BY <1>1, <1>3, <1>4 DEF Dir
  <2>3. Moved("down")' = Moved("down") + k
    <3>1. Len(got["down"]) \in Nat /\ Left(cnt["down"]) \in Nat /\ Len(conn["down"]) \in Nat
      BY <1>1, Numbers
    <3>2. cnt'["down"] = cnt["down"] /\ Len(conn'["down"]) = Len(conn["down"]) + k
      BY <1>4, <1>6
    <3> QED
      BY <1>1, <3>1, <3>2 DEF Moved
  <2>4. Moved("up")' = Moved("up")
    BY <1>1, <1>4, <1>6 DEF Moved
  <2> QED
    BY <1>3, <1>4, <2>1, <2>2, <2>3, <2>4 DEF Streams
<1>10. Lines'
  <2>1. \A x \in newlines' : x <= Len(got'["up"]) \/ x = made'["up"]
    BY <1>1 DEF Lines
  <2>2. Len(got["up"]) \in Nat /\ n["up"] \in Nat /\ made["up"] \in Nat /\ size \in Int
    BY <1>1, Numbers, ConstantsOK DEF TypeOK
  <2>3. Len(got["up"]) - n["up"] >= made["up"] - size
    BY <1>1 DEF Lines
  <2>4. Len(got'["up"]) - n'["up"] >= made'["up"] - size'
    BY <1>1, <1>6, <2>2, <2>3
  <2> QED
    BY <1>6, <2>1, <2>4 DEF Lines
<1>11. Turns'
  <2>1. cl = "read" /\ wrote["up"] = made["up"] /\ Answering
    BY <1>1 DEF Turns, Waiting, TypeOK
  <2>2. wrote'["down"] \in Nat /\ made["down"] \in Nat
    BY <1>1, <1>4, Numbers
  <2>3. Answering'
    BY <1>1, <1>4, <1>6, <1>7, <2>1, <2>2 DEF Answering
  <2> QED
    BY <1>1, <1>4, <2>1, <2>3 DEF Turns
<1>12. Short'
  BY <1>1, <1>6 DEF Short
<1> QED
  BY <1>8, <1>9, <1>10, <1>11, <1>12

LEMMA ServerWriteLostStep ==
    ASSUME DialogueInv, ServerWriteLost
    PROVE  DialogueInv'
<1> USE DEF DialogueInv
<1>1. /\ UNCHANGED <<server, made, size, newlines, cl, conn, buf, ptr, got, asked, served, heard>>
      /\ sv = "write" /\ cl = "gone" /\ NextLine /\ "up" \in Dir /\ "down" \in Dir
  BY DEF ServerWriteLost, text, tally, Dir
<1>2. /\ n' \in [Dir -> Nat] /\ cnt' \in [Dir -> Int]
      /\ n'["up"] = 0 /\ Left(cnt["up"]) = 0 /\ Left(cnt'["up"]) = 0
      /\ \A d \in Dir : InOrder(got'[d], buf'[d], ptr'[d], cnt'[d], conn[d])
  BY <1>1, NextLineKeeps
<1>3. wrote' = [wrote EXCEPT !["down"] = made["down"]]
  BY DEF ServerWriteLost
<1>4. /\ wrote' \in [Dir -> Nat] /\ wrote'["up"] = wrote["up"] /\ wrote'["down"] = made["down"]
      /\ sv' = "read"
  BY <1>1, <1>3 DEF TypeOK, Dir, NextLine
<1>5. TypeOK'
  BY <1>1, <1>2, <1>4 DEF TypeOK
<1>6. Streams'
  <2>1. \A d \in Dir : InOrder(got'[d], buf'[d], ptr'[d], cnt'[d], conn'[d])
    BY <1>1, <1>2
  <2>2. made["down"] <= made["down"] /\ wrote["up"] <= made["up"] /\ wrote["up"] = Moved("up")
    BY <1>1, Numbers DEF Streams
  <2>3. \A d \in Dir : wrote'[d] <= made'[d]
    BY <1>1, <1>4, <2>2 DEF Dir
  <2>4. Moved("up")' = Moved("up")
    BY <1>1, <1>2 DEF Moved
  <2> QED
    BY <1>1, <1>4, <2>1, <2>2, <2>3, <2>4 DEF Streams
<1>7. Lines'
  <2>1. \A x \in newlines' : x <= Len(got'["up"]) \/ x = made'["up"]
    BY <1>1 DEF Lines
  <2>2. Len(got["up"]) \in Nat /\ n["up"] \in Nat /\ made["up"] \in Nat /\ size \in Int
    BY <1>1, Numbers, ConstantsOK DEF TypeOK
  <2>3. Len(got["up"]) - n["up"] >= made["up"] - size
    BY <1>1 DEF Lines
  <2>4. Len(got'["up"]) - n'["up"] >= made'["up"] - size'
    BY <1>1, <1>2, <2>2, <2>3
  <2> QED
    BY <1>2, <2>1, <2>4 DEF Lines
<1>8. Turns' /\ Short'
  BY <1>1 DEF Turns, Short
<1> QED
  BY <1>5, <1>6, <1>7, <1>8

LEMMA ServerEndsStep ==
    ASSUME DialogueInv, ServerEnds
    PROVE  DialogueInv'
<1> USE DEF DialogueInv
<1>1. /\ UNCHANGED <<server, made, size, newlines, cl, wrote, conn, buf, ptr, cnt, n, got,
                    asked, served, heard>>
      /\ sv # "gone" /\ sv' = "gone"
  BY DEF ServerEnds, text, rio, tally
<1>2. TypeOK'
  BY <1>1 DEF TypeOK
<1>3. Streams'
  BY <1>1 DEF Streams, Moved
<1>4. Lines' /\ Turns' /\ Short'
  BY <1>1 DEF Lines, Turns, Short
<1> QED
  BY <1>2, <1>3, <1>4

-----------------------------------------------------------------------------
LEMMA DialogueInit ==
    ASSUME Init
    PROVE  DialogueInv
<1> USE DEF Init
<1>1. TypeOK
  BY ConstantsOK DEF TypeOK
<1>2. \A d \in Dir : /\ made[d] = 0 /\ wrote[d] = 0 /\ conn[d] = <<>> /\ cnt[d] = 0
                     /\ n[d] = 0 /\ got[d] = <<>>
  OBVIOUS
<1>3. Left(0) = 0 /\ Len(<<>>) = 0
  BY DEF Left
<1>4. \A d \in Dir : InOrder(got[d], buf[d], ptr[d], cnt[d], conn[d])
  BY <1>2 DEF InOrder
<1>5. \A d \in Dir : wrote[d] <= made[d] /\ wrote[d] = Moved(d)
  BY <1>2, <1>3 DEF Moved
<1>6. Streams
  BY <1>4, <1>5 DEF Streams, Dir
<1>7. Lines
  BY <1>2, <1>3 DEF Lines, Dir
<1>8. Turns /\ Short
  BY <1>2, <1>3 DEF Turns, Short, Dir
<1> QED
  BY <1>1, <1>6, <1>7, <1>8 DEF DialogueInv

LEMMA DialogueStep ==
    ASSUME DialogueInv, [Next]_vars
    PROVE  DialogueInv'
<1>1. CASE UNCHANGED vars
  <2>1. UNCHANGED <<server, made, size, newlines, cl, sv, wrote, conn, buf, ptr, cnt, n, got,
                    asked, served, heard>>
    BY <1>1 DEF vars, text, rio, tally
  <2>2. TypeOK'
    BY <2>1 DEF DialogueInv, TypeOK
  <2>3. Streams'
    BY <2>1 DEF DialogueInv, Streams, Moved
  <2>4. Lines' /\ Turns' /\ Short'
    BY <2>1 DEF DialogueInv, Lines, Turns, Waiting, Answering, Short
  <2> QED
    BY <2>2, <2>3, <2>4 DEF DialogueInv
<1>2. CASE \E k \in 1..MaxText, nl \in BOOLEAN : Fgets(k, nl)
  BY <1>2, FgetsStep
<1>3. CASE Client
  BY <1>3, ClientWriteStep, ClientCopyStep, ClientLeaveStep, ClientWriteLostStep DEF Client
<1>4. CASE ClientFill
  BY <1>4, FillStep, InterruptedStep DEF ClientFill, Dir
<1>5. CASE ClientEnds
  BY <1>5, ClientLeaveStep
<1>6. CASE Server
  BY <1>6, ServerCopyStep, ServerEofStep, ServerWriteStep, ServerWriteLostStep DEF Server
<1>7. CASE ServerFill
  BY <1>7, FillStep, InterruptedStep DEF ServerFill, Dir
<1>8. CASE ServerEnds
  BY <1>8, ServerEndsStep
<1> QED
  BY <1>1, <1>2, <1>3, <1>4, <1>5, <1>6, <1>7, <1>8 DEF Next

\* Whatever the kernel moves and interrupts, the state of a dialogue is one
\* the two programs can be in (csapp.c, stockclient.c, stockserver.c).
THEOREM TypeCorrect == Spec => []TypeOK
<1>1. DialogueInv => TypeOK
  BY DEF DialogueInv
<1> QED
  BY <1>1, DialogueInit, DialogueStep, PTL DEF Spec

\* For every MAXLINE and every size of rio_buf and of the connection, each side
\* is given the bytes of the other in their order, none lost and none twice
\* (task_2/csapp.c:772-830).
THEOREM BytesArriveInOrder == Spec => []BytesInOrder
<1>1. DialogueInv => BytesInOrder
  BY DEF DialogueInv, Streams, InOrder, BytesInOrder
<1> QED
  BY <1>1, DialogueInit, DialogueStep, PTL DEF Spec

\* Whenever the server answers a client that is there, it has had exactly the
\* piece the client read with fgets, although the loop of rio_readlineb knows
\* nothing of the client's (task_2/csapp.c:872-900, stockclient.c:24).
THEOREM PiecesAreLines == Spec => []FramesAgree
<1>1. DialogueInv => FramesAgree
  BY DEF DialogueInv, TypeOK, Turns, Waiting, Answering, FramesAgree
<1> QED
  BY <1>1, DialogueInit, DialogueStep, PTL DEF Spec

-----------------------------------------------------------------------------
\* A client of the stock server and the code that serves it implement
\* RequestReply.

\* No byte of a reply is on its way to the client.
Dry == Left(cnt["down"]) = 0 /\ conn["down"] = <<>>

\* The counters follow the bytes: a line the server can still read is one it
\* has not handled, bytes the client has not had are of a reply it has not
\* heard, and what a server that has ended left behind never makes a reply.
Tallies ==
    /\ heard <= served /\ served <= asked
    /\ sv # "gone" => /\ cl = "fgets" => asked = heard
                      /\ cl \in {"write", "read"} => asked = heard + 1
                      /\ cl = "write" => served < asked
    /\ sv = "read" /\ (n["up"] > 0 \/ Len(got["up"]) < wrote["up"]) => served < asked
    /\ sv = "write" => Len(got["up"]) = wrote["up"]
    /\ cl # "gone" /\ Len(got["down"]) # made["down"] =>
        /\ heard < served
        /\ \/ sv = "gone" /\ Dry
           \/ cl = "read" /\ made["down"] = Len(got["down"]) + MaxLine - n["down"]

\* A step is one of RequestReply or none of its business.
Follows == RR!Next \/ UNCHANGED RR!vars

-----------------------------------------------------------------------------
LEMMA Counters ==
    ASSUME TypeOK
    PROVE  /\ asked \in Nat /\ served \in Nat /\ heard \in Nat
           /\ \A d \in Dir : /\ Len(got[d]) \in Nat /\ n[d] \in Nat /\ made[d] \in Nat
                             /\ wrote[d] \in Nat /\ Left(cnt[d]) \in Nat /\ Len(conn[d]) \in Nat
           /\ "up" \in Dir /\ "down" \in Dir
BY Numbers DEF TypeOK, Dir

\* A step that leaves the counters alone, and the server where it is or alive.
LEMMA Stutter ==
    ASSUME UNCHANGED <<asked, served, heard>>, (sv' = "gone") <=> (sv = "gone")
    PROVE  Follows
BY DEF Follows, RR!vars

LEMMA FgetsTally ==
    ASSUME DialogueInv, Tallies, NEW k \in 1..MaxText, NEW nl \in BOOLEAN, Fgets(k, nl)
    PROVE  Tallies' /\ Follows
<1>1. /\ UNCHANGED <<sv, wrote, conn, cnt, n, got, served, heard>>
      /\ cl = "fgets" /\ cl' = "write" /\ asked' = asked + 1
      /\ made' = [made EXCEPT !["up"] = @ + k]
  BY DEF Fgets, rio
<1>2. asked \in Nat /\ served \in Nat /\ heard \in Nat
  BY Counters DEF DialogueInv
<1>3. made'["down"] = made["down"]
  BY <1>1 DEF DialogueInv, TypeOK, Dir
<1>4. asked = heard \/ sv = "gone"
  BY <1>1 DEF Tallies
<1>5. Tallies'
  BY <1>1, <1>2, <1>3, <1>4 DEF Tallies, Dry
<1>6. RR!Ask
  BY <1>1, <1>4 DEF RR!Ask
<1> QED
  BY <1>5, <1>6 DEF Follows, RR!Next

LEMMA ClientWriteTally ==
    ASSUME DialogueInv, Tallies, ClientWrite
    PROVE  Tallies' /\ Follows
<1>1. /\ UNCHANGED <<made, sv, cnt, got, asked, served, heard>>
      /\ cl = "write" /\ sv # "gone" /\ cl' \in {"write", "read"}
  BY DEF ClientWrite, text, rio, tally, DialogueInv, TypeOK
<1>2. sv = "read" /\ Len(got["down"]) = made["down"]
  BY <1>1 DEF DialogueInv, Turns
<1>3. asked = heard + 1 /\ served < asked /\ heard <= served
  BY <1>1 DEF Tallies
<1>4. Tallies'
  BY <1>1, <1>2, <1>3, Counters DEF DialogueInv, Tallies
<1>5. Follows
  BY <1>1, Stutter
<1> QED
  BY <1>4, <1>5

LEMMA ClientCopyTally ==
    ASSUME DialogueInv, Tallies, ClientCopy
    PROVE  Tallies' /\ Follows
<1>1. /\ UNCHANGED <<made, sv, wrote, conn, buf, asked, served>>
      /\ cl = "read" /\ "down" \in Dir /\ "up" \in Dir
      /\ Copy("down", MaxLine - n["down"])
      /\ n'["down"] = MaxLine => cl' = "fgets" /\ heard' = heard + 1
      /\ n'["down"] # MaxLine => cl' = "read" /\ heard' = heard
  BY DEF ClientCopy, text, Dir
<1>2. /\ asked \in Nat /\ served \in Nat /\ heard \in Nat
      /\ Len(got["down"]) \in Nat /\ n["down"] \in Nat /\ made["down"] \in Nat
      /\ Left(cnt["down"]) \in Nat /\ Len(conn["down"]) \in Nat /\ wrote["down"] \in Nat
      /\ MaxLine \in Nat
  BY Counters, ConstantsOK DEF DialogueInv
<1>3. MaxLine - n["down"] \in Nat \ {0}
  BY <1>1, <1>2 DEF DialogueInv, Short
<1>4. PICK c \in 1..(MaxLine - n["down"]) :
         /\ c <= Left(cnt["down"]) /\ Left(cnt'["down"]) = Left(cnt["down"]) - c
         /\ Len(got'["down"]) = Len(got["down"]) + c /\ n'["down"] = n["down"] + c
         /\ \A e \in Dir : e # "down" => got'[e] = got[e] /\ cnt'[e] = cnt[e] /\ n'[e] = n[e]
  BY <1>1, <1>3, CopyStream DEF DialogueInv
<1>5. /\ c \in Nat /\ c > 0 /\ c <= Left(cnt["down"])
      /\ Len(got'["down"]) = Len(got["down"]) + c /\ n'["down"] = n["down"] + c
      /\ got'["up"] = got["up"] /\ n'["up"] = n["up"]
  BY <1>1, <1>3, <1>4
<1>6. Len(got["down"]) < made["down"] /\ ~Dry
  <2>1. wrote["down"] <= made["down"] /\ wrote["down"] = Moved("down")
    BY <1>1 DEF DialogueInv, Streams
  <2>2. wrote["down"] >= Len(got["down"]) + Left(cnt["down"])
    BY <1>2, <2>1 DEF Moved
  <2>3. ~Dry
    BY <1>2, <1>5 DEF Dry
  <2> QED
    BY <1>2, <1>5, <2>1, <2>2, <2>3
<1>7. heard < served /\ made["down"] = Len(got["down"]) + MaxLine - n["down"]
  BY <1>1, <1>2, <1>6 DEF Tallies
<1>8. made["down"] = Len(got'["down"]) + MaxLine - n'["down"]
  BY <1>2, <1>5, <1>7
<1>9. CASE n'["down"] = MaxLine
  <2>1. cl' = "fgets" /\ heard' = heard + 1 /\ Len(got'["down"]) = made'["down"]
    BY <1>1, <1>2, <1>5, <1>8, <1>9
  <2>2. sv # "gone" => asked = heard + 1
    BY <1>1 DEF Tallies
  <2>3. Tallies'
    BY <1>1, <1>2, <1>5, <1>7, <2>1, <2>2 DEF Tallies
  <2>4. RR!Hear
    BY <1>1, <1>7, <2>1 DEF RR!Hear
  <2> QED
    BY <2>3, <2>4 DEF Follows, RR!Next
<1>10. CASE n'["down"] # MaxLine
  <2>1. cl' = "read" /\ heard' = heard
    BY <1>1, <1>10
  <2>2. Tallies'
    BY <1>1, <1>5, <1>7, <1>8, <2>1 DEF Tallies
  <2>3. Follows
    BY <1>1, <2>1, Stutter
  <2> QED
    BY <2>2, <2>3
<1> QED
  BY <1>9, <1>10

\* ClientShort, ClientWriteLost and ClientEnds.
LEMMA ClientLeaveTally ==
    ASSUME DialogueInv, Tallies, ClientShort \/ ClientWriteLost \/ ClientEnds
    PROVE  Tallies' /\ Follows
<1>1. UNCHANGED <<made, sv, conn, cnt, got, asked, served, heard>>
  BY DEF ClientShort, ClientWriteLost, ClientEnds, text, rio, tally
<1>2. Follows
  BY <1>1, Stutter
<1>3. CASE ClientShort
  <2>1. cl = "read" /\ sv = "gone" /\ cl' = "fgets" /\ conn["down"] = <<>> /\ cnt["down"] <= 0
    BY <1>3 DEF ClientShort, AtEof
  <2>2. Dry
    <3>1. cnt["down"] \in Int
      BY DEF DialogueInv, TypeOK, Dir
    <3> QED
      BY <2>1, <3>1 DEF Dry, Left
  <2> QED
    BY <1>1, <1>2, <2>1, <2>2 DEF Tallies, Dry
<1>4. CASE ClientWriteLost
  <2>1. cl = "write" /\ sv = "gone" /\ cl' = "read"
    BY <1>4 DEF ClientWriteLost
  <2> QED
    BY <1>1, <1>2, <2>1 DEF Tallies, Dry
<1>5. CASE ClientEnds
  <2>1. cl' = "gone" /\ UNCHANGED <<wrote, n>>
    BY <1>5 DEF ClientEnds
  <2> QED
    BY <1>1, <1>2, <2>1 DEF Tallies
<1> QED
  BY <1>3, <1>4, <1>5

\* A refill and an interrupted read change neither counters nor what is moved.
LEMMA ReadTally ==
    ASSUME DialogueInv, Tallies, NEW d \in Dir, Fill(d) \/ Interrupted(d)
    PROVE  Tallies' /\ Follows
<1>1. UNCHANGED <<made, cl, sv, wrote, n, got, asked, served, heard>>
  BY DEF Fill, Interrupted, text, tally
<1>2. Follows
  BY <1>1, Stutter
<1>3. Dry => Dry'
  <2>1. CASE d = "up"
    <3>1. cnt'["down"] = cnt["down"] /\ conn'["down"] = conn["down"]
      BY <2>1 DEF Fill, Interrupted, DialogueInv, TypeOK, Dir
    <3> QED
      BY <3>1 DEF Dry
  <2>2. CASE d = "down" /\ Fill(d)
    BY <2>2 DEF Fill, Dry
  <2>3. CASE d = "down" /\ Interrupted(d)
    <3>1. cnt'["down"] = -1 /\ conn' = conn
      BY <2>3 DEF Interrupted, DialogueInv, TypeOK, Dir
    <3> QED
      BY <3>1 DEF Dry, Left
  <2> QED
    BY <2>1, <2>2, <2>3 DEF Dir
<1>4. Tallies'
  BY <1>1, <1>3 DEF Tallies
<1> QED
  BY <1>2, <1>4

LEMMA ServerCopyTally ==
    ASSUME DialogueInv, Tallies, ServerCopy
    PROVE  Tallies' /\ Follows
<1>1. /\ UNCHANGED <<cl, wrote, conn, buf, asked, heard>>
      /\ sv = "read" /\ "down" \in Dir /\ "up" \in Dir
      /\ Copy("up", 1)
  BY DEF ServerCopy, Dir
<1>2. /\ asked \in Nat /\ served \in Nat /\ heard \in Nat
      /\ Len(got["up"]) \in Nat /\ n["up"] \in Nat /\ wrote["up"] \in Nat /\ made["up"] \in Nat
      /\ Left(cnt["up"]) \in Nat /\ Len(conn["up"]) \in Nat /\ MaxLine \in Nat /\ MaxLine > 0
      /\ made["down"] \in Nat /\ Len(got["down"]) \in Nat /\ n["down"] \in Nat
  BY Counters, ConstantsOK DEF DialogueInv
<1>3. PICK c \in 1..1 :
         /\ c <= Left(cnt["up"])
         /\ \A e \in Dir : e # "up" => got'[e] = got[e] /\ cnt'[e] = cnt[e] /\ n'[e] = n[e]
  <2>1. 1 \in Nat \ {0}
    OBVIOUS
  <2> QED
    BY <1>1, <2>1, CopyStream DEF DialogueInv
<1>4. /\ 1 <= Left(cnt["up"]) /\ got'["down"] = got["down"] /\ n'["down"] = n["down"]
  BY <1>1, <1>3
<1>5. Len(got["up"]) < wrote["up"]
  <2>1. wrote["up"] = Len(got["up"]) + Left(cnt["up"]) + Len(conn["up"])
    BY <1>1 DEF DialogueInv, Streams, Moved
  <2> QED
    BY <1>2, <1>4, <2>1
<1>6. served < asked
  BY <1>1, <1>5 DEF Tallies
<1>7. DialogueInv' /\ (sv' = "write" => Len(got'["up"]) = wrote'["up"])
  BY ServerCopyStep
<1>8. \/ sv' = "write" /\ served' = served + 1 /\ made' = [made EXCEPT !["down"] = @ + MaxLine]
      \/ sv' = "read" /\ served' = served /\ made' = made
  BY <1>1 DEF ServerCopy, Handle
<1>9. CASE sv' = "write"
  <2>1. served' = served + 1 /\ made'["down"] = made["down"] + MaxLine
    BY <1>8, <1>9 DEF DialogueInv, TypeOK, Dir
  <2>2. cl \in {"read", "gone"}
    BY <1>1, <1>7, <1>9 DEF DialogueInv, TypeOK, Turns
  <2>3. cl = "read" => asked = heard + 1
    BY <1>1 DEF Tallies
  <2>4. cl = "read" => made'["down"] = Len(got'["down"]) + MaxLine - n'["down"]
    BY <1>1, <1>7, <1>9 DEF DialogueInv, Turns, Waiting, Answering
  <2>5. Tallies'
    BY <1>1, <1>2, <1>6, <1>7, <1>9, <2>1, <2>2, <2>3, <2>4 DEF Tallies
  <2>6. RR!Serve
    BY <1>1, <1>6, <1>9, <2>1 DEF RR!Serve
  <2> QED
    BY <2>5, <2>6 DEF Follows, RR!Next
<1>10. CASE sv' = "read"
  <2>1. served' = served /\ made' = made
    BY <1>8, <1>10
  <2>2. Tallies'
    BY <1>1, <1>4, <1>6, <1>10, <2>1 DEF Tallies
  <2>3. Follows
    BY <1>1, <1>10, <2>1, Stutter
  <2> QED
    BY <2>2, <2>3
<1> QED
  BY <1>8, <1>9, <1>10

LEMMA ServerEofTally ==
    ASSUME DialogueInv, Tallies, ServerEof
    PROVE  Tallies' /\ Follows
<1>1. /\ UNCHANGED <<cl, wrote, conn, cnt, n, got, asked, heard>>
      /\ sv = "read" /\ cl = "gone" /\ cnt["up"] <= 0 /\ conn["up"] = <<>>
  BY DEF ServerEof, AtEof, rio
<1>2. asked \in Nat /\ served \in Nat /\ heard \in Nat /\ n["up"] \in Nat /\ Len(got["up"]) \in Nat
  BY Counters DEF DialogueInv
<1>3. Len(got["up"]) = wrote["up"]
  <2>1. wrote["up"] = Moved("up") /\ cnt["up"] \in Int
    BY <1>1 DEF DialogueInv, Streams, TypeOK, Dir
  <2>2. Left(cnt["up"]) = 0 /\ Len(conn["up"]) = 0
    BY <1>1, <2>1 DEF Left
  <2> QED
    BY <1>2, <2>1, <2>2 DEF Moved
<1>4. CASE n["up"] > 0
  <2>1. sv' = "write" /\ served' = served + 1
    BY <1>4 DEF ServerEof, Handle
  <2>2. served < asked
    BY <1>1, <1>4 DEF Tallies
  <2>3. Tallies'
    BY <1>1, <1>2, <1>3, <2>1, <2>2 DEF Tallies
  <2>4. RR!Serve
    BY <1>1, <2>1, <2>2 DEF RR!Serve
  <2> QED
    BY <2>3, <2>4 DEF Follows, RR!Next
<1>5. CASE ~(n["up"] > 0)
  <2>1. sv' = "gone" /\ served' = served
    BY <1>5 DEF ServerEof
  <2>2. Tallies'
    BY <1>1, <2>1 DEF Tallies
  <2>3. RR!Down
    BY <1>1, <2>1 DEF RR!Down
  <2> QED
    BY <2>2, <2>3 DEF Follows, RR!Next
<1> QED
  BY <1>4, <1>5

LEMMA ServerWriteTally ==
    ASSUME DialogueInv, Tallies, ServerWrite \/ ServerWriteLost
    PROVE  Tallies' /\ Follows
<1>1. /\ UNCHANGED <<made, cl, got, asked, served, heard>>
      /\ sv = "write"
  BY DEF ServerWrite, ServerWriteLost, text, tally
<1>2. /\ sv' = "read" => n'["up"] = 0
      /\ sv' \in {"read", "write"}
      /\ n'["down"] = n["down"]
  BY <1>1 DEF ServerWrite, ServerWriteLost, NextLine, DialogueInv, TypeOK, Dir
<1>3. wrote'["up"] = wrote["up"]
  BY DEF ServerWrite, ServerWriteLost, Put, DialogueInv, TypeOK, Dir
<1>4. Len(got["up"]) = wrote["up"] /\ wrote["up"] \in Nat
  BY <1>1, Counters DEF Tallies, DialogueInv
<1>5. Tallies'
  BY <1>1, <1>2, <1>3, <1>4 DEF Tallies
<1>6. Follows
  BY <1>1, <1>2, Stutter
<1> QED
  BY <1>5, <1>6

LEMMA ServerEndsTally ==
    ASSUME DialogueInv, Tallies, ServerEnds
    PROVE  Tallies' /\ Follows
<1>1. /\ UNCHANGED <<made, cl, wrote, conn, cnt, n, got, asked, served, heard>>
      /\ sv # "gone" /\ sv' = "gone"
  BY DEF ServerEnds, text, rio, tally
<1>2. Tallies'
  BY <1>1 DEF Tallies
<1>3. RR!Down
  BY <1>1 DEF RR!Down
<1> QED
  BY <1>2, <1>3 DEF Follows, RR!Next

-----------------------------------------------------------------------------
LEMMA TallyInit ==
    ASSUME Init
    PROVE  Tallies /\ RR!Init
BY DEF Init, Tallies, RR!Init, Dir

LEMMA TallyStep ==
    ASSUME DialogueInv, Tallies, [Next]_vars
    PROVE  Tallies' /\ Follows
<1>1. CASE UNCHANGED vars
  <2>1. UNCHANGED <<made, cl, sv, wrote, conn, cnt, n, got, asked, served, heard>>
    BY <1>1 DEF vars, text, rio, tally
  <2>2. Follows
    BY <2>1, Stutter
  <2> QED
    BY <2>1, <2>2 DEF Tallies, Dry
<1>2. CASE \E k \in 1..MaxText, nl \in BOOLEAN : Fgets(k, nl)
  BY <1>2, FgetsTally
<1>3. CASE Client
  BY <1>3, ClientWriteTally, ClientCopyTally, ClientLeaveTally DEF Client
<1>4. CASE ClientFill
  BY <1>4, ReadTally DEF ClientFill, Dir
<1>5. CASE ClientEnds
  BY <1>5, ClientLeaveTally
<1>6. CASE Server
  BY <1>6, ServerCopyTally, ServerEofTally, ServerWriteTally DEF Server
<1>7. CASE ServerFill
  BY <1>7, ReadTally DEF ServerFill, Dir
<1>8. CASE ServerEnds
  BY <1>8, ServerEndsTally
<1> QED
  BY <1>1, <1>2, <1>3, <1>4, <1>5, <1>6, <1>7, <1>8 DEF Next

\* Whatever is cut, interrupted or left behind by a side that has ended, the
\* client hears a reply only to what it has asked and the server serves a
\* request only once (stockclient.c:24-29, task_2/stockserver.c:175-176).
THEOREM DialogueImplements == Spec => ImplementsRequestReply
<1>1. DialogueInv /\ Tallies /\ [Next]_vars => [RR!Next]_(RR!vars)
  BY TallyStep DEF Follows
<1>2. DialogueInv /\ Tallies /\ [Next]_vars => DialogueInv' /\ Tallies'
  BY DialogueStep, TallyStep
<1>3. Init => DialogueInv /\ Tallies /\ RR!Init
  BY DialogueInit, TallyInit
<1> QED
  BY <1>1, <1>2, <1>3, PTL DEF Spec, ImplementsRequestReply, RR!Spec
=============================================================================
