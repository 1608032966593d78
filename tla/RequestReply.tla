---------------------------- MODULE RequestReply ----------------------------
(***************************************************************************)
(* What the stock client and its server promise each other: one request at *)
(* a time, one reply to each request, and no reply to what was not asked.  *)
(* When the server has ended the client may go on asking, and what it then *)
(* prints is not a reply.                                                  *)
(***************************************************************************)
EXTENDS Naturals

VARIABLES asked, served, heard, up

vars == <<asked, served, heard, up>>

Init == asked = 0 /\ served = 0 /\ heard = 0 /\ up = TRUE

Ask   == (asked = heard \/ ~up) /\ asked' = asked + 1 /\ UNCHANGED <<served, heard, up>>
Serve == up /\ served < asked /\ served' = served + 1 /\ UNCHANGED <<asked, heard, up>>
Hear  == heard < served /\ heard' = heard + 1 /\ UNCHANGED <<asked, served, up>>
Down  == up' = FALSE /\ UNCHANGED <<asked, served, heard>>

Next == Ask \/ Serve \/ Hear \/ Down

Spec == Init /\ [][Next]_vars
=============================================================================
