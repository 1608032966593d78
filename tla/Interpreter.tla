----------------------------- MODULE Interpreter -----------------------------
(***************************************************************************)
(* Lab 1, main.c: the loop that reads a command, takes the slot from the   *)
(* number in a name and calls the library, until quit, the end of the      *)
(* input or an ASSERT that fails.                                          *)
(*                                                                         *)
(* Commands on lists, tables and bitmaps touch no common memory, so a      *)
(* session with several kinds is sessions with one kind each, interleaved; *)
(* kind says which one this session is.  "delete" compares the name of the *)
(* structure with the bare words list, hash and bitmap, so for list0 it    *)
(* does nothing, and it is no action here.                                 *)
(***************************************************************************)
EXTENDS ListCommands, PintosHash, PintosBitmap

VARIABLES
    kind,       \* the kind of structure this session uses
    status      \* "running", "ended" by quit, or "aborted" by an ASSERT

vars == <<listVars, hashVars, bitmapVars, kind, status>>

Init ==
    /\ ListInit /\ HashInit /\ BitmapInit
    /\ kind \in {"list", "hash", "bitmap"}
    /\ status = "running"

Going(k) == status = "running" /\ kind = k /\ UNCHANGED <<kind, status>>

ListCommand == Going("list") /\ ListNext /\ UNCHANGED <<hashVars, bitmapVars>>
HashCommand == Going("hash") /\ HashNext /\ UNCHANGED <<listVars, bitmapVars>>
BitmapCommand == Going("bitmap") /\ BitmapNext /\ UNCHANGED <<listVars, hashVars>>

(* assert() of list.c or bitmap.c: abort, which frees nothing.             *)
Abort ==
    /\ status = "running"
    /\ \/ kind = "list" /\ ListAbort /\ UNCHANGED <<hashVars, bitmapVars>>
       \/ kind = "bitmap" /\ BitmapAbort /\ UNCHANGED <<listVars, hashVars>>
    /\ status' = "aborted"
    /\ UNCHANGED kind

(* quit: what the slots in use hold is freed.                              *)
Quit ==
    /\ status = "running"
    /\ ListQuit /\ HashQuit /\ BitmapQuit
    /\ status' = "ended"
    /\ UNCHANGED kind

Next == ListCommand \/ HashCommand \/ BitmapCommand \/ Abort \/ Quit

Spec == Init /\ [][Next]_vars
=============================================================================
