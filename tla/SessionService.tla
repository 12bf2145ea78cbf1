--------------------------- MODULE SessionService ---------------------------
(***************************************************************************)
(* What serving a connection amounts to: handle_new_connection reads a     *)
(* request, and then it either refuses it with one error header or answers *)
(* it with a file of one solution for each equation, at most as many as    *)
(* were announced.  An answer never follows a refusal, nor a refusal an    *)
(* answer that was begun, and after the end nothing is written.            *)
(***************************************************************************)
EXTENDS Naturals

VARIABLES stage,       \* of the connection
          announced,   \* how many equations the request announces
          answered     \* how many of them were answered

vars == <<stage, announced, answered>>

Init == /\ stage = "request"
        /\ announced \in Nat \ {0}
        /\ answered = 0

(* send_error_header. *)
Refuse == /\ stage = "request"
          /\ stage' = "refusing"
          /\ UNCHANGED <<announced, answered>>

(* write_net_header and write_file_header. *)
Accept == /\ stage = "request"
          /\ stage' = "answering"
          /\ UNCHANGED <<announced, answered>>

(* One round of the loop of parse_stream. *)
Answer == /\ stage = "answering" /\ answered < announced
          /\ answered' = answered + 1
          /\ UNCHANGED <<stage, announced>>

(* The connection is closed, at any time: all was answered, something      *)
(* failed, or the process is gone.                                         *)
End == /\ stage # "over"
       /\ stage' = "over"
       /\ UNCHANGED <<announced, answered>>

Next == Refuse \/ Accept \/ Answer \/ End

Spec == Init /\ [][Next]_vars
=============================================================================
