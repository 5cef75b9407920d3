---------------------------- MODULE TurnContract ----------------------------
(***************************************************************************)
(* What a conversation turn promises, with none of its machinery: no fast  *)
(* path, no tools, no budget.                                              *)
(*                                                                         *)
(* A turn asks the model a bounded number of times.  It is refused, or it  *)
(* has a reply, once.  A reply is recorded in the session at most once, in *)
(* one step, and only after it exists.  A prompt turn (the stream) tells   *)
(* its client before it records, any other one (/chat) in a step of its    *)
(* own after it; a client that was told `done' is told `error' as well if  *)
(* recording failed.  A turn may be abandoned at any point, also between   *)
(* recording and telling, and one that is closed does nothing more.        *)
(* AgentTurn implements this specification.                                *)
(***************************************************************************)
EXTENDS Naturals, Sequences

CONSTANT
    Limit       \* requests to the model in the loop of a turn

VARIABLES
    prompt,     \* the client is told of the reply before it is recorded
    phase,      \* "open", "replied", "settled" or "closed"
    asked,      \* requests made to the model
    told,       \* what the client was told, in order
    recorded    \* the exchange is in the session

vars == <<prompt, phase, asked, told, recorded>>

Init ==
    /\ prompt \in BOOLEAN
    /\ phase = "open"
    /\ asked = 0
    /\ told = <<>>
    /\ recorded = FALSE

(* The step makes no request to the model, or one more of those the turn has. *)
Spend == asked' = asked \/ (asked < Limit /\ asked' = asked + 1)

Ask ==
    /\ phase = "open"
    /\ Spend
    /\ UNCHANGED <<prompt, phase, told, recorded>>

Reply ==
    /\ phase = "open"
    /\ phase' = "replied"
    /\ Spend
    /\ told' = IF prompt THEN <<"done">> ELSE <<>>
    /\ UNCHANGED <<prompt, recorded>>

Refuse ==
    /\ phase = "open"
    /\ phase' = "closed"
    /\ Spend
    /\ told' = <<"error">>
    /\ UNCHANGED <<prompt, recorded>>

(* The reply is recorded, or is not; whether it is need not be known. *)
Record ==
    /\ phase = "replied"
    /\ phase' = "settled"
    /\ recorded' \in BOOLEAN
    /\ UNCHANGED <<prompt, asked, told>>

(* The client ends with `done' only of what is recorded. *)
Tell ==
    /\ phase = "settled"
    /\ phase' = "closed"
    /\ \/ recorded /\ told' = <<"done">>
       \/ told' = Append(told, "error")
    /\ UNCHANGED <<prompt, asked, recorded>>

Abandon ==
    /\ phase # "closed"
    /\ phase' = "closed"
    /\ UNCHANGED <<prompt, asked, told, recorded>>

Next == Ask \/ Reply \/ Refuse \/ Record \/ Tell \/ Abandon

Spec == Init /\ [][Next]_vars
=============================================================================
