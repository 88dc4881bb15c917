-------------------------- MODULE CheckpointQueues --------------------------
(***************************************************************************)
(* What the server promises about sharing the checkpoints, with none of    *)
(* the machinery that keeps the promise: every checkpoint has its own      *)
(* bounded first-in-first-out line; the request at the head of a line is   *)
(* the one being served; a request is turned away (HTTP 529) only when the *)
(* line of the very checkpoint it was routed to is full.                   *)
(*                                                                         *)
(* Engine.tla, the model of src/laya_server/engine.py, implements this.    *)
(***************************************************************************)
EXTENDS Integers, Sequences

CONSTANTS
    Requests,     \* request slots: one client connection's current request
    Checkpoints,  \* the model checkpoints
    Depth,        \* LAYA_SERVER_MAX_QUEUE
    Stuck,        \* checkpoints that may stop serving
    None          \* "no checkpoint"

VARIABLES
    line,     \* line[c]: who is served by c (the head) and who waits, in order
    refused   \* refused[r]: the checkpoint whose full line turned r away

vars == <<line, refused>>

-----------------------------------------------------------------------------

InLine(r, c) == \E i \in 1..Len(line[c]) : line[c][i] = r

Init ==
    /\ line = [c \in Checkpoints |-> <<>>]
    /\ refused = [r \in Requests |-> None]

\* r joins the end of c's line.
Join(r, c) ==
    /\ Len(line[c]) < Depth
    /\ \A d \in Checkpoints : ~InLine(r, d)
    /\ refused[r] = None
    /\ line' = [line EXCEPT ![c] = Append(@, r)]
    /\ UNCHANGED refused

\* c's line is full: r is told so and joins nothing.
TurnAway(r, c) ==
    /\ Len(line[c]) >= Depth
    /\ \A d \in Checkpoints : ~InLine(r, d)
    /\ refused[r] = None
    /\ refused' = [refused EXCEPT ![r] = c]
    /\ UNCHANGED line

\* c finishes with the request at the head of its line, whatever the result.
Serve(c) ==
    /\ line[c] # <<>>
    /\ line' = [line EXCEPT ![c] = Tail(@)]
    /\ UNCHANGED refused

\* A client that was turned away sends its next request.
ComeBack(r) ==
    /\ refused[r] # None
    /\ refused' = [refused EXCEPT ![r] = None]
    /\ UNCHANGED line

Next ==
    \/ \E r \in Requests, c \in Checkpoints : Join(r, c) \/ TurnAway(r, c)
    \/ \E c \in Checkpoints : Serve(c)
    \/ \E r \in Requests : ComeBack(r)

Spec == Init /\ [][Next]_vars

\* Every line moves, whatever the others do: its head is not served for ever.
FairSpec == Spec /\ \A c \in Checkpoints \ Stuck : WF_vars(Serve(c))

=============================================================================
