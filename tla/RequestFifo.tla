----------------------------- MODULE RequestFifo -----------------------------
(***************************************************************************)
(* What PipelineHandler promises of the requests queued to it: each is      *)
(* returned to the application once, in submission order, and in the end    *)
(* all of them are.                                                         *)
(***************************************************************************)
EXTENDS Sequences, Naturals

CONSTANT Request

VARIABLES fifo,   \* requests queued and not yet returned, in submission order
          held    \* requests the application has, or is about to queue

vars == <<fifo, held>>

TypeOK == fifo \in Seq(Request) /\ held \subseteq Request

Init == fifo = <<>> /\ held = Request

\* PipelineHandler::queueRequest()
Queue(r) ==
    /\ r \in held
    /\ held' = held \ {r}
    /\ fifo' = Append(fifo, r)

\* Camera::requestComplete()
Complete ==
    /\ fifo # <<>>
    /\ held' = held \cup {Head(fifo)}
    /\ fifo' = Tail(fifo)

Next == Complete \/ \E r \in Request : Queue(r)

Spec == Init /\ [][Next]_vars

FairSpec == Spec /\ WF_vars(Complete)
=============================================================================
