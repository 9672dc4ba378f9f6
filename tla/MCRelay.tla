------------------------------ MODULE MCRelay ------------------------------
(* Small instances of the relay connection. *)
EXTENDS RelayConnection, TLC

W(e, f, n) == [events |-> e, talk |-> TRUE, frames |-> f, faults |-> n]
\* Events alone; frames alone; one of each; a frame between a removal from the
\* channel and a re-admission.
MCWorkloads ==
  {W(2, 0, 3), W(0, 2, 3), W(1, 1, 2), [W(2, 1, 2) EXCEPT !.talk = FALSE]}

\* When the faults are over, every wanted subscription is registered for good
\* (EventuallyLive) and every observer frame that was handed over is answered or
\* counted as evicted, except one that the drain of a connection stranded which
\* failed in the same drain (FramesSettle): relay.rs run_background_task.
ConnectionRecovers == EventuallyLive /\ FramesSettle
=============================================================================
