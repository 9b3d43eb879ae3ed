---------------------------- MODULE MCTmuxStream ----------------------------
(* Model-checking instance of TmuxStream, its liveness properties and what   *)
(* the repository says of it.                                                *)
EXTENDS TmuxStream

\* A local service whose reading was stopped is read again, or its stream is
\* closed: NoLostWakeup and the credit of frps together.
ReadResumes == (Listed /\ bev = "open" /\ ~ read_on) ~> (read_on \/ ~ Listed \/ bev # "open")

\* A stream frps has closed is eventually freed.
ClosedIsFreed == (peer.state \in {"LOCAL_CLOSE", "CLOSED"}) ~> ~ Listed

-----------------------------------------------------------------------------
(* A claim of the repository that the code does not keep.                    *)

\* README.md, sequence diagram: what the local service sends, xfrpc sends to
\* frps. Bytes read from the local service leave for frps sooner or later, or
\* the stream ends.
TailNotStranded == (Listed /\ tx_ring # <<>>) ~> (tx_ring = <<>> \/ ~ Listed)
=============================================================================
