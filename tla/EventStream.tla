------------------------------ MODULE EventStream ------------------------------
(***************************************************************************)
(* What a streaming route of the backend promises its client: tokens, at   *)
(* most one warning, which only a done may follow, then one done or error  *)
(* and nothing more; and a stream the backend closes while the client is   *)
(* still there has had its done or error.                                  *)
(***************************************************************************)
EXTENDS Naturals, Sequences

VARIABLES
  streaming,  \* the answer is an event stream
  sent,       \* the events the client can read
  left,       \* the client has gone away
  over        \* the backend has finished with the request

vars == <<streaming, sent, left, over>>

Closing == {"done", "error"}

LastSent == sent[Len(sent)]

Ended == sent # <<>> /\ LastSent \in Closing

Warned == sent # <<>> /\ LastSent = "warning"

Init ==
  /\ streaming = FALSE
  /\ sent = <<>>
  /\ left = FALSE
  /\ over = FALSE

(* The stream is opened, perhaps only to say that there is no provider.     *)
Open ==
  /\ ~streaming
  /\ ~over
  /\ streaming' = TRUE
  /\ sent' \in {<<>>, <<"error">>}
  /\ UNCHANGED <<left, over>>

Say(e) ==
  /\ streaming
  /\ ~over
  /\ ~Ended
  /\ Warned => e = "done"
  /\ sent' = Append(sent, e)
  /\ UNCHANGED <<streaming, left, over>>

Leave ==
  /\ left' = TRUE
  /\ UNCHANGED <<streaming, sent, over>>

Close ==
  /\ ~over
  /\ streaming => Ended \/ left
  /\ over' = TRUE
  /\ UNCHANGED <<streaming, sent, left>>

Next ==
  \/ Open
  \/ \E e \in {"token", "warning"} \cup Closing : Say(e)
  \/ Leave
  \/ Close

Spec == Init /\ [][Next]_vars
===============================================================================
