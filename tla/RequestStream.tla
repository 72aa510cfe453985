----------------------------- MODULE RequestStream -----------------------------
(***************************************************************************)
(* What the bridge promises a content script, without saying how: the      *)
(* events posted under the id of each request.  A request that was sent    *)
(* gets tokens and then one end; nothing is posted to a closed port; a     *)
(* CANCEL ends the request at once.  Two weaknesses are part of the        *)
(* promise, because clients have to live with them: an error may follow    *)
(* the done of a CANCEL, and the recovery error ("orphan") may answer any  *)
(* message of a tab.                                                       *)
(***************************************************************************)
EXTENDS Naturals, Sequences

CONSTANTS
  Ports,     \* successive bridge ports
  Requests,  \* request ids
  PortOf,    \* PortOf[r]: the port r is sent on
  TabOf      \* TabOf[p]: the tab of a port

VARIABLES
  out,        \* out[r]: events posted under the id of r
  sent,       \* requests the worker has taken on or refused
  open,       \* open ports
  cancelled,  \* requests aborted by a CANCEL or by the loss of their port
  degraded    \* the session storage has failed: stray errors may follow

vars == <<out, sent, open, cancelled, degraded>>

End == {"done", "error", "segment"}

Init ==
  /\ out = [r \in Requests |-> <<>>]
  /\ sent = {}
  /\ open = {}
  /\ cancelled = {}
  /\ degraded = FALSE

Last(r) == IF out[r] = <<>> THEN "none" ELSE out[r][Len(out[r])]

Unfinished(r) == Last(r) \in {"none", "token"}

Emit(r, e) == out' = [out EXCEPT ![r] = Append(@, e)]

HasOpenPort(t) == \E p \in open : TabOf[p] = t

-------------------------------------------------------------------------------
OpenPort(p) ==
  /\ open' = open \cup {p}
  /\ UNCHANGED <<out, sent, cancelled, degraded>>

(* Ports close; the requests on them may be given up.                       *)
Shut(P, given) ==
  /\ open' = open \ P
  /\ cancelled' = cancelled \cup given
  /\ UNCHANGED <<out, sent>>

Send(r) ==
  /\ r \notin sent
  /\ PortOf[r] \in open
  /\ sent' = sent \cup {r}
  /\ UNCHANGED <<out, open, cancelled, degraded>>

(* The recovery error in place of an answer.                                *)
Refuse(r) ==
  /\ r \notin sent
  /\ PortOf[r] \in open
  /\ sent' = sent \cup {r}
  /\ Emit(r, "orphan")
  /\ UNCHANGED <<open, cancelled, degraded>>

(* Tokens, then one end.                                                    *)
Deliver(r, e) ==
  /\ r \in sent
  /\ PortOf[r] \in open
  /\ Unfinished(r)
  /\ Emit(r, e)
  /\ UNCHANGED <<sent, open, cancelled, degraded>>

(* A CANCEL: the request is given up and, if it has no end yet, done.       *)
Cancel(r) ==
  /\ r \in sent
  /\ PortOf[r] \in open
  /\ cancelled' = cancelled \cup {r}
  /\ IF Unfinished(r) THEN Emit(r, "done") ELSE UNCHANGED out
  /\ UNCHANGED <<sent, open, degraded>>

(* The answer that was under way when the CANCEL came.                      *)
LateError(r) ==
  /\ r \in cancelled
  /\ PortOf[r] \in open
  /\ Last(r) = "done"
  /\ Emit(r, "error")
  /\ UNCHANGED <<sent, open, cancelled, degraded>>

(* A CANCEL of r is answered by the recovery error.                         *)
Interrupted(r) ==
  /\ r \in sent
  /\ HasOpenPort(TabOf[PortOf[r]])
  /\ Emit(r, "orphan")
  /\ UNCHANGED <<sent, open, cancelled, degraded>>

Degrade ==
  /\ degraded' = TRUE
  /\ UNCHANGED <<out, sent, open, cancelled>>

(* A CANCEL of r failed in the storage.                                     *)
StrayError(r) ==
  /\ degraded
  /\ r \in sent
  /\ HasOpenPort(TabOf[PortOf[r]])
  /\ Emit(r, "error")
  /\ UNCHANGED <<sent, open, cancelled, degraded>>

Next ==
  \/ \E p \in Ports : OpenPort(p)
  \/ \E P \in SUBSET Ports :
       \E given \in SUBSET {r \in sent : PortOf[r] \in P} :
         Shut(P, given) /\ degraded' \in {degraded, TRUE}
  \/ \E r \in Requests :
       \/ Send(r) \/ Refuse(r) \/ Cancel(r) \/ LateError(r)
       \/ Interrupted(r) \/ StrayError(r)
       \/ \E e \in {"token"} \cup End : Deliver(r, e)
  \/ Degrade

Spec == Init /\ [][Next]_vars
===============================================================================
