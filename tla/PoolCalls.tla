----------------------------- MODULE PoolCalls ------------------------------
(***************************************************************************)
(* What a connection pool promises about the tasks it is given, without     *)
(* saying how.  A task is taken once and ends at most once; how it ended    *)
(* does not change.  The pool may become unhealthy and stays so.  Only an   *)
(* unhealthy pool ends a task with Unreachable, which is what makes another *)
(* pool the better choice for a retry.                                      *)
(***************************************************************************)
CONSTANT Tasks

VARIABLES
  state,    \* "new", "open", or what the task ended with
  healthy

Init ==
  /\ state = [t \in Tasks |-> "new"]
  /\ healthy = TRUE

Take(t) ==
  /\ state[t] = "new"
  /\ state' = [state EXCEPT ![t] = "open"]
  /\ UNCHANGED healthy

\* The task ends; "lost" is a task dropped because its request does not encode, or
\* whose response was half read when the connection failed.
End(t, r) ==
  /\ state[t] = "open"
  /\ r = "Unreachable" => ~healthy
  /\ state' = [state EXCEPT ![t] = r]
  /\ UNCHANGED healthy

Fail ==
  /\ healthy /\ healthy' = FALSE
  /\ UNCHANGED state

Next ==
  \/ \E t \in Tasks : Take(t)
  \/ \E t \in Tasks, r \in {"Ok", "Timeout", "IO", "Unreachable", "lost"} : End(t, r)
  \/ Fail

Spec == Init /\ [][Next]_<<state, healthy>>

=============================================================================
