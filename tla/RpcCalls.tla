------------------------------ MODULE RpcCalls ------------------------------
(***************************************************************************)
(* What a client connection promises about its calls, without saying how.   *)
(* A call is opened once.  The peer may answer an open call, and may answer *)
(* it again or too late.  An open call ends once: with an outcome the peer  *)
(* answered to that very call, or with IO or Timeout, decided locally.      *)
(* What a call ended with never changes.                                    *)
(***************************************************************************)
CONSTANTS Calls, PeerOutcomes

LocalOutcomes == {"IO", "Timeout"}

VARIABLES
  state,    \* "new", "open", "lost" or the outcome of each call
  answers   \* the outcomes the peer has answered for each call

Init ==
  /\ state = [c \in Calls |-> "new"]
  /\ answers = [c \in Calls |-> {}]

Open(c) ==
  /\ state[c] = "new"
  /\ state' = [state EXCEPT ![c] = "open"]
  /\ UNCHANGED answers

Answer(c, r) ==
  /\ state[c] # "new"
  /\ answers' = [answers EXCEPT ![c] = @ \cup {r}]
  /\ UNCHANGED state

\* All calls of S end together: a batch that times out, a connection that fails.
End(S, r) ==
  /\ S # {}
  /\ \A c \in S : state[c] = "open" /\ (r \in LocalOutcomes \/ r \in answers[c])
  /\ state' = [c \in Calls |-> IF c \in S THEN r ELSE state[c]]
  /\ UNCHANGED answers

\* The call is dropped and its caller is not told.
Lose(c) ==
  /\ state[c] \in {"new", "open"}
  /\ state' = [state EXCEPT ![c] = "lost"]
  /\ UNCHANGED answers

Next ==
  \/ \E c \in Calls : Open(c) \/ Lose(c)
  \/ \E c \in Calls, r \in PeerOutcomes : Answer(c, r)
  \/ \E S \in SUBSET Calls, r \in LocalOutcomes \cup PeerOutcomes : End(S, r)

Spec == Init /\ [][Next]_<<state, answers>>

=============================================================================
