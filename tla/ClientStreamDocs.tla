-------------------------- MODULE ClientStreamDocs --------------------------
(***************************************************************************)
(* What a test of the repository says of a client connection that is being *)
(* dropped, where the code of module ClientStream does not do so.           *)
(***************************************************************************)
EXTENDS ClientStream

\* test_client_drop.rs:66 says "The client.recv_loop should ensure all task
\* received after drop".  So stopping registration does not make the reader throw
\* away the response of a task that is registered and waiting.
DropKeepsResponses == [][WaitRegStopped => resp.seq \notin Live]_vars

=============================================================================
