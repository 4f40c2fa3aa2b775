-------------------------- MODULE ApiDispatchDocs ---------------------------
(***************************************************************************)
(* What the documents of the API macros say of the mux struct, where the    *)
(* code of module ApiDispatch does not do so.                               *)
(***************************************************************************)
EXTENDS ApiDispatch, MCDecls

\* docs/api_design.md:165 and macros/src/lib.rs:108 say "The macro generates a `serve`
\* implementation that matches `req.service` against the field names of the struct."  So a
\* call is answered by the field with the name of its service, or refused if there is none.
MuxByFieldName ==
  call.at = "mux" =>
    IF \E i \in DOMAIN mux : mux[i].field = trait.name
    THEN \E i \in DOMAIN mux :
           /\ mux[i].field = trait.name
           /\ call.struct = Handler(mux[i].service, trait.methods[call.i].name, call.arg)
    ELSE call.struct.tag = "service"

=============================================================================
