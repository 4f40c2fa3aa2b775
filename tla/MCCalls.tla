------------------------------ MODULE MCCalls -------------------------------
(***************************************************************************)
(* A call, asked one of three questions: what becomes of its bytes on the   *)
(* connection (CallPath), which variant of the task enums decodes it        *)
(* (TaskEnums), or which method of the services serves it (ApiDispatch).    *)
(***************************************************************************)
EXTENDS MCCallPath, MCDecls

VARIABLES
  structs, client_enum, server_enum, enum_call,   \* of TaskEnums
  trait, mux, api_call                            \* of ApiDispatch

enumVars == <<structs, client_enum, server_enum, enum_call>>
apiVars == <<trait, mux, api_call>>

Enums == INSTANCE TaskEnums
  WITH Types <- MCTypes, Programs <- MCEnumPrograms, Names <- MCNames,
       client <- client_enum, server <- server_enum, call <- enum_call

Api == INSTANCE ApiDispatch
  WITH Traits <- MCTraits, MuxFields <- MCMuxFields, Args <- MCArgs, call <- api_call

\* What the call does not ask about has no declarations and takes no step.
Unused == [at |-> "unused"]
NoEnums == structs = <<>> /\ client_enum = <<>> /\ server_enum = Unused /\ enum_call = Unused
NoApi == trait = Unused /\ mux = <<>> /\ api_call = Unused

MCInit ==
  \/ Init /\ NoEnums /\ NoApi
  \/ Init /\ program = 1 /\ Enums!Init /\ NoApi
  \/ Init /\ program = 1 /\ NoEnums /\ Api!Init

MCNext ==
  \/ NoEnums /\ NoApi /\ Next /\ UNCHANGED <<enumVars, apiVars>>
  \/ ~NoEnums /\ Enums!Next /\ UNCHANGED <<vars, apiVars>>
  \/ ~NoApi /\ Api!Next /\ UNCHANGED <<vars, enumVars>>

MCSpec == MCInit /\ [][MCNext]_<<vars, enumVars, apiVars>>

\* A call keeps its action and its variants all the way (TaskEnums: get_action, decode_req,
\* From, set_result).
CallKept == ~NoEnums => Enums!CallKept

\* A call of the generated client runs the method it names, whichever mux serves it
\* (ApiDispatch: ServiceMethod, SERVICE_NAME, serve).
ServedByName == ~NoApi => Api!ServedByName

=============================================================================
