----------------------------- MODULE TaskEnums ------------------------------
(***************************************************************************)
(* The task macros of the stream layer: #[client_task] on structs,          *)
(* #[client_task_enum] on the client's enum of tasks and                    *)
(* #[server_task_enum] on the server's.  What a macro accepts and which     *)
(* code it generates is a function of the declaration; a call then runs     *)
(* through the generated From, get_action, decode_req, set_result and done. *)
(* stream/macros/src, with the tasks of stream/src/server/task.rs.          *)
(*                                                                         *)
(* A variant has a subtype and a sequence of #[action] attributes, each a   *)
(* list of tokens: an integer, a string, the path of a numeric enum, a      *)
(* literal of another kind ("bool") or a name with a value ("nv").          *)
(***************************************************************************)
EXTENDS Naturals, Sequences, FiniteSets

CONSTANTS
  Types,        \* the subtypes of the two enums
  Programs,     \* the declarations, a sequence of records of sets of choices
                \*   structs: the client's struct of each subtype, [args, fields]
                \*   clients: the client's enum, a sequence of variants [ty, attrs]
                \*   servers: the server's, [variants, req, resp, resp_type]
  Names         \* what a field tagged with `action` may hold

VARIABLES
  structs, client, server, \* the declarations
  call                     \* the call under way

vars == <<structs, client, server, call>>

Num(n) == [kind |-> "num", v |-> n]
Str(n) == [kind |-> "str", v |-> n]

\* The action a token stands for: the path of a numeric enum is cast to i32.
ActionOf(tok) == IF tok.kind = "str" THEN Str(tok.v) ELSE Num(tok.v)
Supported(tok) == tok.kind \in {"int", "str", "path"}

Where(s, Test(_)) == {i \in DOMAIN s : Test(s[i])}
First(S) == CHOOSE i \in S : \A j \in S : i <= j
Last(S) == CHOOSE i \in S : \A j \in S : j <= i

-----------------------------------------------------------------------------
(***************************************************************************)
(* #[client_task].                                                          *)
(***************************************************************************)
Tagged(d, tag) == Where(d.fields, LAMBDA f : f.tag = tag)
StaticArgs(d) == Where(d.args, LAMBDA a : a.kind # "debug")

\* Of several fields with the same tag the last one is used.
Field(d, tag) == d.fields[Last(Tagged(d, tag))]

\* Option<Result<(), RpcError<E>>> and Option<MTx<T>>.
DoneTypes(d) ==
  Tagged(d, "res") # {} => Field(d, "res").ty = "OptionResult" /\ Field(d, "noti").ty = "OptionMTx"

\* An action in a field is a String or a number; one in the attribute is a literal or a path.
ActionTypes(d) ==
  /\ Tagged(d, "action") # {} => Field(d, "action").ty # "tuple"
  /\ \A i \in StaticArgs(d) : Supported(d.args[i])

ClientTaskOk(d) ==
  /\ Cardinality(DOMAIN d.args \ StaticArgs(d)) <= 1 /\ Cardinality(StaticArgs(d)) <= 1
  /\ Cardinality(Tagged(d, "action")) <= 1
  /\ Tagged(d, "action") = {} \/ StaticArgs(d) = {}
  /\ (Tagged(d, "res") # {}) = (Tagged(d, "noti") # {})
  /\ \A tag \in {"common", "req", "resp"} : Tagged(d, tag) # {}
  /\ Field(d, "resp").ty = "Option"
  /\ ActionTypes(d) /\ DoneTypes(d)

HasAction(d) == Tagged(d, "action") # {} \/ StaticArgs(d) # {}

\* get_action of a task whose action field holds n.
TaskAction(d, n) ==
  IF Tagged(d, "action") = {} THEN ActionOf(d.args[First(StaticArgs(d))])
  ELSE IF Field(d, "action").ty = "String" THEN Str(n) ELSE Num(n)

-----------------------------------------------------------------------------
(***************************************************************************)
(* #[client_task_enum].                                                     *)
(***************************************************************************)
\* get_action_attribute: the first list that starts with a literal or a path.
ClientAttrs(v) ==
  Where(v.attrs, LAMBDA l : l # <<>> /\ l[1].kind # "nv")
ClientAttr(v) == v.attrs[First(ClientAttrs(v))]

\* Only a list of literals is refused when it is longer than one.
ClientAttrOk(v) ==
  LET l == ClientAttr(v) IN
    ClientAttrs(v) # {} => Supported(l[1]) /\ (l[1].kind # "path" => Len(l) = 1)

NoDuplicates(vs) == \A i, j \in DOMAIN vs : vs[i].ty = vs[j].ty => i = j

ClientEnumOk(vs) == NoDuplicates(vs) /\ \A i \in DOMAIN vs : ClientAttrOk(vs[i])

\* get_action of the enum.
ClientAction(v, n) ==
  IF ClientAttrs(v) # {} THEN ActionOf(ClientAttr(v)[1]) ELSE TaskAction(structs[v.ty], n)

\* From<T>: the variant with that subtype.
From(vs, ty) == First(Where(vs, LAMBDA v : v.ty = ty))

-----------------------------------------------------------------------------
(***************************************************************************)
(* #[server_task_enum].                                                     *)
(***************************************************************************)
\* get_action_attribute: all of the first list that is not empty.
ServerActions(v) ==
  LET ls == Where(v.attrs, LAMBDA l : l # <<>>)
  IN IF ls = {} THEN <<>> ELSE v.attrs[First(ls)]

ServerEnumOk(s) ==
  /\ s.resp # s.resp_type
  /\ s.req => \A i \in DOMAIN s.variants :
       LET acts == ServerActions(s.variants[i])
       IN acts # <<>> /\ \A k \in DOMAIN acts : Supported(acts[k])
  /\ NoDuplicates(s.variants)

\* The arms of decode_req for a variant: one for each action.
DecodeArms(v) == {ActionOf(ServerActions(v)[k]) : k \in DOMAIN ServerActions(v)}

\* The variants whose arms match; the match takes the first.
Matching(a) == Where(server.variants, LAMBDA v : a \in DecodeArms(v))

\* Mutant: a variant always reports its first action.
ServerActionFirst(v, stored) == ActionOf(ServerActions(v)[1])

\* get_action: with several actions the task knows which one it came with.
ServerAction(v, stored) ==
  IF Len(ServerActions(v)) > 1 THEN stored ELSE ActionOf(ServerActions(v)[1])

-----------------------------------------------------------------------------
(***************************************************************************)
(* The compiler: the traits the generated code asks for are there.          *)
(***************************************************************************)
Compiles(ss, vs) ==
  \A i \in DOMAIN vs : ClientAttrs(vs[i]) # {} \/ HasAction(ss[vs[i].ty])

Init ==
  /\ \E i \in DOMAIN Programs :
       /\ structs \in Programs[i].structs
       /\ client \in Programs[i].clients /\ server \in Programs[i].servers
  /\ call = [at |-> "expand"]

\* A program with a declaration that a macro refuses is never built.
Build ==
  /\ call.at = "expand"
  /\ \A t \in {client[i].ty : i \in DOMAIN client} : ClientTaskOk(structs[t])
  /\ ClientEnumOk(client) /\ ServerEnumOk(server) /\ server.req
  /\ Compiles(structs, client)
  /\ call' = [at |-> "built"]
  /\ UNCHANGED <<structs, client, server>>

\* A task is put in its variant and encoded with its action.
Send(i, n) ==
  /\ call.at = "built"
  /\ call' = [at |-> "sent", variant |-> i, name |-> n, action |-> ClientAction(client[i], n)]
  /\ UNCHANGED <<structs, client, server>>

\* decode_req: the first arm that matches decodes the task, which keeps the action.
DecodeReq ==
  /\ call.at = "sent" /\ Matching(call.action) # {}
  /\ call' = [at |-> "decoded", variant |-> call.variant, name |-> call.name,
              by |-> First(Matching(call.action)), stored |-> call.action]
  /\ UNCHANGED <<structs, client, server>>

\* Unknown action.
DecodeReqErr ==
  /\ call.at = "sent" /\ Matching(call.action) = {}
  /\ call' = [at |-> "unknown", variant |-> call.variant, name |-> call.name]
  /\ UNCHANGED <<structs, client, server>>

\* The handler sets the result on the task, which becomes the enum again.
SetResult ==
  /\ call.at = "decoded" /\ server.resp
  /\ call' = [at |-> "answered", variant |-> call.variant, name |-> call.name, by |-> call.by,
              resp |-> From(server.variants, server.variants[call.by].ty)]
  /\ UNCHANGED <<structs, client, server>>

\* Its response completes the client's task: done gives the subtype of the variant, which
\* becomes the client's enum again.
Done ==
  /\ call.at = "answered"
  /\ call' = [at |-> "done", variant |-> call.variant, by |-> call.by, resp |-> call.resp,
              back |-> From(client, client[call.variant].ty)]
  /\ UNCHANGED <<structs, client, server>>

Next ==
  \/ Build \/ DecodeReq \/ DecodeReqErr \/ SetResult \/ Done
  \/ \E n \in Names : \E i \in DOMAIN client : Send(i, n)

Spec == Init /\ [][Next]_vars

-----------------------------------------------------------------------------
(***************************************************************************)
(* Properties.                                                              *)
(***************************************************************************)
\* The action the declarations of a client variant give a call: the attribute of the
\* variant takes precedence over the task's own.
Declared ==
  LET v == client[call.variant]
      own == {i \in DOMAIN v.attrs : v.attrs[i] # <<>> /\ Supported(v.attrs[i][1])}
  IN IF own = {} THEN TaskAction(structs[v.ty], call.name)
     ELSE ActionOf(v.attrs[First(own)][1])

Declares(v, a) ==
  \E l \in DOMAIN v.attrs : \E k \in DOMAIN v.attrs[l] :
    Supported(v.attrs[l][k]) /\ ActionOf(v.attrs[l][k]) = a

\* A call keeps its action and its variants all the way.  The variant that decodes it
\* reports to the handler the action the client declared, whichever of its actions that is;
\* it is refused only when the first list of no variant has it; and the task comes back
\* into the variant it went out of, on both sides (get_action, decode_req, From, set_result).
CallKept ==
  /\ call.at = "decoded" => ServerAction(server.variants[call.by], call.stored) = Declared
  /\ call.at = "unknown" =>
       \A i \in DOMAIN server.variants : LET v == server.variants[i] IN
         Declares(v, Declared) => \E l \in DOMAIN v.attrs : l > 1
  /\ call.at = "done" => call.resp = call.by /\ call.back = call.variant

=============================================================================
