---------------------------- MODULE ApiDispatch -----------------------------
(***************************************************************************)
(* The macros of the API layer: #[endpoint_async] makes a client of a       *)
(* trait, #[service] a service of an impl block, and a server serves one    *)
(* service, a #[service_mux_struct] of several, or a ServiceMuxDyn.         *)
(* macros/src and src/server/service.rs.  What a macro accepts and which    *)
(* code it generates is a function of the declaration; a call then runs     *)
(* through the generated method, match and handler.                         *)
(*                                                                         *)
(* A method has a name, a number of inputs with self among them, the type   *)
(* of its argument and a form of return type: "async" for an async fn,      *)
(* "future" for impl Future, "pin" for what async_trait makes, "plain".     *)
(***************************************************************************)
EXTENDS Naturals, Sequences

CONSTANTS
  Traits,     \* client traits: [name, methods]
  MuxFields,  \* the server's services: sequences of [field, service], where a service is an
              \* impl block [trait, self, methods]; trait is "" in an inherent impl
  Args        \* what callers pass: [ty, val]

VARIABLES
  trait, mux, \* the declarations
  call        \* the call under way

vars == <<trait, mux, call>>

-----------------------------------------------------------------------------
(***************************************************************************)
(* #[endpoint_async].                                                       *)
(***************************************************************************)
\* check_return_type: Result<_, RpcError<_>>, or a future of one.
CheckReturnType(m) == m.result = "rpc" /\ m.form \in {"async", "future", "plain"}

\* One argument besides self.  Unless it has a name, and the method is asynchronous, the
\* method generated is not that of the trait, and the compiler refuses it.
EndpointMethodOk(m) == m.inputs = 2 /\ CheckReturnType(m) /\ m.named /\ m.form # "plain"

EndpointOk(t) == \A i \in DOMAIN t.methods : EndpointMethodOk(t.methods[i])

\* The generated method calls "TraitName.method_name".
ServiceMethod(t, m) == [service |-> t.name, method |-> m.name]

-----------------------------------------------------------------------------
(***************************************************************************)
(* #[service].                                                              *)
(***************************************************************************)
\* Mutant: the name of the type, also when it implements a trait.
ServiceNameSelf(s) == s.self

\* SERVICE_NAME: of the trait, or of the type.
ServiceName(s) == IF s.trait # "" THEN s.trait ELSE s.self

\* All methods of a trait; of an inherent impl those marked with #[method].
Exposed(s) == {i \in DOMAIN s.methods : s.trait # "" \/ s.methods[i].marked}

ServiceOk(s) ==
  \A i \in Exposed(s) : s.methods[i].inputs >= 2 /\ s.methods[i].form \in {"async", "future", "pin"}

\* The arm of serve for a method, and its handler: what the codec cannot decode as the
\* argument is refused.
Handler(s, method, arg) ==
  LET arms == {i \in Exposed(s) : s.methods[i].name = method}
  IN IF arms = {} THEN [tag |-> "method"]
     ELSE LET i == CHOOSE i \in arms : TRUE
          IN IF s.methods[i].arg = arg.ty
             THEN [tag |-> "run", service |-> s, method |-> i, arg |-> arg.val]
             ELSE [tag |-> "decode"]

-----------------------------------------------------------------------------
(***************************************************************************)
(* #[service_mux_struct] and ServiceMuxDyn.                                 *)
(***************************************************************************)
Fields(name) == {i \in DOMAIN mux : ServiceName(mux[i].service) = name}

\* The match over the fields takes the first one with the name.
MuxStruct(c) ==
  LET fs == Fields(c.service)
  IN IF fs = {} THEN [tag |-> "service"]
     ELSE Handler(mux[CHOOSE i \in fs : \A j \in fs : i <= j].service, c.method, c.arg)

\* add: a service with the same name replaces the one before.
MapOf(services) ==
  [n \in {ServiceName(services[i].service) : i \in DOMAIN services} |->
     LET is == {i \in DOMAIN services : ServiceName(services[i].service) = n}
     IN services[CHOOSE i \in is : \A j \in is : j <= i].service]

\* serve of the map.
MuxDyn(c) ==
  IF c.service \notin DOMAIN MapOf(mux) THEN [tag |-> "service"]
  ELSE Handler(MapOf(mux)[c.service], c.method, c.arg)

-----------------------------------------------------------------------------
Init ==
  /\ trait \in Traits /\ mux \in MuxFields
  /\ call = [at |-> "expand"]

\* A program with a declaration that a macro refuses is never built.
Build ==
  /\ call.at = "expand"
  /\ EndpointOk(trait) /\ \A i \in DOMAIN mux : ServiceOk(mux[i].service)
  /\ call' = [at |-> "built"]
  /\ UNCHANGED <<trait, mux>>

\* A method of the generated client is called, with an argument of its type.
Call(i, arg) ==
  /\ call.at = "built" /\ trait.methods[i].arg = arg.ty
  /\ LET p == ServiceMethod(trait, trait.methods[i])
     IN call' = [at |-> "called", i |-> i, service |-> p.service, method |-> p.method, arg |-> arg]
  /\ UNCHANGED <<trait, mux>>

\* The server serves one service, and does not look at the name of the service.
ServeOne ==
  /\ call.at = "called" /\ Len(mux) = 1
  /\ call' = [at |-> "one", i |-> call.i, arg |-> call.arg,
              res |-> Handler(mux[1].service, call.method, call.arg)]
  /\ UNCHANGED <<trait, mux>>

\* The server serves several; both kinds of mux, so that they can be compared.
ServeMux ==
  /\ call.at = "called"
  /\ call' = [at |-> "mux", i |-> call.i, arg |-> call.arg,
              struct |-> MuxStruct(call), dyn |-> MuxDyn(call)]
  /\ UNCHANGED <<trait, mux>>

Next ==
  \/ Build \/ ServeOne \/ ServeMux
  \/ \E a \in Args : \E i \in DOMAIN trait.methods : Call(i, a)

Spec == Init /\ [][Next]_vars

-----------------------------------------------------------------------------
(***************************************************************************)
(* Properties.                                                              *)
(***************************************************************************)
\* The impl blocks a call of the client's trait can mean: those of the trait itself, and
\* those of a type with its name.
Meant(s) == s.trait = trait.name \/ (s.trait = "" /\ s.self = trait.name)

\* The answer of a mux is right: a method runs when a service that is meant exposes one
\* with that name, of the same argument type, and it is such a method that runs, with the
\* argument of the call; otherwise the error says what is missing.
Right(r) ==
  LET m == trait.methods[call.i]
      of(s) == {i \in DOMAIN s.methods :
                  s.methods[i].name = m.name /\ (s.trait # "" \/ s.methods[i].marked)}
      meant == {i \in DOMAIN mux : Meant(mux[i].service)}
  IN CASE r.tag = "run" -> /\ Meant(r.service) /\ r.method \in of(r.service)
                           /\ r.arg = call.arg.val
       [] r.tag = "service" -> meant = {}
       [] r.tag = "method" -> \E i \in meant : of(mux[i].service) = {}
       [] OTHER -> \E i \in meant : \E k \in of(mux[i].service) :
                     mux[i].service.methods[k].arg # m.arg

\* However a server is put together, a call of the generated client runs the method it
\* names, and only if it is exposed and takes that argument.  With several services it is
\* that of the service that implements the client's trait, whatever the fields are called,
\* and both kinds of mux answer alike: they refuse the same services, and where one service
\* has the name they do the same.  A single service does not look at the name it is called
\* by (ServiceMethod, SERVICE_NAME, serve, add).
ServedByName ==
  /\ call.at = "mux" =>
       /\ Right(call.struct) /\ Right(call.dyn)
       /\ (call.struct.tag = "service") = (call.dyn.tag = "service")
       /\ (\A i, j \in DOMAIN mux :
             Meant(mux[i].service) /\ Meant(mux[j].service) => i = j) => call.struct = call.dyn
  /\ call.at = "one" /\ call.res.tag = "run" =>
       LET s == call.res.service
           m == s.methods[call.res.method]
       IN /\ s.trait # "" \/ m.marked
          /\ m.name = trait.methods[call.i].name /\ m.arg = call.arg.ty

=============================================================================
