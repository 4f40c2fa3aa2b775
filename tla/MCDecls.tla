------------------------------ MODULE MCDecls -------------------------------
(***************************************************************************)
(* Declarations for the macros of both layers: structs and enums of tasks   *)
(* for TaskEnums, traits and services for ApiDispatch.                      *)
(***************************************************************************)
EXTENDS Naturals, Sequences

-----------------------------------------------------------------------------
(***************************************************************************)
(* Task enums.                                                              *)
(***************************************************************************)
MCTypes == {"A", "B"}
MCNames == {1, 2}

F(tag, ty) == [tag |-> tag, ty |-> ty]
Basic == <<F("common", "C"), F("req", "R"), F("resp", "Option")>>
ResNoti == <<F("res", "OptionResult"), F("noti", "OptionMTx")>>
Struct(args, fields) == [args |-> args, fields |-> fields]
Token(kind, v) == [kind |-> kind, v |-> v]
Debug == Token("debug", 0)
Int1 == Token("int", 1)
Int2 == Token("int", 2)
Path1 == Token("path", 1)
Path2 == Token("path", 2)
Str1 == Token("str", 1)

\* Structs the macro accepts, and one it refuses for each of its checks.
MCStructDecls ==
  {Struct(<<Int1>>, Basic \o ResNoti), Struct(<<Debug, Path2>>, Basic), Struct(<<Str1>>, Basic),
   Struct(<<>>, Basic), Struct(<<>>, Basic \o <<F("action", "String")>>),
   Struct(<<Debug>>, Basic \o <<F("action", "i32")>> \o ResNoti),
   Struct(<<>>, Basic \o <<F("resp", "Option"), F("req", "R2")>>),
   Struct(<<Debug, Debug>>, Basic), Struct(<<Int1, Int2>>, Basic), Struct(<<Token("nv", 1)>>, Basic),
   Struct(<<Int1>>, Basic \o <<F("action", "i32")>>),
   Struct(<<>>, Basic \o <<F("action", "i32"), F("action", "String")>>),
   Struct(<<>>, Basic \o <<F("action", "tuple")>>),
   Struct(<<>>, <<F("common", "C"), F("req", "R")>>), Struct(<<>>, Basic \o <<F("resp", "T")>>),
   Struct(<<>>, Basic \o <<F("res", "OptionResult")>>),
   Struct(<<>>, Basic \o <<F("res", "T"), F("noti", "OptionMTx")>>)}
MCAllStructs == {[t \in MCTypes |-> d] : d \in MCStructDecls}
MCFewStructs == {[t \in MCTypes |-> Struct(<<>>, Basic \o <<F("action", "i32")>>)],
                 [t \in MCTypes |-> Struct(<<Str1>>, Basic)]}

Variant(ty, attrs) == [ty |-> ty, attrs |-> attrs]
UpTo2(S) == {<<v>> : v \in S} \cup (S \X S)

MCClientAttrs == {<<>>, <<<<Int1>>>>, <<<<Path2>>>>, <<<<Str1>>>>, <<<<Int1, Int2>>>>,
                  <<<<Path1, Path2>>>>,
                  <<<<Token("nv", 2)>>, <<Int2>>>>, <<<<Token("bool", 1)>>>>}
MCClientEnums == UpTo2({Variant(t, a) : t \in MCTypes, a \in MCClientAttrs})

MCServerAttrs == {<<>>, <<<<Path1>>>>, <<<<Int2, Str1>>>>, <<<<Path1, Path2>>>>,
                  <<<<>>, <<Str1>>>>, <<<<Int1>>, <<Int2>>>>, <<<<Token("nv", 2)>>>>}
MCServerEnums ==
  {[variants |-> vs, req |-> TRUE, resp |-> TRUE, resp_type |-> FALSE] :
     vs \in UpTo2({Variant(t, a) : t \in MCTypes, a \in MCServerAttrs})}

\* Few enums, with the other attributes of #[server_task_enum].
MCPlainClients ==
  {<<Variant(t, a)>> : t \in MCTypes, a \in {<<>>, <<<<Path2>>>>}}
    \cup {<<Variant(t, <<>>), Variant(u, <<<<Int1>>>>)>> : t, u \in MCTypes}
MCPlainServers ==
  {[variants |-> vs, req |-> r, resp |-> p, resp_type |-> q] :
     vs \in {<<Variant(t, <<<<Path1, Int2>>>>), Variant(u, <<<<Str1>>>>)>> : t, u \in MCTypes},
     r, p, q \in BOOLEAN}

MCEnumPrograms ==
  <<[structs |-> MCFewStructs, clients |-> MCClientEnums, servers |-> MCServerEnums],
    [structs |-> MCAllStructs, clients |-> MCPlainClients, servers |-> MCPlainServers]>>

-----------------------------------------------------------------------------
(***************************************************************************)
(* Services.                                                                *)
(***************************************************************************)
M(name, arg) == [name |-> name, inputs |-> 2, named |-> TRUE, arg |-> arg, form |-> "async",
                 result |-> "rpc", marked |-> TRUE]
Hidden(m) == [m EXCEPT !.marked = FALSE]
Form(m, f) == [m EXCEPT !.form = f]

\* Traits the macro accepts, and one it refuses for each of its checks.
MCMethodLists ==
  {<<M("add", "A")>>, <<M("add", "A"), Form(M("mul", "B"), "future")>>,
   <<Form(M("add", "B"), "plain")>>, <<Form(M("add", "A"), "pin")>>,
   <<[M("add", "A") EXCEPT !.inputs = 1]>>, <<[M("add", "A") EXCEPT !.inputs = 3]>>,
   <<[M("add", "A") EXCEPT !.named = FALSE]>>, <<[M("add", "A") EXCEPT !.result = "io"]>>}
MCTraits == {[name |-> n, methods |-> ms] : n \in {"Calc", "Store"}, ms \in MCMethodLists}

Impl(t, s, ms) == [trait |-> t, self |-> s, methods |-> ms]
MCServices ==
  {Impl("Calc", "CalcImpl", <<M("add", "A"), Hidden(Form(M("mul", "B"), "pin"))>>),
   Impl("Calc", "Store", <<M("add", "A")>>), Impl("", "Calc", <<M("mul", "B"), Hidden(M("add", "A"))>>),
   Impl("", "Store", <<Hidden(Form(M("mul", "A"), "plain")), Form(M("add", "B"), "future")>>),
   Impl("", "Store", <<Form(M("mul", "A"), "plain"), M("add", "A")>>)}

MCField(f, s) == [field |-> f, service |-> s]
MCMuxFields ==
  {<<MCField("Calc", s)>> : s \in MCServices}
    \cup {<<MCField("Store", s), MCField("other", t)>> : s, t \in MCServices}
MCArgs == {[ty |-> t, val |-> v] : t \in {"A", "B"}, v \in 1..2}

=============================================================================
