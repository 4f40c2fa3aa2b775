---------------------------- MODULE MCCallPath -----------------------------
(***************************************************************************)
(* Programs for CallPath.                                                   *)
(***************************************************************************)
EXTENDS CallPath, TLC

Req(a, v, b) == [action |-> a, arg |-> v, blob |-> b]

\* Two services with a method of the same name; callers also name a method and a
\* service that do not exist, leave the dot out, and send an argument of another type.
MCMux ==
  [kind |-> "api", mux |-> TRUE, err_type |-> "string", junk |-> <<"junk">>,
   blob_room |-> 0, narrow |-> W, signed |-> TRUE, bounds |-> {0},
   methods |-> (<<"S">> :> {<<"m">>}) @@ (<<"T">> :> {<<"m">>, <<"n">>}),
   requests |-> {MakeReq(<<"S", ".", "m">>, "x"), MakeReq(<<"T", ".", "n">>, "fat"),
                 MakeReq(<<"S", ".", "n">>, "x"), MakeReq(<<"U", ".", "m">>, "y"),
                 MakeReq(<<"S">>, "x"), MakeReq(<<"T", ".", "m">>, "z")},
   outcomes |-> {Ok("x", <<>>), Ok("odd", <<>>), User(StrErr(<<"e">>)), Rpc("internal_err")}]

\* One service, whose name nobody looks at.
MCService ==
  [kind |-> "api", mux |-> FALSE, err_type |-> "unit", junk |-> <<>>,
   blob_room |-> 0, narrow |-> W, signed |-> TRUE, bounds |-> {0},
   methods |-> <<"S">> :> {<<"m">>, <<"n">>},
   requests |-> {MakeReq(<<"S", ".", "m">>, "x"), MakeReq(<<"U", ".", "n">>, "fat"),
                 MakeReq(<<"S", ".", "k">>, "x")},
   outcomes |-> {Ok("fat", <<>>), User(NumErr(0))}]

\* A task enum with numeric and string actions, blobs in both directions, more of it than
\* the client has room for, and numeric errors.
MCTasks ==
  [kind |-> "stream", mux |-> FALSE, err_type |-> "num", junk |-> <<>>,
   blob_room |-> 1, narrow |-> 2, signed |-> TRUE, bounds |-> {0, 7},
   methods |-> {NumAction(0), NumAction(1), StrAction(<<"act">>)},
   requests |-> {Req(NumAction(1), "x", <<"b1">>), Req(NumAction(0), "y", <<>>),
                 Req(StrAction(<<"act">>), "fat", <<"b1", "b2">>), Req(NumAction(2), "x", <<>>)},
   outcomes |-> {Ok("y", <<"d1">>), Ok("none", <<"d1">>), Ok("none", <<>>),
                 Ok("fat", <<"d1", "d2">>), User(NumErr(-1)), User(NumErr(1))}]

\* A task enum whose errors are unsigned numbers.
MCUnsigned ==
  [kind |-> "stream", mux |-> FALSE, err_type |-> "num", junk |-> <<>>,
   blob_room |-> 0, narrow |-> 2, signed |-> FALSE, bounds |-> {0, 7},
   methods |-> {NumAction(1)},
   requests |-> {Req(NumAction(1), "x", <<>>)},
   outcomes |-> {User(NumErr(3)), User(NumErr(0))}]

\* What makes a reader lose its place: a negative action, a response that fails to encode
\* half way, and a blob beyond i32::MAX.
MCUnsound ==
  [kind |-> "stream", mux |-> FALSE, err_type |-> "unit", junk |-> <<"junk">>,
   blob_room |-> 0, narrow |-> W, signed |-> TRUE, bounds |-> {0},
   methods |-> {NumAction(-1), NumAction(1)},
   requests |-> {Req(NumAction(-1), "x", <<>>), Req(NumAction(1), "x", <<>>)},
   outcomes |-> {Ok("x", <<>>), Ok("odd", <<>>), Ok("x", <<"d1", "d2", "d3", "d4">>),
                 Ok("y", <<"d1">>), User(NumErr(0))}]

MCPrograms == <<MCMux, MCService, MCTasks, MCUnsigned, MCUnsound>>

=============================================================================
