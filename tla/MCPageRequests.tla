--------------------------- MODULE MCPageRequests ---------------------------
(* An instance of PageRequests for TLC. *)
EXTENDS PageRequests

MCPages == {<<"index">>, <<"users", "index">>, <<"users", "[id]">>, <<"users", "me", "index">>,
            <<"[org]", "[id]">>, <<"[org]", "me">>}

MCParamOf == [n \in {"[id]", "[org]"} |-> IF n = "[id]" THEN "id" ELSE "org"]

MCPaths == {<<"">>, <<"users">>, <<"users", "">>, <<"users", "me">>, <<"users", "ana">>,
            <<"acme", "me">>, <<"users", "me", "">>}
=============================================================================
