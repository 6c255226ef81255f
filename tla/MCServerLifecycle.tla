--------------------------- MODULE MCServerLifecycle ---------------------------
EXTENDS ServerLifecycle, TLC

CONSTANTS k1, k2, c1, c2, c3

\* k1 sends two calls over its connection.
MCClientOf == (c1 :> k1) @@ (c2 :> k1) @@ (c3 :> k2)

Whole == [read |-> "nil", missing |-> {}, dsn |-> "",
          conn_max_lifetime |-> "30m", conn_max_idle_time |-> "",
          max_open_conns |-> 2, max_idle_conns |-> 1]

\* Files the server does not start with: the last two because 4 bits cut their
\* limits to -8 and to 0.
Unfit == {[Whole EXCEPT !.read = "read file"], [Whole EXCEPT !.read = "parse yaml"],
          [Whole EXCEPT !.missing = {"database.port"}],
          [Whole EXCEPT !.conn_max_lifetime = "bad"],
          [Whole EXCEPT !.conn_max_idle_time = "bad"], [Whole EXCEPT !.dsn = "bad"],
          [Whole EXCEPT !.max_open_conns = 8], [Whole EXCEPT !.max_open_conns = 16]}

\* No limit, one connection.
Fit == {[Whole EXCEPT !.max_open_conns = n] : n \in {0, 1}}

Busy == (c1 :> Request("GetUser")) @@ (c2 :> Request("CreateEmployee")) @@ (c3 :> Request("ListUsers"))

\* Any request, beside a call of the same client.
Requests == {Request(m) : m \in DOMAIN Stubs}
            \cup {Foreign(<<"user.v1.UserService", "PurgeUsers">>, "whole"),
                  Foreign(<<"user.v2.UserService", "GetUser">>, "late"),
                  Foreign(<<"user.v1.UserService", "GetUser">>, "broken"),
                  Foreign(<<"user.v1.UserService", "GetUser">>, "late"),
                  Foreign(<<"greeter.v1.GreeterService", "SayHello">>, "late"),
                  Foreign(<<"grpc.reflection.v1.ServerReflection", "ServerReflectionInfo">>, "late"),
                  Foreign(<<"grpc.reflection.v1alpha.ServerReflection", "ServerReflectionInfo">>, "whole")}

\* A limit that 4 bits cut to one.
Cut == [Whole EXCEPT !.max_open_conns = 17]

MCScenarios ==
    {[file |-> f, asked |-> Busy] : f \in Unfit \cup Fit}
    \cup {[file |-> Cut, asked |-> [Busy EXCEPT ![c3] = NoRequest]]}
    \cup {[file |-> Whole, asked |-> (c1 :> r) @@ (c2 :> Request("GetUser")) @@ (c3 :> NoRequest)] :
            r \in Requests}
===============================================================================
