----------------------------- MODULE ServerLifecycle -----------------------------
(* The server process from its start to its end: cmd/server/main.go,           *)
(* config.Load, postgres.NewPool and Server.Run, with the clients' connections *)
(* and calls as grpc-go 1.76 serves them.  What a use case does with its       *)
(* database connection is in Directory; here it holds one for a while.         *)
EXTENDS Config, Rpc, FiniteSets

CONSTANTS Client, Call,            \* Call is a bound: the calls of one behaviour
          ClientOf,                \* whose call it is
          Scenarios                \* a file at CONFIG_PATH, and what each call asks for

VARIABLES file,
          main,                    \* where main is
          exit,                    \* its exit status: 137 if it was killed
          signalled,               \* ctx of signal.NotifyContext is done
          stopper,                 \* the goroutine of Run that calls GracefulStop
          pool, size,              \* dbPool and its limit
          conn,                    \* the connection of each client
          rpc,                     \* how far each call is
          asked,                   \* what its client wants
          ran,                     \* the method whose handler ran
          reply                    \* what its client has learnt; "gone" if it left
                                   \* or the connection has broken

process == <<main, exit, signalled, stopper>>
calls == <<conn, rpc, asked, ran, reply>>
vars == <<file, process, pool, size, calls>>

\* A stub asks for its own path; other clients may ask for any, send bytes that
\* are no message of the method, or open the stream and send nothing yet.
Stubs == [m \in DOMAIN GreeterServiceClient \cup DOMAIN UserServiceClient
                 \cup DOMAIN CompanyServiceClient \cup DOMAIN EmployeeServiceClient |->
            CASE m \in DOMAIN GreeterServiceClient -> GreeterServiceClient[m]
              [] m \in DOMAIN UserServiceClient -> UserServiceClient[m]
              [] m \in DOMAIN CompanyServiceClient -> CompanyServiceClient[m]
              [] m \in DOMAIN EmployeeServiceClient -> EmployeeServiceClient[m]]

Body == {"whole", "broken", "late"}

Request(stub) == [stub |-> stub, path |-> Stubs[stub], body |-> "whole"]
Foreign(path, body) == [stub |-> NoMethod, path |-> path, body |-> body]

\* A call that is never made.
NoRequest == [stub |-> NoMethod, path |-> <<>>, body |-> "broken"]

\* What a call may ask for.
Ask == {NoRequest} \cup {Request(m) : m \in DOMAIN Stubs}
       \cup [stub : {NoMethod}, path : STRING \X STRING, body : Body]

ASSUME ServerAssumption == /\ IsFiniteSet(Call) /\ ClientOf \in [Call -> Client]
                           /\ Scenarios \subseteq [file : Settings, asked : [Call -> Ask]]

Init == /\ \E s \in Scenarios : file = s.file /\ asked = s.asked
        /\ main = "load" /\ exit = 0 /\ signalled = FALSE
        /\ stopper = "none"
        /\ pool = "none" /\ size = 0
        /\ conn = [k \in Client |-> "none"]
        /\ rpc = [c \in Call |-> "idle"]
        /\ ran = [c \in Call |-> NoMethod]
        /\ reply = [c \in Call |-> "none"]

-------------------------------------------------------------------------------
\* A handler that has not returned: "receiving" waits for its client's next
\* message or the end of its stream, "queued" for a connection of the pool,
\* "holding" has one, "answering" needs none.
Handling == {"receiving", "queued", "holding", "answering"}

Running(c) == rpc[c] \in Handling
Holders == {c \in Call : rpc[c] = "holding"}

\* The process is gone, and with it every call that was under way.
Over(status) ==
    /\ main' = "exited" /\ exit' = status
    /\ stopper' = "none" /\ pool' = "none"
    /\ conn' = [k \in Client |-> "closed"]
    /\ rpc' = [c \in Call |-> IF Running(c) THEN "cut" ELSE rpc[c]]
    /\ UNCHANGED <<file, signalled, size, asked, ran, reply>>

\* log.Fatalf runs no deferred call.
Fatal == Over(1)

LoadConfig == /\ main = "load"
              /\ \/ Load(file) # "nil" /\ Fatal
                 \/ /\ Load(file) = "nil"
                    /\ main' = "pool"
                    /\ UNCHANGED <<file, exit, signalled, stopper, pool, size, calls>>

\* pgxpool.NewWithConfig connects to nothing yet.
NewPool == /\ main = "pool"
           /\ \/ PoolError(file) # "nil" /\ Fatal
              \/ /\ PoolError(file) = "nil"
                 /\ main' = "ping"
                 /\ pool' = "open"
                 /\ size' = BuildPoolConfig(file).MaxConns
                 /\ UNCHANGED <<file, exit, signalled, stopper, calls>>

\* The ping fails without a database, and once ctx is done: whoever stops the
\* server while it starts sees exit status 1.
Ping == /\ main = "ping"
        /\ \/ Fatal
           \/ /\ ~signalled
              /\ main' = "listen"
              /\ UNCHANGED <<file, exit, signalled, stopper, pool, size, calls>>

\* Mistake: nothing waits for ctx.
ListenForever == /\ main = "listen"
                 /\ \/ Fatal
                    \/ main' = "serve" /\ UNCHANGED <<file, exit, signalled, stopper, pool, size, calls>>

\* The address may be taken.
Listen == /\ main = "listen"
          /\ \/ Fatal
             \/ /\ main' = "serve" /\ stopper' = "waiting"
                /\ UNCHANGED <<file, exit, signalled, pool, size, calls>>

\* Serve, called after GracefulStop, returns ErrServerStopped, which is no error.
Serve == /\ main = "serve"
         /\ main' = IF stopper \in {"stopping", "done"} THEN "closing" ELSE "accept"
         /\ UNCHANGED <<file, exit, signalled, stopper, pool, size, calls>>

Accepting == main = "accept" /\ stopper \notin {"stopping", "done"}

\* The listener may break; unless GracefulStop closed it, Serve returns the error.
AcceptFails == Accepting /\ Fatal

\* SIGINT or SIGTERM.  A second one is swallowed: the signals stay redirected
\* until main returns.
Signal == /\ main # "exited" /\ ~signalled
          /\ signalled' = TRUE
          /\ UNCHANGED <<file, main, exit, stopper, pool, size, calls>>

\* GracefulStop closes the listener first.
GracefulStop == /\ stopper = "waiting" /\ signalled
                /\ stopper' = "stopping"
                /\ UNCHANGED <<file, main, exit, signalled, pool, size, calls>>

\* Mistake: the connections are waited for, not the handlers whose clients left.
StopDoneByConnections ==
    /\ stopper = "stopping"
    /\ \A k \in Client : conn[k] \in {"none", "closed"}
    /\ stopper' = "done"
    /\ UNCHANGED <<file, main, exit, signalled, pool, size, calls>>

\* It returns when every connection is closed and every handler has returned,
\* however long that takes.
StopDone == /\ stopper = "stopping"
            /\ \A k \in Client : conn[k] \in {"none", "closed"}
            /\ \A c \in Call : ~Running(c)
            /\ stopper' = "done"
            /\ UNCHANGED <<file, main, exit, signalled, pool, size, calls>>

\* Mistake: Serve returns as soon as its listener is closed.
ServeReturnsAtOnce == /\ main = "accept" /\ stopper \in {"stopping", "done"}
                      /\ main' = "closing"
                      /\ UNCHANGED <<file, exit, signalled, stopper, pool, size, calls>>

\* Serve returns when GracefulStop has.
ServeReturns == /\ main = "accept" /\ stopper = "done"
                /\ main' = "closing"
                /\ UNCHANGED <<file, exit, signalled, stopper, pool, size, calls>>

\* The deferred Close refuses whoever still wants a connection, and waits for
\* those that are out.
ClosePool == /\ main = "closing" /\ pool = "open"
             /\ pool' = "closed"
             /\ UNCHANGED <<file, process, size, calls>>

Exit == main = "closing" /\ pool = "closed" /\ Holders = {} /\ Over(0)

\* Something ends the process at any moment.
Die == main # "exited" /\ Over(137)

-------------------------------------------------------------------------------
Invoke(c) == /\ rpc[c] = "idle" /\ asked[c] # NoRequest
             /\ rpc' = [rpc EXCEPT ![c] = "sent"]
             /\ UNCHANGED <<file, process, pool, size, conn, asked, ran, reply>>

Dial(k) == /\ conn[k] = "none" /\ Accepting
           /\ \E c \in Call : ClientOf[c] = k /\ rpc[c] = "sent"
           /\ conn' = [conn EXCEPT ![k] = "open"]
           /\ UNCHANGED <<file, process, pool, size, rpc, asked, ran, reply>>

\* The last GOAWAY frame: streams that have not arrived will not be served.
Drain(k) == /\ stopper = "stopping" /\ conn[k] = "open"
            /\ conn' = [conn EXCEPT ![k] = "draining"]
            /\ UNCHANGED <<file, process, pool, size, rpc, asked, ran, reply>>

\* A drained connection closes with its last stream; a client that left has
\* reset its own.
CloseConn(k) == /\ conn[k] = "draining"
                /\ \A c \in Call : ClientOf[c] = k /\ Running(c) => reply[c] = "gone"
                /\ conn' = [conn EXCEPT ![k] = "closed"]
                /\ UNCHANGED <<file, process, pool, size, rpc, asked, ran, reply>>

\* A connection breaks: the client takes all its calls for lost and may connect
\* again; the handlers that run go on.
Disconnect(k) ==
    /\ conn[k] \in {"open", "draining"}
    /\ conn' = [conn EXCEPT ![k] = "none"]
    /\ rpc' = [c \in Call |-> IF ClientOf[c] = k /\ rpc[c] = "sent" THEN "over" ELSE rpc[c]]
    /\ reply' = [c \in Call |->
                    IF ClientOf[c] # k \/ reply[c] # "none" THEN reply[c]
                    ELSE IF rpc[c] = "sent" THEN "UNAVAILABLE"
                    ELSE IF Running(c) THEN "gone" ELSE "none"]
    /\ UNCHANGED <<file, process, pool, size, asked, ran>>

\* The client is told.
Told(c, code) == /\ rpc' = [rpc EXCEPT ![c] = "over"]
                 /\ reply' = [reply EXCEPT ![c] = IF @ = "gone" THEN @ ELSE code]

\* The message of a unary call is there.  The handler decodes it and calls the
\* service, which may refuse the request before it wants a connection.
Decode(c, m, sound) ==
    \/ ~sound /\ Told(c, "INTERNAL") /\ UNCHANGED ran
    \/ /\ sound
       /\ ran' = [ran EXCEPT ![c] = m]
       /\ \E r \in IF NeedsDatabase(m) THEN {"queued", "answering"} ELSE {"answering"} :
             rpc' = [rpc EXCEPT ![c] = r]
       /\ UNCHANGED reply

\* The server looks the method up.  Reflection, or a message that has not come
\* with the call, keeps it waiting for the client.
Arrive(c) ==
    LET m == Dispatch(asked[c].path)
        waits == m \in Streaming \/ asked[c].body = "late"
    IN
    /\ rpc[c] = "sent" /\ conn[ClientOf[c]] = "open"
    /\ \/ m \notin Implemented \cup Streaming /\ Told(c, "UNIMPLEMENTED") /\ UNCHANGED ran
       \/ /\ m \in Implemented \cup Streaming /\ waits
          /\ rpc' = [rpc EXCEPT ![c] = "receiving"]
          /\ UNCHANGED <<ran, reply>>
       \/ m \in Implemented /\ ~waits /\ Decode(c, m, asked[c].body = "whole")
    /\ UNCHANGED <<file, process, pool, size, conn, asked>>

\* The client sends what the handler waits for: the message of its unary call, or
\* the end of its stream.  It may take its time, or never do so.
Receive(c) ==
    LET m == Dispatch(asked[c].path) IN
    /\ rpc[c] = "receiving" /\ reply[c] = "none"
    /\ \/ m \in Streaming /\ Told(c, "STATUS") /\ UNCHANGED ran
       \/ m \in Implemented /\ \E sound \in BOOLEAN : Decode(c, m, sound)
    /\ UNCHANGED <<file, process, pool, size, conn, asked>>

\* Nothing more can come from a client that is gone.
ReceiveFails(c) == /\ rpc[c] = "receiving" /\ reply[c] = "gone"
                   /\ Told(c, "INTERNAL")
                   /\ UNCHANGED <<file, process, pool, size, conn, asked, ran>>

\* Mistake: the streams of a drained connection are dropped without a word.
UnavailableUnlessDrained(c) ==
    /\ rpc[c] = "sent"
    /\ conn[ClientOf[c]] = "none" /\ ~Accepting
    /\ Told(c, "UNAVAILABLE")
    /\ UNCHANGED <<file, process, pool, size, conn, asked, ran>>

\* Nobody listens: no connection can be made, or the one there was takes no new
\* stream.
Unavailable(c) ==
    /\ rpc[c] = "sent"
    /\ \/ conn[ClientOf[c]] \in {"draining", "closed"}
       \/ conn[ClientOf[c]] = "none" /\ ~Accepting
    /\ Told(c, "UNAVAILABLE")
    /\ UNCHANGED <<file, process, pool, size, conn, asked, ran>>

\* The client gives up, or its own deadline passes.  The handler's context is
\* done, but the handler goes on.
HangUp(c) == /\ reply[c] = "none" /\ (rpc[c] = "sent" \/ Running(c))
             /\ reply' = [reply EXCEPT ![c] = "gone"]
             /\ rpc' = [rpc EXCEPT ![c] = IF @ = "sent" THEN "over" ELSE @]
             /\ UNCHANGED <<file, process, pool, size, conn, asked, ran>>

Acquire(c) == /\ rpc[c] = "queued" /\ pool = "open"
              /\ Cardinality(Holders) < size
              /\ rpc' = [rpc EXCEPT ![c] = "holding"]
              /\ UNCHANGED <<file, process, pool, size, conn, asked, ran, reply>>

\* Acquiring ends with the context, and on a pool that is closed.
AcquireFails(c) == /\ rpc[c] = "queued" /\ (pool = "closed" \/ reply[c] = "gone")
                   /\ Told(c, "INTERNAL")
                   /\ UNCHANGED <<file, process, pool, size, conn, asked, ran>>

\* The use case ends, and the connection goes back.
Answer(c) == /\ rpc[c] \in {"holding", "answering"}
             /\ Told(c, "STATUS")
             /\ UNCHANGED <<file, process, pool, size, conn, asked, ran>>

Next == \/ LoadConfig \/ NewPool \/ Ping \/ Listen \/ Serve \/ AcceptFails
        \/ Signal \/ GracefulStop \/ StopDone \/ ServeReturns
        \/ ClosePool \/ Exit \/ Die
        \/ \E k \in Client : Dial(k) \/ Drain(k) \/ CloseConn(k) \/ Disconnect(k)
        \/ \E c \in Call : \/ Invoke(c) \/ Arrive(c) \/ Receive(c) \/ ReceiveFails(c)
                           \/ Unavailable(c) \/ HangUp(c)
                           \/ Acquire(c) \/ AcquireFails(c) \/ Answer(c)

Spec == Init /\ [][Next]_vars

\* The goroutines are scheduled, connections get through, statements end, and
\* puddle serves those who wait for a connection in their order.  Nobody promises
\* that a client ends its stream: Receive is not fair.
Fairness ==
    /\ WF_vars(LoadConfig \/ NewPool \/ Ping \/ Listen \/ Serve \/ ServeReturns
               \/ ClosePool \/ Exit)
    /\ WF_vars(GracefulStop \/ StopDone)
    /\ \A k \in Client : WF_vars(Dial(k)) /\ WF_vars(Drain(k)) /\ WF_vars(CloseConn(k))
    /\ \A c \in Call : /\ WF_vars(Arrive(c) \/ Unavailable(c)) /\ WF_vars(ReceiveFails(c))
                       /\ SF_vars(Acquire(c) \/ AcquireFails(c))
                       /\ WF_vars(Answer(c))

FairSpec == Spec /\ Fairness

-------------------------------------------------------------------------------
\* Type correctness; the limit of the pool is a number of its width.
TypeOK ==
    /\ [file |-> file, asked |-> asked] \in Scenarios
    /\ main \in {"load", "pool", "ping", "listen", "serve", "accept", "closing", "exited"}
    /\ exit \in {0, 1, 137} /\ signalled \in BOOLEAN
    /\ stopper \in {"none", "waiting", "stopping", "done"}
    /\ pool \in {"none", "open", "closed"} /\ size \in Int32
    /\ conn \in [Client -> {"none", "open", "draining", "closed"}]
    /\ rpc \in [Call -> {"idle", "sent", "over", "cut"} \cup Handling]
    /\ ran \in [Call -> Implemented \cup {NoMethod}]
    /\ reply \in [Call -> {"none", "gone", "STATUS", "UNAVAILABLE", "UNIMPLEMENTED", "INTERNAL"}]

\* main closes the pool under no handler: as long as one runs, also one whose
\* client has gone, the pool is open.
HandlersHavePool == \A c \in Call : Running(c) => pool = "open"

\* The pool has a connection to give, and never more of them than the file allows,
\* also when the configured limit does not fit its 32 bits.
PoolWithinLimit ==
    pool = "open" => /\ size >= 1
                     /\ Cardinality(Holders) <= size
                     /\ file.max_open_conns > 0 => size <= file.max_open_conns

\* A call by a stub is served by the method of that name and is never called
\* unimplemented; nothing else reaches a handler but what some stub would send.
RightMethod ==
    \A c \in Call : /\ asked[c].stub # NoMethod => /\ ran[c] \in {NoMethod, asked[c].stub}
                                                   /\ reply[c] # "UNIMPLEMENTED"
                    /\ ran[c] # NoMethod => asked[c].path = Stubs[ran[c]]

\* What a client, and whoever stops the server, may know of it: whether it serves,
\* and what has become of each call that it has let in.
Phase == CASE main \in {"accept", "closing"} -> "up"
           [] main = "exited" -> IF exit = 0 THEN "over" ELSE "broken"
           [] OTHER -> "off"

Task(c) == IF ran[c] = NoMethod THEN "none"
           ELSE CASE rpc[c] \in Handling -> "accepted"
                  [] rpc[c] = "cut" -> "lost"
                  [] OTHER -> IF reply[c] = "gone" THEN "unheard" ELSE "answered"

Graceful == INSTANCE GracefulService WITH phase <- Phase, task <- [c \in Call |-> Task(c)]

\* The process keeps the promise of a service that stops gracefully: only a
\* broken one loses a call whose handler ran.
ImplementsGracefulService == Graceful!Spec

\* The client of c, as long as it stays, does not leave a handler waiting for ever.
EndsItsStream(c) == []<>(rpc[c] # "receiving")

\* A signal ends the process, whatever it is doing and whoever is connected,
\* unless a client keeps a stream open: neither Run nor GracefulStop has a
\* deadline, so that one client, of reflection or with a message that never
\* comes, can put the end off for ever.
ShutdownEnds == (\A c \in Call : EndsItsStream(c)) => (signalled ~> main = "exited")

\* Every call that is made ends, if only with the process, and whatever streams
\* the others keep open.
CallsEnd == \A c \in Call : EndsItsStream(c) => (rpc[c] = "sent" ~> rpc[c] \in {"over", "cut"})
===============================================================================
