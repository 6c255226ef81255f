------------------------- MODULE ServerLifecycle_proofs -------------------------
(* Proofs about ServerLifecycle: for any clients, calls, files and requests,  *)
(* and for any width of the pool's limits.                                    *)
EXTENDS ServerLifecycle, Config_proofs

\* Nobody is connected and no handler runs.
Quiet == /\ \A k \in Client : conn[k] \in {"none", "closed"}
         /\ \A c \in Call : ~Running(c)

\* The pool is there from NewPool to the deferred Close, and the goroutine that
\* stops the server from Run to the end of the process.
PoolAtLocation ==
    /\ main \in {"load", "pool", "exited"} => pool = "none"
    /\ main \in {"ping", "listen", "serve", "accept"} => pool = "open"
    /\ main \in {"load", "pool", "ping", "listen", "exited"} => stopper = "none"

\* Only Serve lets clients in, and neither it nor GracefulStop returns while there
\* is one, or a handler of one.
QuietAtLocation == main # "accept" \/ stopper = "done" => Quiet

\* The handler has its request.
Serving(c) == Running(c) /\ rpc[c] # "receiving"

\* What a call has seen of the server, by how far it is.
CallAtLocation ==
    \A c \in Call : /\ rpc[c] # "idle" => asked[c] # NoRequest
                    /\ rpc[c] \in {"idle", "sent", "receiving"} => ran[c] = NoMethod
                    /\ Serving(c) => ran[c] # NoMethod

IInv == /\ TypeOK /\ PoolAtLocation /\ QuietAtLocation /\ CallAtLocation
        /\ PoolWithinLimit /\ RightMethod
-------------------------------------------------------------------------------
(* The tables of the services.                                                *)

LEMMA ServedBy ==
  ASSUME NEW s \in DOMAIN Services, NEW m \in DOMAIN Services[s]
  PROVE  Dispatch(<<s, m>>) = Services[s][m]
  BY DEF Dispatch

\* Every stub's path leads to the method of the stub, and that is implemented.
LEMMA StubsFindTheirMethod ==
  ASSUME NEW m \in DOMAIN Stubs
  PROVE  Dispatch(Stubs[m]) = m /\ m \in Implemented
<1>1. CASE m \in DOMAIN GreeterServiceClient
  <2>1. Stubs[m] = <<"greeter.v1.GreeterService", m>>
    <3>1. GreeterServiceClient[m] = <<"greeter.v1.GreeterService", m>>
      BY <1>1 DEF GreeterServiceClient
    <3>2. m \notin DOMAIN UserServiceClient \cup DOMAIN CompanyServiceClient \cup DOMAIN EmployeeServiceClient
      BY <1>1 DEF GreeterServiceClient, UserServiceClient, CompanyServiceClient, EmployeeServiceClient
    <3> QED
      BY <1>1, <3>1, <3>2 DEF Stubs
  <2>2. "greeter.v1.GreeterService" \in DOMAIN Services /\ Services["greeter.v1.GreeterService"] = GreeterService_ServiceDesc
    BY DEF Services
  <2>3. m \in DOMAIN GreeterService_ServiceDesc /\ GreeterService_ServiceDesc[m] = m
    BY <1>1 DEF GreeterServiceClient, GreeterService_ServiceDesc, GreeterServiceHandlers
  <2>4. m \in Implemented
    BY <1>1 DEF GreeterServiceClient, Implemented, GreeterHandler
  <2> QED
    BY <2>1, <2>2, <2>3, <2>4, ServedBy
<1>2. CASE m \in DOMAIN UserServiceClient
  <2>1. Stubs[m] = <<"user.v1.UserService", m>>
    <3>1. UserServiceClient[m] = <<"user.v1.UserService", m>>
      BY <1>2 DEF UserServiceClient
    <3>2. m \notin DOMAIN GreeterServiceClient \cup DOMAIN CompanyServiceClient \cup DOMAIN EmployeeServiceClient
      BY <1>2 DEF GreeterServiceClient, UserServiceClient, CompanyServiceClient, EmployeeServiceClient
    <3> QED
      BY <1>2, <3>1, <3>2 DEF Stubs
  <2>2. "user.v1.UserService" \in DOMAIN Services /\ Services["user.v1.UserService"] = UserService_ServiceDesc
    BY DEF Services
  <2>3. m \in DOMAIN UserService_ServiceDesc /\ UserService_ServiceDesc[m] = m
    BY <1>2 DEF UserServiceClient, UserService_ServiceDesc, UserServiceHandlers
  <2>4. m \in Implemented
    BY <1>2 DEF UserServiceClient, Implemented, UserGrpcHandler
  <2> QED
    BY <2>1, <2>2, <2>3, <2>4, ServedBy
<1>3. CASE m \in DOMAIN CompanyServiceClient
  <2>1. Stubs[m] = <<"company.v1.CompanyService", m>>
    <3>1. CompanyServiceClient[m] = <<"company.v1.CompanyService", m>>
      BY <1>3 DEF CompanyServiceClient
    <3>2. m \notin DOMAIN GreeterServiceClient \cup DOMAIN UserServiceClient \cup DOMAIN EmployeeServiceClient
      BY <1>3 DEF GreeterServiceClient, UserServiceClient, CompanyServiceClient, EmployeeServiceClient
    <3> QED
      BY <1>3, <3>1, <3>2 DEF Stubs
  <2>2. "company.v1.CompanyService" \in DOMAIN Services /\ Services["company.v1.CompanyService"] = CompanyService_ServiceDesc
    BY DEF Services
  <2>3. m \in DOMAIN CompanyService_ServiceDesc /\ CompanyService_ServiceDesc[m] = m
    BY <1>3 DEF CompanyServiceClient, CompanyService_ServiceDesc, CompanyServiceHandlers
  <2>4. m \in Implemented
    BY <1>3 DEF CompanyServiceClient, Implemented, CompanyGrpcHandler
  <2> QED
    BY <2>1, <2>2, <2>3, <2>4, ServedBy
<1>4. CASE m \in DOMAIN EmployeeServiceClient
  <2>1. Stubs[m] = <<"employee.v1.EmployeeService", m>>
    <3>1. EmployeeServiceClient[m] = <<"employee.v1.EmployeeService", m>>
      BY <1>4 DEF EmployeeServiceClient
    <3>2. m \notin DOMAIN GreeterServiceClient \cup DOMAIN UserServiceClient \cup DOMAIN CompanyServiceClient
      BY <1>4 DEF GreeterServiceClient, UserServiceClient, CompanyServiceClient, EmployeeServiceClient
    <3> QED
      BY <1>4, <3>1, <3>2 DEF Stubs
  <2>2. "employee.v1.EmployeeService" \in DOMAIN Services /\ Services["employee.v1.EmployeeService"] = EmployeeService_ServiceDesc
    BY DEF Services
  <2>3. m \in DOMAIN EmployeeService_ServiceDesc /\ EmployeeService_ServiceDesc[m] = m
    BY <1>4 DEF EmployeeServiceClient, EmployeeService_ServiceDesc, EmployeeServiceHandlers
  <2>4. m \in Implemented
    BY <1>4 DEF EmployeeServiceClient, Implemented, EmployeeGrpcHandler
  <2> QED
    BY <2>1, <2>2, <2>3, <2>4, ServedBy
<1> QED
  BY <1>1, <1>2, <1>3, <1>4 DEF Stubs

\* "No method" is not the name of a method.
LEMMA NoMethodIsImplemented == NoMethod \notin Implemented
  BY DEF NoMethod, Implemented, GreeterHandler, UserGrpcHandler, CompanyGrpcHandler, EmployeeGrpcHandler

\* No other path leads to a method that a handler implements.
LEMMA OnlyStubsPathsAreFound ==
  ASSUME NEW path \in STRING \X STRING, Dispatch(path) \in Implemented
  PROVE  path = Stubs[Dispatch(path)]
<1> USE DEF Stubs, GreeterServiceClient, UserServiceClient, CompanyServiceClient, EmployeeServiceClient,
        Dispatch, Services, GreeterService_ServiceDesc, UserService_ServiceDesc, CompanyService_ServiceDesc,
        EmployeeService_ServiceDesc, GreeterServiceHandlers, UserServiceHandlers, CompanyServiceHandlers,
        EmployeeServiceHandlers
<1>1. CASE path[1] = "greeter.v1.GreeterService"
  BY <1>1, NoMethodIsImplemented
<1>2. CASE path[1] = "user.v1.UserService"
  BY <1>2, NoMethodIsImplemented
<1>3. CASE path[1] = "company.v1.CompanyService"
  BY <1>3, NoMethodIsImplemented
<1>4. CASE path[1] = "employee.v1.EmployeeService"
  BY <1>4, NoMethodIsImplemented
<1>5. CASE path[1] \in {"grpc.reflection.v1.ServerReflection", "grpc.reflection.v1alpha.ServerReflection"}
  <2>1. Services[path[1]] = ServerReflection_ServiceDesc
    BY <1>5
  <2>2. Dispatch(path) \in {"ServerReflectionInfo", NoMethod}
    BY <2>1 DEF ServerReflection_ServiceDesc
  <2>3. "ServerReflectionInfo" \notin Implemented
    BY DEF Implemented, GreeterHandler, UserGrpcHandler, CompanyGrpcHandler, EmployeeGrpcHandler
  <2> HIDE DEF Dispatch
  <2> QED
    BY <2>2, <2>3, NoMethodIsImplemented
<1>6. path[1] \in DOMAIN Services
  BY NoMethodIsImplemented DEF Dispatch
<1> QED
  BY <1>1, <1>2, <1>3, <1>4, <1>5, <1>6

\* So a request reaches a handler exactly as it says.
LEMMA DispatchIsRight ==
  ASSUME NEW r \in Ask, r # NoRequest
  PROVE  /\ Dispatch(r.path) \in Implemented => r.path = Stubs[Dispatch(r.path)]
         /\ r.stub # NoMethod => Dispatch(r.path) = r.stub /\ r.stub \in Implemented
<1>1. CASE \E m \in DOMAIN Stubs : r = Request(m)
  <2>1. PICK m \in DOMAIN Stubs : r.stub = m /\ r.path = Stubs[m]
    BY <1>1 DEF Request
  <2> QED
    BY <2>1, StubsFindTheirMethod
<1>2. CASE r \in [stub : {NoMethod}, path : STRING \X STRING, body : Body]
  <2>1. r.stub = NoMethod /\ r.path \in STRING \X STRING
    BY <1>2
  <2> QED
    BY <2>1, OnlyStubsPathsAreFound, NoMethodIsImplemented
<1> QED
  BY <1>1, <1>2 DEF Ask
-------------------------------------------------------------------------------
(* The inductive invariant.                                                   *)

LEMMA InitIInv == Init => IInv
<1> SUFFICES ASSUME Init PROVE IInv
  OBVIOUS
<1>1. PICK s \in Scenarios : file = s.file /\ asked = s.asked
  BY DEF Init
<1>2. s = [file |-> file, asked |-> asked]
  BY <1>1, ServerAssumption
<1>3. 0 \in Int32
  BY Halves DEF Int32
<1>4. TypeOK
  BY <1>2, <1>3 DEF Init, TypeOK, Handling
<1> QED
  BY <1>4, NoMethodIsImplemented DEF Init, IInv, PoolAtLocation, QuietAtLocation, CallAtLocation,
     Quiet, Running, Serving, Handling, PoolWithinLimit, RightMethod

\* Whoever gives connections back keeps the pool within its limit.
LEMMA FewerHolders ==
  ASSUME IInv, TypeOK', UNCHANGED <<file, pool, size>>, Holders' \subseteq Holders
  PROVE  PoolWithinLimit'
<1>1. IsFiniteSet(Holders)
  BY ServerAssumption, FS_Subset DEF Holders
<1>2. /\ Cardinality(Holders) \in Nat /\ Cardinality(Holders') \in Nat
      /\ Cardinality(Holders') <= Cardinality(Holders)
  BY <1>1, FS_Subset, FS_CardinalityType
<1>3. size \in Int
  BY Halves DEF IInv, TypeOK, Int32
<1>4. PoolWithinLimit
  BY DEF IInv
<1> HIDE DEF Holders
<1> QED
  BY <1>2, <1>3, <1>4 DEF PoolWithinLimit

\* One more takes a connection while there is one left.
LEMMA OneMoreHolder ==
  ASSUME IInv, NEW c \in Call, Acquire(c)
  PROVE  PoolWithinLimit'
<1>1. IsFiniteSet(Holders)
  BY ServerAssumption, FS_Subset DEF Holders
<1>2. Holders' = Holders \cup {c}
  BY DEF Acquire, Holders, IInv, TypeOK
<1>3. Cardinality(Holders) \in Nat /\ Cardinality(Holders') \in Nat
  BY <1>1, <1>2, FS_AddElement, FS_CardinalityType
<1>4. size \in Int
  BY Halves DEF IInv, TypeOK, Int32
<1>5. Cardinality(Holders) < size
  BY DEF Acquire
<1>6. Cardinality(Holders') = IF c \in Holders THEN Cardinality(Holders) ELSE Cardinality(Holders) + 1
  BY <1>1, <1>2, FS_AddElement
<1>7. Cardinality(Holders') <= size
  BY <1>3, <1>4, <1>5, <1>6
<1>8. PoolWithinLimit /\ UNCHANGED <<file, pool, size>>
  BY DEF IInv, Acquire
<1> HIDE DEF Holders
<1> QED
  BY <1>7, <1>8 DEF PoolWithinLimit

\* The end of the process, at whatever moment, takes the pool and every handler with it.
LEMMA OverIInv ==
  ASSUME IInv, NEW status \in {0, 1, 137}, Over(status)
  PROVE  IInv'
<1> USE DEF Over, IInv, TypeOK, PoolAtLocation, QuietAtLocation, CallAtLocation, Quiet, Running, Serving, Handling
<1>1. TypeOK'
  OBVIOUS
<1>2. PoolAtLocation' /\ QuietAtLocation' /\ CallAtLocation'
  OBVIOUS
<1>3. PoolWithinLimit'
  BY DEF PoolWithinLimit
<1>4. RightMethod'
  BY DEF RightMethod
<1> QED
  BY <1>1, <1>2, <1>3, <1>4

\* A request has come, sound or not: it is decoded, and served by its method.
LEMMA DecodeIInv ==
  ASSUME IInv, NEW c \in Call, NEW sound \in BOOLEAN,
         Dispatch(asked[c].path) \in Implemented, Decode(c, Dispatch(asked[c].path), sound),
         \/ rpc[c] = "sent" /\ conn[ClientOf[c]] = "open"
         \/ rpc[c] = "receiving",
         UNCHANGED <<file, process, pool, size, conn, asked>>
  PROVE  IInv'
<1> DEFINE m == Dispatch(asked[c].path)
<1>1. /\ m \in Implemented /\ m # NoMethod
      /\ UNCHANGED <<file, process, pool, size, conn, asked>>
      /\ \/ Told(c, "INTERNAL") /\ UNCHANGED ran
         \/ /\ ran' = [ran EXCEPT ![c] = m] /\ UNCHANGED reply
            /\ \E r \in {"queued", "answering"} : rpc' = [rpc EXCEPT ![c] = r]
  BY NoMethodIsImplemented DEF Decode
<1>2. asked[c] \in Ask /\ asked[c] # NoRequest /\ ran[c] = NoMethod
  <2>1. asked \in [Call -> Ask]
    BY ServerAssumption DEF IInv, TypeOK
  <2> QED
    BY <2>1 DEF IInv, CallAtLocation
<1>3. asked[c].stub # NoMethod => m = asked[c].stub
  BY <1>2, DispatchIsRight
<1>4. asked[c].path = Stubs[m]
  BY <1>1, <1>2, DispatchIsRight
<1> HIDE DEF m
<1> USE ServerAssumption DEF IInv, TypeOK, PoolAtLocation, QuietAtLocation, CallAtLocation, Quiet, process,
        Running, Serving, Handling
<1>5. TypeOK'
  BY <1>1 DEF Told
<1>6. PoolAtLocation' /\ QuietAtLocation' /\ CallAtLocation'
  BY <1>1, <1>2 DEF Told
<1>7. Holders' \subseteq Holders
  BY <1>1 DEF Told, Holders
<1>8. PoolWithinLimit'
  BY <1>1, <1>5, <1>7, FewerHolders
<1>9. RightMethod'
  BY <1>1, <1>3, <1>4 DEF Told, RightMethod
<1> QED
  BY <1>5, <1>6, <1>8, <1>9

\* Each action preserves the invariant: one step per action.
LEMMA NextIInv == IInv /\ [Next]_vars => IInv'
<1> SUFFICES ASSUME IInv, [Next]_vars PROVE IInv'
  OBVIOUS
<1> USE ServerAssumption DEF IInv, TypeOK, PoolAtLocation, QuietAtLocation, CallAtLocation, Quiet, process, calls,
        Running, Serving, Handling
<1>0. file \in Settings /\ asked \in [Call -> Ask]
  OBVIOUS
<1>1. CASE LoadConfig
  <2>1. CASE Fatal
    BY <2>1, OverIInv DEF Fatal
  <2>2. CASE main' = "pool" /\ UNCHANGED <<file, exit, signalled, stopper, pool, size, calls>>
    BY <1>1, <2>2 DEF LoadConfig, PoolWithinLimit, RightMethod
  <2> QED
    BY <1>1, <2>1, <2>2 DEF LoadConfig
<1>2. CASE NewPool
  <2>1. CASE Fatal
    BY <2>1, OverIInv DEF Fatal
  <2>2. CASE ~Fatal
    <3> DEFINE limit == BuildPoolConfig(file).MaxConns
    <3>1. /\ main = "pool" /\ PoolError(file) = "nil"
          /\ main' = "ping" /\ pool' = "open" /\ size' = limit
          /\ UNCHANGED <<file, exit, signalled, stopper, calls>>
      BY <1>2, <2>2 DEF NewPool
    <3>2. /\ limit \in Int32 /\ limit >= 1
          /\ file.max_open_conns > 0 => limit <= file.max_open_conns
      BY <1>0, <3>1, AcceptedPool
    <3>3. limit \in Int
      BY <3>2, Halves DEF Int32
    <3> HIDE DEF limit
    <3>4. TypeOK'
      BY <3>1, <3>2
    <3>5. PoolAtLocation' /\ QuietAtLocation' /\ CallAtLocation'
      BY <3>1
    <3>6. Holders' = {}
      BY <3>1 DEF Holders
    <3>7. PoolWithinLimit'
      BY <3>1, <3>2, <3>3, <3>6, FS_EmptySet DEF PoolWithinLimit
    <3>8. RightMethod'
      BY <3>1 DEF RightMethod
    <3> QED
      BY <3>4, <3>5, <3>7, <3>8
  <2> QED
    BY <2>1, <2>2
<1>3. CASE Ping
  <2>1. CASE Fatal
    BY <2>1, OverIInv DEF Fatal
  <2>2. CASE main' = "listen" /\ UNCHANGED <<file, exit, signalled, stopper, pool, size, calls>>
    BY <1>3, <2>2 DEF Ping, PoolWithinLimit, RightMethod, Holders
  <2> QED
    BY <1>3, <2>1, <2>2 DEF Ping
<1>4. CASE Listen
  <2>1. CASE Fatal
    BY <2>1, OverIInv DEF Fatal
  <2>2. CASE main' = "serve" /\ stopper' = "waiting" /\ UNCHANGED <<file, exit, signalled, pool, size, calls>>
    BY <1>4, <2>2 DEF Listen, PoolWithinLimit, RightMethod, Holders
  <2> QED
    BY <1>4, <2>1, <2>2 DEF Listen
<1>5. CASE Serve
  BY <1>5 DEF Serve, PoolWithinLimit, RightMethod, Holders
<1>6. CASE AcceptFails
  BY <1>6, OverIInv DEF AcceptFails, Fatal
<1>7. CASE Signal
  BY <1>7 DEF Signal, PoolWithinLimit, RightMethod, Holders
<1>8. CASE GracefulStop
  BY <1>8 DEF GracefulStop, PoolWithinLimit, RightMethod, Holders
<1>9. CASE StopDone
  BY <1>9 DEF StopDone, PoolWithinLimit, RightMethod, Holders
<1>10. CASE ServeReturns
  BY <1>10 DEF ServeReturns, PoolWithinLimit, RightMethod, Holders
<1>11. CASE ClosePool
  BY <1>11 DEF ClosePool, PoolWithinLimit, RightMethod, Holders
<1>12. CASE Exit
  BY <1>12, OverIInv DEF Exit
<1>13. CASE Die
  BY <1>13, OverIInv DEF Die
<1>14. ASSUME NEW k \in Client, Dial(k) PROVE IInv'
  BY <1>14 DEF Dial, Accepting, PoolWithinLimit, RightMethod, Holders
<1>15. ASSUME NEW k \in Client, Drain(k) PROVE IInv'
  BY <1>15 DEF Drain, PoolWithinLimit, RightMethod, Holders
<1>16. ASSUME NEW k \in Client, CloseConn(k) PROVE IInv'
  BY <1>16 DEF CloseConn, PoolWithinLimit, RightMethod, Holders
<1>17. ASSUME NEW k \in Client, Disconnect(k) PROVE IInv'
  <2>1. TypeOK'
    BY <1>17 DEF Disconnect
  <2>2. PoolAtLocation' /\ QuietAtLocation' /\ CallAtLocation'
    BY <1>17 DEF Disconnect
  <2>3. Holders' \subseteq Holders
    BY <1>17 DEF Disconnect, Holders
  <2>4. PoolWithinLimit'
    BY <1>17, <2>1, <2>3, FewerHolders DEF Disconnect
  <2>5. RightMethod'
    BY <1>17 DEF Disconnect, RightMethod
  <2> QED
    BY <2>1, <2>2, <2>4, <2>5
<1>18. ASSUME NEW c \in Call, Invoke(c) PROVE IInv'
  <2>1. TypeOK'
    BY <1>18 DEF Invoke
  <2>2. PoolAtLocation' /\ QuietAtLocation' /\ CallAtLocation'
    BY <1>18 DEF Invoke
  <2>3. Holders' \subseteq Holders
    BY <1>18 DEF Invoke, Holders
  <2>4. PoolWithinLimit'
    BY <1>18, <2>1, <2>3, FewerHolders DEF Invoke
  <2>5. RightMethod'
    BY <1>18 DEF Invoke, RightMethod
  <2> QED
    BY <2>1, <2>2, <2>4, <2>5
<1>19. ASSUME NEW c \in Call, Arrive(c) PROVE IInv'
  <2> DEFINE m == Dispatch(asked[c].path)
  <2>1. CASE m \in Implemented /\ Decode(c, m, asked[c].body = "whole")
    BY <1>19, <2>1, DecodeIInv DEF Arrive
  <2>2. CASE ~(m \in Implemented /\ Decode(c, m, asked[c].body = "whole"))
    <3>1. /\ UNCHANGED <<file, process, pool, size, conn, asked, ran>>
          /\ \/ rpc' = [rpc EXCEPT ![c] = "receiving"] /\ UNCHANGED reply
             \/ m \notin Implemented /\ Told(c, "UNIMPLEMENTED")
          /\ rpc[c] = "sent" /\ conn[ClientOf[c]] = "open"
      BY <1>19, <2>2 DEF Arrive
    <3> HIDE DEF m
    <3>2. TypeOK'
      BY <3>1 DEF Told
    <3>3. PoolAtLocation' /\ QuietAtLocation' /\ CallAtLocation'
      BY <3>1 DEF Told
    <3>4. Holders' \subseteq Holders
      BY <3>1 DEF Told, Holders
    <3>5. PoolWithinLimit'
      BY <3>1, <3>2, <3>4, FewerHolders
    <3>6. RightMethod'
      BY <1>0, <3>1, DispatchIsRight DEF Told, RightMethod, m
    <3> QED
      BY <3>2, <3>3, <3>5, <3>6
  <2> QED
    BY <2>1, <2>2
<1>20. ASSUME NEW c \in Call, Unavailable(c) PROVE IInv'
  <2>1. TypeOK'
    BY <1>20 DEF Unavailable, Told
  <2>2. PoolAtLocation' /\ QuietAtLocation' /\ CallAtLocation'
    BY <1>20 DEF Unavailable, Told
  <2>3. Holders' \subseteq Holders
    BY <1>20 DEF Unavailable, Told, Holders
  <2>4. PoolWithinLimit'
    BY <1>20, <2>1, <2>3, FewerHolders DEF Unavailable
  <2>5. RightMethod'
    BY <1>20 DEF Unavailable, Told, RightMethod
  <2> QED
    BY <2>1, <2>2, <2>4, <2>5
<1>21. ASSUME NEW c \in Call, HangUp(c) PROVE IInv'
  <2>1. TypeOK'
    BY <1>21 DEF HangUp
  <2>2. PoolAtLocation' /\ QuietAtLocation' /\ CallAtLocation'
    BY <1>21 DEF HangUp
  <2>3. Holders' \subseteq Holders
    BY <1>21 DEF HangUp, Holders
  <2>4. PoolWithinLimit'
    BY <1>21, <2>1, <2>3, FewerHolders DEF HangUp
  <2>5. RightMethod'
    BY <1>21 DEF HangUp, RightMethod
  <2> QED
    BY <2>1, <2>2, <2>4, <2>5
<1>22. ASSUME NEW c \in Call, Acquire(c) PROVE IInv'
  <2>1. TypeOK'
    BY <1>22 DEF Acquire
  <2>2. PoolAtLocation' /\ QuietAtLocation' /\ CallAtLocation'
    BY <1>22 DEF Acquire
  <2>3. PoolWithinLimit'
    BY <1>22, OneMoreHolder
  <2>4. RightMethod'
    BY <1>22 DEF Acquire, RightMethod
  <2> QED
    BY <2>1, <2>2, <2>3, <2>4
<1>23. ASSUME NEW c \in Call, AcquireFails(c) PROVE IInv'
  <2>1. TypeOK'
    BY <1>23 DEF AcquireFails, Told
  <2>2. PoolAtLocation' /\ QuietAtLocation' /\ CallAtLocation'
    BY <1>23 DEF AcquireFails, Told
  <2>3. Holders' \subseteq Holders
    BY <1>23 DEF AcquireFails, Told, Holders
  <2>4. PoolWithinLimit'
    BY <1>23, <2>1, <2>3, FewerHolders DEF AcquireFails
  <2>5. RightMethod'
    BY <1>23 DEF AcquireFails, Told, RightMethod
  <2> QED
    BY <2>1, <2>2, <2>4, <2>5
<1>24. ASSUME NEW c \in Call, Answer(c) PROVE IInv'
  <2>1. TypeOK'
    BY <1>24 DEF Answer, Told
  <2>2. PoolAtLocation' /\ QuietAtLocation' /\ CallAtLocation'
    BY <1>24 DEF Answer, Told
  <2>3. Holders' \subseteq Holders
    BY <1>24 DEF Answer, Told, Holders
  <2>4. PoolWithinLimit'
    BY <1>24, <2>1, <2>3, FewerHolders DEF Answer
  <2>5. RightMethod'
    BY <1>24 DEF Answer, Told, RightMethod
  <2> QED
    BY <2>1, <2>2, <2>4, <2>5
<1>25. ASSUME NEW c \in Call, Receive(c) PROVE IInv'
  <2> DEFINE m == Dispatch(asked[c].path)
  <2>1. CASE m \in Implemented /\ \E sound \in BOOLEAN : Decode(c, m, sound)
    BY <1>25, <2>1, DecodeIInv DEF Receive
  <2>2. CASE Told(c, "STATUS") /\ UNCHANGED ran
    <3>1. rpc[c] = "receiving" /\ UNCHANGED <<file, process, pool, size, conn, asked, ran>>
      BY <1>25, <2>2 DEF Receive
    <3>2. TypeOK'
      BY <2>2, <3>1 DEF Told
    <3>3. PoolAtLocation' /\ QuietAtLocation' /\ CallAtLocation'
      BY <2>2, <3>1 DEF Told
    <3>4. Holders' \subseteq Holders
      BY <2>2, <3>1 DEF Told, Holders
    <3>5. PoolWithinLimit'
      BY <3>1, <3>2, <3>4, FewerHolders
    <3>6. RightMethod'
      BY <2>2, <3>1 DEF Told, RightMethod
    <3> QED
      BY <3>2, <3>3, <3>5, <3>6
  <2> QED
    BY <1>25, <2>1, <2>2 DEF Receive
<1>26. ASSUME NEW c \in Call, ReceiveFails(c) PROVE IInv'
  <2>1. TypeOK'
    BY <1>26 DEF ReceiveFails, Told
  <2>2. PoolAtLocation' /\ QuietAtLocation' /\ CallAtLocation'
    BY <1>26 DEF ReceiveFails, Told
  <2>3. Holders' \subseteq Holders
    BY <1>26 DEF ReceiveFails, Told, Holders
  <2>4. PoolWithinLimit'
    BY <1>26, <2>1, <2>3, FewerHolders DEF ReceiveFails
  <2>5. RightMethod'
    BY <1>26 DEF ReceiveFails, Told, RightMethod
  <2> QED
    BY <2>1, <2>2, <2>4, <2>5
<1>27. CASE UNCHANGED vars
  BY <1>27 DEF vars, PoolWithinLimit, RightMethod, Holders
<1> QED
  BY <1>1, <1>2, <1>3, <1>4, <1>5, <1>6, <1>7, <1>8, <1>9, <1>10, <1>11, <1>12, <1>13, <1>14, <1>15,
     <1>16, <1>17, <1>18, <1>19, <1>20, <1>21, <1>22, <1>23, <1>24, <1>25, <1>26, <1>27 DEF Next
-------------------------------------------------------------------------------
\* Every state the server reaches satisfies the inductive invariant.
THEOREM Inductive == Spec => []IInv
<1> QED
  BY InitIInv, NextIInv, PTL DEF Spec

\* The variables keep their types; the limit of the pool fits the pool's width.
THEOREM TypeCorrect == Spec => []TypeOK
<1>1. IInv => TypeOK
  BY DEF IInv
<1> QED
  BY <1>1, Inductive, PTL

\* main never closes the pool under a handler, however many clients, calls and
\* signals there are.
THEOREM PoolOutlivesHandlers == Spec => []HandlersHavePool
<1>1. IInv => HandlersHavePool
  BY DEF IInv, QuietAtLocation, PoolAtLocation, Quiet, HandlersHavePool
<1> QED
  BY <1>1, Inductive, PTL

\* The pool keeps its limit and the file's, for every limit and every width.
THEOREM PoolKeepsItsLimit == Spec => []PoolWithinLimit
<1>1. IInv => PoolWithinLimit
  BY DEF IInv
<1> QED
  BY <1>1, Inductive, PTL

\* A call is served by the method it names, whatever else clients send.
THEOREM CallsReachTheirMethod == Spec => []RightMethod
<1>1. IInv => RightMethod
  BY DEF IInv
<1> QED
  BY <1>1, Inductive, PTL
-------------------------------------------------------------------------------
(* The server implements GracefulService.                                     *)

\* What the abstract service is told, by where main and each call are.
ShownAtLocation ==
    /\ Phase = "up" <=> main \in {"accept", "closing"}
    /\ Phase = "off" <=> main \notin {"accept", "closing", "exited"}
    /\ main = "exited" => Phase = IF exit = 0 THEN "over" ELSE "broken"
    /\ \A c \in Call :
          /\ Task(c) = "none" <=> ran[c] = NoMethod
          /\ Task(c) = "accepted" <=> Serving(c)
          /\ rpc[c] = "cut" /\ ran[c] # NoMethod => Task(c) = "lost"
          /\ rpc[c] = "over" /\ ran[c] # NoMethod => Task(c) \in {"answered", "unheard"}

\* What the abstract service shows follows from the invariant.
LEMMA Shown == IInv => ShownAtLocation
<1> SUFFICES ASSUME IInv PROVE ShownAtLocation
  OBVIOUS
<1>1. /\ Phase = "up" <=> main \in {"accept", "closing"}
      /\ Phase = "off" <=> main \notin {"accept", "closing", "exited"}
      /\ main = "exited" => Phase = IF exit = 0 THEN "over" ELSE "broken"
  BY DEF IInv, TypeOK, Phase
<1>2. ASSUME NEW c \in Call
      PROVE  /\ Task(c) = "none" <=> ran[c] = NoMethod
             /\ Task(c) = "accepted" <=> Serving(c)
             /\ rpc[c] = "cut" /\ ran[c] # NoMethod => Task(c) = "lost"
             /\ rpc[c] = "over" /\ ran[c] # NoMethod => Task(c) \in {"answered", "unheard"}
  <2>1. CASE ran[c] = NoMethod
    <3>1. Task(c) = "none"
      BY <2>1 DEF Task
    <3>2. ~Serving(c)
      BY <2>1 DEF IInv, CallAtLocation
    <3> QED
      BY <2>1, <3>1, <3>2
  <2> USE DEF IInv, TypeOK, CallAtLocation, Task, Running, Serving, Handling
  <2>2. CASE ran[c] # NoMethod /\ Running(c)
    BY <2>2
  <2>3. CASE ran[c] # NoMethod /\ rpc[c] = "cut"
    BY <2>3
  <2>4. CASE ran[c] # NoMethod /\ rpc[c] = "over"
    BY <2>4
  <2> QED
    BY <2>1, <2>2, <2>3, <2>4
<1> QED
  BY <1>1, <1>2 DEF ShownAtLocation

\* Before and after a step.
LEMMA ShownBoth == IInv /\ [Next]_vars => IInv /\ IInv' /\ ShownAtLocation /\ ShownAtLocation'
  BY NextIInv, Shown, PTL

\* A step that shows nothing of a call, or nothing at all.
SameTask(c) == Task(c)' = Task(c)

Silent == UNCHANGED Phase /\ \A c \in Call : SameTask(c)

\* A silent step is a stutter of the abstract service.
LEMMA SilentStutters == Silent => UNCHANGED Graceful!serviceVars
  BY DEF Silent, SameTask, Graceful!serviceVars

\* A call whose variables do not change shows the same.
LEMMA SameCallSameTask ==
  ASSUME NEW c \in Call, UNCHANGED <<rpc[c], ran[c], reply[c]>>
  PROVE  SameTask(c)
  BY DEF SameTask, Task

\* Neither what happens to a call before a handler has it, nor what its client
\* does while the handler runs, shows.
LEMMA HiddenChange ==
  ASSUME ShownAtLocation, ShownAtLocation', NEW c \in Call, ran'[c] = ran[c],
         ran[c] = NoMethod \/ (Serving(c) /\ Serving(c)')
  PROVE  SameTask(c)
  BY DEF ShownAtLocation, SameTask

\* So does the server.
LEMMA SamePhase ==
  ASSUME UNCHANGED <<main, exit>>
  PROVE  UNCHANGED Phase
  BY DEF Phase

\* An end in disorder is a break.
LEMMA OverRefines ==
  ASSUME IInv, ShownAtLocation, ShownAtLocation',
         NEW status \in {1, 137}, Over(status), main # "exited"
  PROVE  Graceful!Break
<1>1. Phase \in {"off", "up"} /\ Phase' = "broken"
  BY DEF ShownAtLocation, Over, IInv, TypeOK
<1>2. ASSUME NEW c \in Call
      PROVE  Task(c)' = IF Task(c) = "accepted" THEN "lost" ELSE Task(c)
  <2>1. CASE Serving(c)
    BY <2>1 DEF ShownAtLocation, Over, IInv, TypeOK, CallAtLocation, Serving
  <2>2. CASE ~Serving(c)
    <3>1. SameTask(c)
      <4>1. CASE ran[c] = NoMethod
        BY <4>1, HiddenChange DEF Over
      <4>2. CASE ran[c] # NoMethod
        BY <2>2, <4>2, SameCallSameTask DEF Over, IInv, TypeOK, CallAtLocation, Serving
      <4> QED
        BY <4>1, <4>2
    <3> QED
      BY <2>2, <3>1 DEF ShownAtLocation, SameTask
  <2> QED
    BY <2>1, <2>2
<1> QED
  BY <1>1, <1>2 DEF Graceful!Break

\* Whoever is told the outcome of a call has had it finished, if it was accepted.
LEMMA ToldRefines ==
  ASSUME IInv, ShownAtLocation, ShownAtLocation', NEW c \in Call, NEW code, Told(c, code),
         UNCHANGED <<main, exit, ran>>
  PROVE  /\ ran[c] = NoMethod => Silent
         /\ Serving(c) => Graceful!Finish(c)
<1>1. \A d \in Call : d # c => SameTask(d)
  BY SameCallSameTask DEF Told, IInv, TypeOK
<1>2. CASE ran[c] = NoMethod
  <2>1. SameTask(c)
    BY <1>2, HiddenChange
  <2> QED
    BY <1>1, <1>2, <2>1, SamePhase DEF Silent, IInv, CallAtLocation
<1>3. CASE ran[c] # NoMethod /\ Serving(c)
  <2>1. Task(c) = "accepted" /\ Task(c)' \in {"answered", "unheard"}
    BY <1>3 DEF ShownAtLocation, Told, IInv, TypeOK
  <2>2. main = "accept"
    BY <1>3 DEF IInv, QuietAtLocation, Quiet, Serving
  <2>3. Phase = "up" /\ UNCHANGED Phase
    BY <2>2, SamePhase DEF ShownAtLocation
  <2>4. PICK t \in {"answered", "unheard"} : Task(c)' = t
    BY <2>1
  <2>5. [d \in Call |-> Task(d)]' = [[d \in Call |-> Task(d)] EXCEPT ![c] = t]
    BY <1>1, <2>4 DEF SameTask
  <2> QED
    BY <1>3, <2>1, <2>3, <2>5 DEF Graceful!Finish
<1> QED
  BY <1>2, <1>3

\* A request that is decoded is accepted, or shows nothing if it is not sound.
LEMMA DecodeRefines ==
  ASSUME IInv, ShownAtLocation, ShownAtLocation', NEW c \in Call, NEW m \in Implemented,
         NEW sound \in BOOLEAN, Decode(c, m, sound), ran[c] = NoMethod, main = "accept",
         UNCHANGED <<main, exit>>
  PROVE  Graceful!Next \/ Silent
<1>1. CASE Told(c, "INTERNAL") /\ UNCHANGED ran
  BY <1>1, ToldRefines
<1>2. CASE ~(Told(c, "INTERNAL") /\ UNCHANGED ran)
  <2>1. /\ m # NoMethod /\ ran' = [ran EXCEPT ![c] = m] /\ UNCHANGED reply
        /\ \E r \in {"queued", "answering"} : rpc' = [rpc EXCEPT ![c] = r]
    BY <1>2, NoMethodIsImplemented DEF Decode
  <2>2. Phase = "up" /\ UNCHANGED Phase
    BY SamePhase DEF ShownAtLocation
  <2>3. \A d \in Call : d # c => SameTask(d)
    BY <2>1, SameCallSameTask DEF IInv, TypeOK
  <2>4. Task(c) = "none" /\ Task(c)' = "accepted"
    BY <2>1 DEF ShownAtLocation, Running, Serving, Handling, IInv, TypeOK
  <2>5. Graceful!Accept(c)
    BY <2>2, <2>3, <2>4 DEF Graceful!Accept, SameTask
  <2> QED
    BY <2>5 DEF Graceful!Next
<1> QED
  BY <1>1, <1>2

\* Every step of the server is one of the service, or shows nothing of it.
LEMMA StepRefines == IInv /\ [Next]_vars => [Graceful!Next]_(Graceful!serviceVars)
<1> SUFFICES ASSUME IInv, [Next]_vars PROVE Graceful!Next \/ Silent
  BY SilentStutters
<1>0. IInv' /\ ShownAtLocation /\ ShownAtLocation'
  BY ShownBoth
<1> USE <1>0 DEF process, calls
<1>1. CASE LoadConfig
  <2>1. CASE Fatal
    BY <1>1, <2>1, OverRefines DEF LoadConfig, Fatal, Graceful!Next
  <2>2. CASE main = "load" /\ main' = "pool" /\ UNCHANGED <<exit, calls>>
    BY <1>1, <2>2, SameCallSameTask DEF LoadConfig, Silent, ShownAtLocation
  <2> QED
    BY <1>1, <2>1, <2>2 DEF LoadConfig
<1>2. CASE NewPool
  <2>1. CASE Fatal
    BY <1>2, <2>1, OverRefines DEF NewPool, Fatal, Graceful!Next
  <2>2. CASE main = "pool" /\ main' = "ping" /\ UNCHANGED <<exit, calls>>
    BY <1>2, <2>2, SameCallSameTask DEF NewPool, Silent, ShownAtLocation
  <2> QED
    BY <1>2, <2>1, <2>2 DEF NewPool
<1>3. CASE Ping
  <2>1. CASE Fatal
    BY <1>3, <2>1, OverRefines DEF Ping, Fatal, Graceful!Next
  <2>2. CASE main = "ping" /\ main' = "listen" /\ UNCHANGED <<exit, calls>>
    BY <1>3, <2>2, SameCallSameTask DEF Ping, Silent, ShownAtLocation
  <2> QED
    BY <1>3, <2>1, <2>2 DEF Ping
<1>4. CASE Listen
  <2>1. CASE Fatal
    BY <1>4, <2>1, OverRefines DEF Listen, Fatal, Graceful!Next
  <2>2. CASE main = "listen" /\ main' = "serve" /\ UNCHANGED <<exit, calls>>
    BY <1>4, <2>2, SameCallSameTask DEF Listen, Silent, ShownAtLocation
  <2> QED
    BY <1>4, <2>1, <2>2 DEF Listen
<1>5. CASE Serve
  <2>1. Phase = "off" /\ Phase' = "up"
    BY <1>5 DEF Serve, ShownAtLocation
  <2>2. \A c \in Call : SameTask(c)
    BY <1>5, SameCallSameTask DEF Serve
  <2> QED
    BY <2>1, <2>2 DEF Graceful!Open, Graceful!Next, SameTask
<1>6. CASE AcceptFails
  BY <1>6, OverRefines DEF AcceptFails, Accepting, Fatal, Graceful!Next
<1>7. CASE Signal
  BY <1>7, SamePhase, SameCallSameTask DEF Signal, Silent
<1>8. CASE GracefulStop
  BY <1>8, SamePhase, SameCallSameTask DEF GracefulStop, Silent
<1>9. CASE StopDone
  BY <1>9, SamePhase, SameCallSameTask DEF StopDone, Silent
<1>10. CASE ServeReturns
  BY <1>10, SameCallSameTask DEF ServeReturns, Silent, ShownAtLocation
<1>11. CASE ClosePool
  BY <1>11, SamePhase, SameCallSameTask DEF ClosePool, Silent
<1>12. CASE Exit
  <2>1. main = "closing" /\ Over(0)
    BY <1>12 DEF Exit
  <2>2. \A c \in Call : ~Running(c)
    BY <2>1 DEF IInv, QuietAtLocation, Quiet
  <2>3. \A c \in Call : SameTask(c)
    BY <2>1, <2>2, SameCallSameTask DEF Over, IInv, TypeOK
  <2>4. Phase = "up" /\ Phase' = "over"
    BY <2>1 DEF Over, ShownAtLocation
  <2>5. \A c \in Call : Task(c) # "accepted"
    BY <2>2 DEF ShownAtLocation, Serving
  <2> QED
    BY <2>3, <2>4, <2>5 DEF Graceful!End, Graceful!Next, SameTask
<1>13. CASE Die
  BY <1>13, OverRefines DEF Die, Graceful!Next
<1>14. ASSUME NEW k \in Client, Dial(k) PROVE Silent
  BY <1>14, SamePhase, SameCallSameTask DEF Dial, Silent
<1>15. ASSUME NEW k \in Client, Drain(k) PROVE Silent
  BY <1>15, SamePhase, SameCallSameTask DEF Drain, Silent
<1>16. ASSUME NEW k \in Client, CloseConn(k) PROVE Silent
  BY <1>16, SamePhase, SameCallSameTask DEF CloseConn, Silent
<1>17. ASSUME NEW k \in Client, Disconnect(k) PROVE Silent
  <2>1. UNCHANGED <<main, exit, ran>>
    BY <1>17 DEF Disconnect
  <2>2. ASSUME NEW c \in Call PROVE SameTask(c)
    <3>1. CASE ran[c] = NoMethod
      BY <2>1, <3>1, HiddenChange
    <3>2. CASE ran[c] # NoMethod /\ Running(c)
      BY <1>17, <2>1, <3>2, HiddenChange
         DEF Disconnect, IInv, TypeOK, CallAtLocation, Running, Serving, Handling
    <3>3. CASE ran[c] # NoMethod /\ ~Running(c)
      <4>1. rpc[c] # "sent"
        BY <3>3 DEF IInv, CallAtLocation
      <4>2. UNCHANGED <<rpc[c], reply[c]>>
        BY <1>17, <3>3, <4>1 DEF Disconnect, IInv, TypeOK
      <4> QED
        BY <2>1, <4>2, SameCallSameTask
    <3> QED
      BY <3>1, <3>2, <3>3
  <2> QED
    BY <2>1, <2>2, SamePhase DEF Silent
<1>18. ASSUME NEW c \in Call, Invoke(c) PROVE Silent
  <2>1. \A d \in Call : d # c => SameTask(d)
    BY <1>18, SameCallSameTask DEF Invoke, IInv, TypeOK
  <2>2. SameTask(c)
    BY <1>18, HiddenChange DEF Invoke, IInv, CallAtLocation
  <2> QED
    BY <1>18, <2>1, <2>2, SamePhase DEF Invoke, Silent
<1>19. ASSUME NEW c \in Call, Arrive(c) PROVE Graceful!Next \/ Silent
  <2> DEFINE m == Dispatch(asked[c].path)
  <2>1. /\ rpc[c] = "sent" /\ ran[c] = NoMethod /\ conn[ClientOf[c]] = "open"
        /\ UNCHANGED <<main, exit>>
    BY <1>19 DEF Arrive, IInv, CallAtLocation
  <2>2. main = "accept"
    BY <2>1, ServerAssumption DEF IInv, QuietAtLocation, Quiet
  <2>3. CASE m \in Implemented /\ Decode(c, m, asked[c].body = "whole")
    BY <2>1, <2>2, <2>3, DecodeRefines
  <2>4. CASE UNCHANGED ran /\ Told(c, "UNIMPLEMENTED")
    BY <2>1, <2>4, ToldRefines
  <2>5. CASE UNCHANGED <<ran, reply>> /\ rpc' = [rpc EXCEPT ![c] = "receiving"]
    <3>1. \A d \in Call : d # c => SameTask(d)
      BY <2>5, SameCallSameTask DEF IInv, TypeOK
    <3>2. SameTask(c)
      BY <2>1, <2>5, HiddenChange
    <3> QED
      BY <2>1, <3>1, <3>2, SamePhase DEF Silent
  <2> QED
    BY <1>19, <2>3, <2>4, <2>5 DEF Arrive
<1>20. ASSUME NEW c \in Call, Unavailable(c) PROVE Silent
  BY <1>20, ToldRefines DEF Unavailable, IInv, CallAtLocation
<1>21. ASSUME NEW c \in Call, HangUp(c) PROVE Silent
  <2>1. \A d \in Call : d # c => SameTask(d)
    BY <1>21, SameCallSameTask DEF HangUp, IInv, TypeOK
  <2>2. SameTask(c)
    BY <1>21, HiddenChange DEF HangUp, IInv, TypeOK, CallAtLocation, Running, Serving, Handling
  <2> QED
    BY <1>21, <2>1, <2>2, SamePhase DEF HangUp, Silent
<1>22. ASSUME NEW c \in Call, Acquire(c) PROVE Silent
  <2>1. \A d \in Call : d # c => SameTask(d)
    BY <1>22, SameCallSameTask DEF Acquire, IInv, TypeOK
  <2>2. SameTask(c)
    BY <1>22, HiddenChange DEF Acquire, IInv, TypeOK, Running, Serving, Handling
  <2> QED
    BY <1>22, <2>1, <2>2, SamePhase DEF Acquire, Silent
<1>23. ASSUME NEW c \in Call, AcquireFails(c) PROVE Graceful!Next
  BY <1>23, ToldRefines DEF AcquireFails, Running, Serving, Handling, Graceful!Next
<1>24. ASSUME NEW c \in Call, Answer(c) PROVE Graceful!Next
  BY <1>24, ToldRefines DEF Answer, Running, Serving, Handling, Graceful!Next
<1>25. ASSUME NEW c \in Call, Receive(c) PROVE Graceful!Next \/ Silent
  <2> DEFINE m == Dispatch(asked[c].path)
  <2>1. /\ rpc[c] = "receiving" /\ ran[c] = NoMethod /\ main = "accept"
        /\ UNCHANGED <<main, exit>>
    BY <1>25 DEF Receive, IInv, CallAtLocation, QuietAtLocation, Quiet, Running, Handling
  <2>2. CASE m \in Implemented /\ \E sound \in BOOLEAN : Decode(c, m, sound)
    BY <2>1, <2>2, DecodeRefines
  <2>3. CASE UNCHANGED ran /\ Told(c, "STATUS")
    BY <2>1, <2>3, ToldRefines
  <2> QED
    BY <1>25, <2>2, <2>3 DEF Receive
<1>26. ASSUME NEW c \in Call, ReceiveFails(c) PROVE Silent
  BY <1>26, ToldRefines DEF ReceiveFails, IInv, CallAtLocation
<1>27. CASE UNCHANGED vars
  BY <1>27, SamePhase, SameCallSameTask DEF vars, Silent
<1> QED
  BY <1>1, <1>2, <1>3, <1>4, <1>5, <1>6, <1>7, <1>8, <1>9, <1>10, <1>11, <1>12, <1>13, <1>14, <1>15,
     <1>16, <1>17, <1>18, <1>19, <1>20, <1>21, <1>22, <1>23, <1>24, <1>25, <1>26, <1>27 DEF Next

\* The server starts as the abstract service does.
LEMMA InitRefines == Init => Graceful!Init
<1> SUFFICES ASSUME Init PROVE Graceful!Init
  OBVIOUS
<1>1. ShownAtLocation
  BY InitIInv, Shown
<1> QED
  BY <1>1 DEF Init, ShownAtLocation, Graceful!Init

\* The server implements the service that stops gracefully: only a broken one
\* loses a call whose handler ran, and one that ends in order has answered them
\* all, for any number of clients and calls.
THEOREM ServerImplementsGracefulService == Spec => ImplementsGracefulService
<1> QED
  BY InitRefines, StepRefines, Inductive, PTL DEF Spec, ImplementsGracefulService, Graceful!Spec
===============================================================================
