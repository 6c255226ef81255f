---------------------------------- MODULE Rpc ----------------------------------
(* How a call finds its method: the generated client stubs, the tables of the  *)
(* four services that server.New registers, and the generated handlers.  Each  *)
(* is a table of its own, generated from the same proto files.  A fifth service*)
(* comes with grpc-go: reflection, in two versions.                            *)

NoMethod == "none"

\* What the stub of each method asks for: a service and a method of it.
GreeterServiceClient == [SayHello |-> <<"greeter.v1.GreeterService", "SayHello">>]

UserServiceClient == [CreateUser |-> <<"user.v1.UserService", "CreateUser">>,
                      UpdateUser |-> <<"user.v1.UserService", "UpdateUser">>,
                      DeleteUser |-> <<"user.v1.UserService", "DeleteUser">>,
                      GetUser |-> <<"user.v1.UserService", "GetUser">>,
                      ListUsers |-> <<"user.v1.UserService", "ListUsers">>]

CompanyServiceClient == [CreateCompany |-> <<"company.v1.CompanyService", "CreateCompany">>,
                         GetCompany |-> <<"company.v1.CompanyService", "GetCompany">>,
                         ListCompanies |-> <<"company.v1.CompanyService", "ListCompanies">>,
                         UpdateCompany |-> <<"company.v1.CompanyService", "UpdateCompany">>,
                         DeleteCompany |-> <<"company.v1.CompanyService", "DeleteCompany">>]

EmployeeServiceClient == [CreateEmployee |-> <<"employee.v1.EmployeeService", "CreateEmployee">>,
                          GetEmployee |-> <<"employee.v1.EmployeeService", "GetEmployee">>,
                          ListEmployees |-> <<"employee.v1.EmployeeService", "ListEmployees">>,
                          UpdateEmployee |-> <<"employee.v1.EmployeeService", "UpdateEmployee">>,
                          DeleteEmployee |-> <<"employee.v1.EmployeeService", "DeleteEmployee">>]

\* Which method of the service each generated handler calls.  They decode the
\* request first; server.New installs no interceptor.
GreeterServiceHandlers == [_SayHello_Handler |-> "SayHello"]

UserServiceHandlers == [_CreateUser_Handler |-> "CreateUser", _UpdateUser_Handler |-> "UpdateUser",
                        _DeleteUser_Handler |-> "DeleteUser", _GetUser_Handler |-> "GetUser",
                        _ListUsers_Handler |-> "ListUsers"]

CompanyServiceHandlers ==
    [_CreateCompany_Handler |-> "CreateCompany", _GetCompany_Handler |-> "GetCompany",
     _ListCompanies_Handler |-> "ListCompanies", _UpdateCompany_Handler |-> "UpdateCompany",
     _DeleteCompany_Handler |-> "DeleteCompany"]

EmployeeServiceHandlers ==
    [_CreateEmployee_Handler |-> "CreateEmployee", _GetEmployee_Handler |-> "GetEmployee",
     _ListEmployees_Handler |-> "ListEmployees", _UpdateEmployee_Handler |-> "UpdateEmployee",
     _DeleteEmployee_Handler |-> "DeleteEmployee"]

\* The service descriptors: which handler serves a method.
GreeterService_ServiceDesc == [SayHello |-> GreeterServiceHandlers._SayHello_Handler]

\* Mistake: two entries of the table are exchanged.
UserService_ServiceDescSwapped ==
    [CreateUser |-> UserServiceHandlers._CreateUser_Handler,
     UpdateUser |-> UserServiceHandlers._UpdateUser_Handler,
     DeleteUser |-> UserServiceHandlers._GetUser_Handler,
     GetUser |-> UserServiceHandlers._DeleteUser_Handler,
     ListUsers |-> UserServiceHandlers._ListUsers_Handler]

UserService_ServiceDesc ==
    [CreateUser |-> UserServiceHandlers._CreateUser_Handler,
     UpdateUser |-> UserServiceHandlers._UpdateUser_Handler,
     DeleteUser |-> UserServiceHandlers._DeleteUser_Handler,
     GetUser |-> UserServiceHandlers._GetUser_Handler,
     ListUsers |-> UserServiceHandlers._ListUsers_Handler]

CompanyService_ServiceDesc ==
    [CreateCompany |-> CompanyServiceHandlers._CreateCompany_Handler,
     GetCompany |-> CompanyServiceHandlers._GetCompany_Handler,
     ListCompanies |-> CompanyServiceHandlers._ListCompanies_Handler,
     UpdateCompany |-> CompanyServiceHandlers._UpdateCompany_Handler,
     DeleteCompany |-> CompanyServiceHandlers._DeleteCompany_Handler]

EmployeeService_ServiceDesc ==
    [CreateEmployee |-> EmployeeServiceHandlers._CreateEmployee_Handler,
     GetEmployee |-> EmployeeServiceHandlers._GetEmployee_Handler,
     ListEmployees |-> EmployeeServiceHandlers._ListEmployees_Handler,
     UpdateEmployee |-> EmployeeServiceHandlers._UpdateEmployee_Handler,
     DeleteEmployee |-> EmployeeServiceHandlers._DeleteEmployee_Handler]

\* Reflection is one stream in both directions, which its client ends.
ServerReflection_ServiceDesc == [ServerReflectionInfo |-> "ServerReflectionInfo"]

Streaming == DOMAIN ServerReflection_ServiceDesc

\* server.New registers each service under its full name; reflection.Register
\* both of its versions.
Services == [s \in {"greeter.v1.GreeterService", "user.v1.UserService",
                    "company.v1.CompanyService", "employee.v1.EmployeeService",
                    "grpc.reflection.v1.ServerReflection",
                    "grpc.reflection.v1alpha.ServerReflection"} |->
                CASE s = "greeter.v1.GreeterService" -> GreeterService_ServiceDesc
                  [] s = "user.v1.UserService" -> UserService_ServiceDesc
                  [] s = "company.v1.CompanyService" -> CompanyService_ServiceDesc
                  [] s = "employee.v1.EmployeeService" -> EmployeeService_ServiceDesc
                  [] OTHER -> ServerReflection_ServiceDesc]

\* The method that serves a path, if any does.
Dispatch(path) == IF path[1] \in DOMAIN Services /\ path[2] \in DOMAIN Services[path[1]]
                    THEN Services[path[1]][path[2]] ELSE NoMethod

\* The handlers that implement a method.  Each handler struct also embeds the
\* Unimplemented server of its service, which answers UNIMPLEMENTED for any method
\* that the struct does not define itself.
GreeterHandler == {"SayHello"}
UserGrpcHandler == {"CreateUser", "UpdateUser", "DeleteUser", "GetUser", "ListUsers"}
CompanyGrpcHandler == {"CreateCompany", "UpdateCompany", "DeleteCompany", "GetCompany", "ListCompanies"}
EmployeeGrpcHandler == {"CreateEmployee", "UpdateEmployee", "DeleteEmployee", "GetEmployee", "ListEmployees"}

Implemented == GreeterHandler \cup UserGrpcHandler \cup CompanyGrpcHandler \cup EmployeeGrpcHandler

\* Only the greeter needs no database.
NeedsDatabase(m) == m \notin GreeterHandler
===============================================================================
