-------------------------------- MODULE MCApp --------------------------------
(* Small instances of App: the transports of a typical application, and an *)
(* order in which a gRPC transport follows a WebSocket transport.          *)
EXTENDS App

GrpcFirst == <<"grpc", "http", "ws">>
WSFirst   == <<"ws", "grpc">>
=============================================================================
