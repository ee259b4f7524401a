-------------------------------- MODULE MCIpc --------------------------------
(* Instances of Ipc for TLC. *)
EXTENDS Ipc, TLC

CONSTANTS client, server, ct1, ct2, st1, st2, p1, p2, p3, c1, c2, sc1

\* One thread each; the client's phone p1 leads to the server, the server's
\* phone p2 to the client, p3 is free for IPC_M_CONNECT_ME_TO.
TwoThreads == ct1 :> client @@ st1 :> server
ServerPair == ct1 :> client @@ st1 :> server @@ st2 :> server
ClientPair == ct1 :> client @@ ct2 :> client @@ st1 :> server

ServerSymmetry == Permutations({st1, st2})

OneWayCaller == p1 :> client
OneWayCallee == p1 :> server
BothWaysCaller == p1 :> client @@ p2 :> server
BothWaysCallee == p1 :> server @@ p2 :> client
=============================================================================
