------------------------------- MODULE MCSession -------------------------------
(* Instances of ObservationSession for TLC. *)
EXTENDS ObservationSession, TLC

CONSTANTS client, server, remote, outbound

\* client connects to server on the same host; remote is accepted from elsewhere by the
\* process of server, which connects outbound.
MCTupleOf ==
  (client :> <<"a", "b">>) @@ (server :> <<"b", "a">>) @@ (remote :> <<"b", "c">>) @@
  (outbound :> <<"d", "c">>)
MCConfigs ==
  [platform : {"linux", "windows"}, mode : {"all"}, exact : {TRUE}] \cup
  [platform : {"linux", "windows"}, mode : {"target"}, exact : {FALSE}]
LinuxConfigs == [platform : {"linux"}, mode : {"all"}, exact : {TRUE}]
MCProcessOf == [s \in Sockets |-> IF s = client THEN "p" ELSE "q"]
================================================================================
