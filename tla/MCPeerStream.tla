---------------------------- MODULE MCPeerStream ----------------------------
(* Bounds for PeerStream: three requests on one stream, out of the shapes   *)
(* of dispatch arm that matter to alignment, installs of 0 and 2 bytes.     *)
EXTENDS PeerStream

MCRequests ==
    [code : {"NodePackage.Install"}, decodes : {TRUE}, size : {0, 2}]
    \cup [code : {"NodePower.Immediate"}, decodes : BOOLEAN, size : {0}]
    \cup [code : {"NodeService", "EchoRequest"}, decodes : {TRUE}, size : {0}]
=============================================================================
