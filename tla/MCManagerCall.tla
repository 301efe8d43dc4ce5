---------------------------- MODULE MCManagerCall ----------------------------
(* Bounds for ManagerCall: installs of 0 to 3 bytes sent in chunks of at     *)
(* most 2, sources from empty to one byte too long, and one request for      *)
(* every other shape of dispatch arm.                                        *)
EXTENDS ManagerCall

MCRequests ==
    [code : {"NodePackage.Install"}, decodes : BOOLEAN, size : 0 .. 3]
    \cup [code : {"ReloadTi", "NodePackage.Unary", "NodePower.Immediate",
                  "NodePower.Graceful"}, decodes : BOOLEAN, size : {0}]
    \cup [code : {"EchoRequest", "Reboot", "Unknown"}, decodes : {TRUE},
          size : {0}]

MCSourceLens == 0 .. 4
=============================================================================
