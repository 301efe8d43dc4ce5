-------------------------- MODULE MCServerDispatch --------------------------
(* Bounds for ServerDispatch: three requests on one stream, one of every     *)
(* shape of dispatch arm.                                                    *)
EXTENDS ServerDispatch

MCRequests ==
    [code : {"GetModel", "GetDataSource"}, decodes : BOOLEAN]
    \cup [code : {"RenewCertificate", "RemoveOutliers", "Unknown"}, decodes : {TRUE}]
=============================================================================
