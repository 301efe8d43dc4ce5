------------------------------ MODULE MCNodeApi ------------------------------
(***************************************************************************)
(* The agents of NodeApi's run.  Handlers under `handle` mix the flat and  *)
(* the grouped power and observation methods; a Handler under              *)
(* `handle_node` goes through the blanket implementation; NodeHandlers     *)
(* have grouped methods only.                                              *)
(***************************************************************************)
EXTENDS NodeApi

Others ==
    {"node_service", "node_network_interface", "node_hostname",
     "node_time_sync", "node_logging", "node_remote_access", "node_version",
     "node_package", "node_enroll", "node_package_install_preflight",
     "node_package_install"}

Agent(t, l, o) == [trait |-> t, loop |-> l, over |-> o]

MCAgents ==
    {Agent("Handler", "handle", f \cup g) :
        f \in {{}, {"reboot", "process_list"}, {"shutdown", "resource_usage"}},
        g \in {{}, {"node_power"}, {"node_observation"}}}
    \cup {Agent("Handler", "handle_node", {"reboot", "resource_usage"}),
          Agent("NodeHandler", "handle_node", {}),
          Agent("NodeHandler", "handle_node",
                Others \cup {"node_power", "node_observation"}),
          Agent("NodeHandler", "handle_node",
                {"node_package_install_preflight"})}

MCPeers == {[subject |-> "none", fingerprint |-> "none"],
            [subject |-> "cn", fingerprint |-> "fp"]}

=============================================================================
