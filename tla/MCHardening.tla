----------------------------- MODULE MCHardening -----------------------------
(* A small instance of Hardening: two instances of the plugin, a foreign      *)
(* wrapper, and the configurations and carriers that make a difference.       *)
EXTENDS Hardening

MCConfigs ==
  { [limits |-> Unset, network |-> "none", limitsMode |-> Unset, networkMode |-> Unset],
    [limits |-> {"memory"}, network |-> "none", limitsMode |-> Unset, networkMode |-> Unset],
    [limits |-> {"memory", "cpu"}, network |-> "none",
     limitsMode |-> "best-effort", networkMode |-> "required"],
    [limits |-> {"pids"}, network |-> Unset, limitsMode |-> Unset, networkMode |-> Unset] }

MCPolicies ==
  { [limits |-> Unset, network |-> Unset],
    [limits |-> Unset, network |-> "inherit"],
    [limits |-> {"pids"}, network |-> "none"],
    [limits |-> {"cpu"}, network |-> Unset] }
=============================================================================
