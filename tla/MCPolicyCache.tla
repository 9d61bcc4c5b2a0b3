---------------------------- MODULE MCPolicyCache ---------------------------
(* The shipped policy and an edited one, for two threads.                  *)
EXTENDS PolicyCache

Edited ==
    [rules |-> {Rule("data_analysis", "agent_l2", "RRN", "keep", 0),
                Rule(AnyValue, AnyValue, AnyValue, "redact", -1)},
     overrides |-> {Override("injection", 0, "block"),
                    Override("risk", 60, "block")}]
SomePolicies == {ShippedPolicy, Edited}
=============================================================================
