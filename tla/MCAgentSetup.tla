---------------------------- MODULE MCAgentSetup ----------------------------
(* AgentSetup with two models and two ports. *)
EXTENDS AgentSetup

Rule(p, m) == [prefix |-> p, to |-> m]
MCRuleTables == {<<>>, <<Rule("any", "m1"), Rule("opus", "m2")>>, <<Rule("haiku", "m2")>>}
Table(o, h, d) == [opus |-> o, haiku |-> h, default |-> d]
MCRoleTables == {Table("m1", "m2", None), Table("m2", None, "m1")}

\* Ports and models are interchangeable.
MCInit ==
    /\ Init
    /\ sp.port = "p1" /\ sp.default # "m2" /\ mp # "token"
MCSpec == MCInit /\ [][Next]_vars
=============================================================================
