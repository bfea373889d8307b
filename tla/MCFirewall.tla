----------------------------- MODULE MCFirewall -----------------------------
EXTENDS EgressFirewall

CONSTANTS web, ping, bad, http, https, icmp

Write(managed, rs) == [managed |-> managed, rules |-> rs]

\* A rule with two ports, a rule with one, and one that does not pass its
\* verification.
MCRules == {web, ping, bad}
MCPortsOf == [r \in MCRules |-> IF r = web THEN {http, https} ELSE {icmp}]

\* Only a managed address may do without rules: Update refuses the last one.
MCConfigs == {Write(FALSE, {web, ping}), Write(FALSE, {ping}), Write(TRUE, {web}), Write(TRUE, {})}
             \cup {Write(FALSE, {web, bad}), Write(FALSE, {})}

\* The two resources side by side: a behaviour is that of one of them.
VARIABLE egress

MCInit == Init /\ egress \in BOOLEAN

MCNext == UNCHANGED egress /\ IF egress THEN EgressNext ELSE Next

MCSpec ==
  /\ MCInit /\ [][MCNext]_<<vars, egress>>
  /\ WF_vars(IF egress THEN EgressTerraform ELSE Terraform)
  /\ WF_vars(IF egress THEN EgressProvider ELSE Provider)

EachSettles == (egress => EgressSettles) /\ (~egress => Settles)
=============================================================================
