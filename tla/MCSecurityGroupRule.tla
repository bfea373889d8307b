------------------------ MODULE MCSecurityGroupRule ------------------------
EXTENDS SecurityGroupRule

CONSTANTS web, ping, ssh, bad, worse, http, https, icmp, lan, wan

\* A rule with two sources and two ports, a rule with one of each, and two that
\* fail their verification.  Of the three blocks that are written together, one or two
\* keep their slots for good, and with two slots the others wait: for their turn, or
\* for ever.
MCRules == {web, ping, ssh, bad, worse}
MCPortsOf == [r \in MCRules |-> IF r = web THEN {http, https} ELSE {icmp}]
MCSourcesOf == [r \in MCRules |-> IF r = web THEN {lan, wan} ELSE {lan}]

MCConfigs == {{web, ping}, {ping, ssh, bad}, {ping, bad, worse}, {}}
=============================================================================
