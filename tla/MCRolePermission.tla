--------------------------- MODULE MCRolePermission ---------------------------
EXTENDS RolePermission

CONSTANTS main, extra, list, zones, hosts, any

Allow(rule) == [rule |-> rule, permission |-> "allow"]
Deny(rule) == [rule |-> rule, permission |-> "deny"]
Blocks(blocks) == [authoritative |-> FALSE, blocks |-> blocks]
Authority(blocks) == [authoritative |-> TRUE, blocks |-> blocks]

\* From the first list to the others a block is put in front (and back, the first is
\* removed), or the second becomes the first in front of a new one.
MCConfigs ==
  [r \in {main, extra} |->
     IF r = main
     THEN {Blocks(<<Allow(list), Deny(any)>>), Blocks(<<Allow(hosts), Allow(list), Deny(any)>>),
           Blocks(<<Deny(any), Allow(hosts)>>), Authority(<<Allow(any)>>)}
     ELSE {Blocks(<<Allow(zones)>>)}]

\* The user's lists are as NoErrorWithoutFault needs them.
ASSUME ConfigsDeclareOnce == DeclaredOnce

\* The user begins with the longest list, or edits it before the first apply.
MCInit == Init /\ Len(config[main].blocks) = 3 /\ config[extra].present
MCSpec == MCInit /\ [][Next]_vars /\ Fairness
=============================================================================
