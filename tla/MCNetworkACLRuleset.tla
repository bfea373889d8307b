------------------------ MODULE MCNetworkACLRuleset ------------------------
EXTENDS NetworkACLRuleset

CONSTANTS tcp, udp, b1, b2, p80, none, bad

Rule(n, p, b, port) == [number |-> n, protocol |-> p, body |-> b, port |-> port]
Write(managed, rs) == [managed |-> managed, rules |-> rs]

\* From one to the next: a rule is dropped or new, another changes in place or changes
\* protocol, or only its port is removed.  A creation, and the second half of a change of
\* protocol, may be rejected; a change in place never is.
Two == {Rule(1, tcp, b1, p80), Rule(2, tcp, b1, p80)}
Last == {Rule(2, tcp, b2, p80)}
Moved == {Rule(2, udp, b1, p80)}
Emptied == {Rule(2, udp, b1, none)}
Rejected == {Rule(1, tcp, b1, p80), Rule(2, udp, b1, bad)}

MCConfigs == {Write(TRUE, Two), Write(TRUE, Last), Write(TRUE, Moved), Write(TRUE, {}),
              Write(FALSE, Two), Write(FALSE, Emptied), Write(FALSE, Rejected)}
MCOthers == {Rule(1, tcp, b1, p80), Rule(3, tcp, b1, p80)}
=============================================================================
