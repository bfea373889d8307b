--------------------------- MODULE MCNetworkACLRule ---------------------------
EXTENDS NetworkACLRule

Rule(n, proto, port, body) ==
  [number |-> n, proto |-> proto, port |-> port, side |-> "in", body |-> body]

Write(managed, rs) == [managed |-> managed, rules |-> rs]

Web == Rule(1, "tcp", "80", "lan")
WebWan == Rule(1, "tcp", "80", "wan")
Tls == Rule(2, "tcp", "443", "lan")
Ping == Rule(3, "icmp", NoPort, "lan")
Ping2 == Rule(8, "icmp", NoPort, "lan")
AllTcp == Rule(4, "tcp", NoPort, "lan")
Gre == Rule(5, "number", NoPort, "lan")
Bad == Rule(6, "tcp", "x", "lan")
Theirs == Rule(9, "all", NoPort, "wan")

MCRules == {Web, WebWan, Tls, Ping, AllTcp, Gre, Bad, Ping2}
MCForeign == Theirs
MCInvalid == {Bad}

\* Lists that change at their end and at their front, in place, or from all ports to
\* some and back; a rule that fails its verification; one whose protocol is a number; two
\* blocks of a kind; and none at all.
Lists == {<<Web>>, <<Web, Ping>>, <<WebWan, Ping, Tls>>, <<AllTcp>>, <<Bad>>, <<Web, Gre>>, <<>>,
          <<Ping, Web>>, <<Ping2, Ping>>}
MCConfigs == {Write(FALSE, rs) : rs \in Lists} \cup {Write(TRUE, <<Web, Ping>>)}
=============================================================================
