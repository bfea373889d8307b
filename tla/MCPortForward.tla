---------------------------- MODULE MCPortForward ----------------------------
EXTENDS PortForward

CONSTANTS ssh, web, bad

Write(managed, fs) == [managed |-> managed, forwards |-> fs]

\* Two forwards, and one that does not pass its verification.
MCForwards == {ssh, web, bad}
MCConfigs == {Write(FALSE, {ssh}), Write(FALSE, {ssh, web}), Write(FALSE, {web, bad}), Write(TRUE, {ssh}), Write(TRUE, {web})}
=============================================================================
