------------------------------- MODULE MCLimits -------------------------------
EXTENDS Limits

CONSTANTS own, account, project
=============================================================================
