------------------------------ MODULE MCFanOut ------------------------------
EXTENDS FanOut

CONSTANTS a, b, c, d, e

MCJobs == {a, b, c, d, e}
MCCareless == {a}
=============================================================================
