----------------------------- MODULE MCAutoscale -----------------------------
EXTENDS Autoscale

CONSTANTS v, w, a

MCSpare == {a}

\* The members the user lists, two versions of the profile and of the group's
\* parameters, enabled or not, by reference or by id.
MCWishes ==
  [members : {{}, {v}, {v, w}}, profile : 1..2, params : 1..2, on : BOOLEAN, refers : {TRUE}]
  \cup [members : {{v}, {w}}, profile : 1..2, params : 1..2, on : BOOLEAN, refers : {FALSE}]
=============================================================================
