--------------------------- MODULE EgressFirewall ---------------------------
(***************************************************************************)
(* The cloudstack_egress_firewall resource: the egress rules of a network. *)
(* Its handlers are those of the firewall resource, step for step, so the  *)
(* module extends Firewall and states what differs:                        *)
(*                                                                         *)
(*   - a rule of the protocol "all" lists no ports and has a single uuid   *)
(*     under the key "all", as an icmp rule has one under "icmp": both are *)
(*     one-port rules of Firewall;                                         *)
(*   - the dummy block Read makes for a rule nobody configured carries a   *)
(*     string where the schema has a set of strings, and the hash of the   *)
(*     block panics: the provider dies in every Read of a managed network  *)
(*     that has such a rule.                                               *)
(***************************************************************************)
EXTENDS Firewall

-----------------------------------------------------------------------------
(* resourceCloudStackEgressFirewallRead                                    *)

\* The dummy block of a rule nobody configured panics in rules.Add.
Panics(es, managed) == managed /\ Unknown(es) # {}

\* A refresh that panics leaves the state as it was, and there is no plan.
EgressRefresh == ~Panics(saved.rules, saved.managed) /\ Refresh

\* A handler that ends with a Read dies in it, as in a crash.
PanicInRead(es) ==
  Panics(es, config.managed) /\ Die /\ faults' = [faults EXCEPT !.kinds = @ \cup {"crash"}]

ReadReturns(es) == told' = "ok" => ~Panics(es, config.managed)

-----------------------------------------------------------------------------
(* The handlers.                                                           *)

EgressCreate ==
  \/ Create /\ (Wanted = {} => ReadReturns({}))
  \/ CanCreate /\ Wanted = {} /\ PanicInRead({})

EgressUpdate ==
  \/ Update /\ (~RulesDiffer => ReadReturns(saved.rules))
  \/ CanUpdate /\ VerifyParams /\ ~RulesDiffer /\ PanicInRead(saved.rules)

EgressReturnRead ==
  \/ ReturnRead /\ ReadReturns(rules)
  \/ CanReturnRead /\ PanicInRead(rules)

EgressReturn == ReturnError \/ CreateTheRest \/ EgressReturnRead \/ ReturnDeleted

-----------------------------------------------------------------------------
EgressTerraform == EgressRefresh \/ EgressCreate \/ EgressUpdate \/ Delete

EgressProvider == EgressReturn \/ \E j \in DOMAIN stage : Goroutine(j)

EgressNext == EgressTerraform \/ EgressProvider \/ Environment

EgressSpec == Init /\ [][EgressNext]_vars /\ WF_vars(EgressTerraform) /\ WF_vars(EgressProvider)

-----------------------------------------------------------------------------
(* Properties: those of Firewall, and what the panic leaves of two of them. *)

\* The resource settles as a firewall does, unless every Read of it panics.
EgressSettles ==
  <>[](Applied \/ Hopeless \/ Overlooked \/ Panics(saved.rules, saved.managed \/ config.managed))
=============================================================================
