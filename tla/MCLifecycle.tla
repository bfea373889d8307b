----------------------------- MODULE MCLifecycle -----------------------------
(* The lifecycle of every resource of the catalogues.                        *)
EXTENDS Carrying, Compute, Networking, Scaling, Infrastructure, Administration, TLC

MCCatalogue ==
  ComputeResources @@ NetworkingResources @@ ScalingResources
  @@ InfrastructureResources @@ AdministrationResources
=============================================================================
