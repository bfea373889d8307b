----------------------------- MODULE Networking -----------------------------
(***************************************************************************)
(* Networks, VPCs, addresses, load balancers and VPNs.  As in Compute, an  *)
(* attribute may stand for others that are treated alike.                  *)
(***************************************************************************)
EXTENDS Steps

(* cloudstack_network.  `name' stands for display_text, cidr, network_domain and *)
(* network_offering, `zone' for what replaces the network.                    *)

NetworkCreate ==
  <<Make({"name", "acl_id", "zone", "bypass_vlan_overlap_check"}),
    Write({"tags"}), Write({"source_nat_ip"}), Reread>>
NetworkRead == Reading("id", "forget", {"name", "acl_id", "zone", "tags"}, {"source_nat_ip"}, {})
NetworkUpdate ==
  <<Always(Write({"name"})), Write({"acl_id"})>> \o Replace("tags") \o <<Reread>>
NetworkDelete == <<Drop>>
Network ==
  Resource({"name", "acl_id", "zone", "bypass_vlan_overlap_check", "source_nat_ip", "tags"},
           {"source_nat_ip"}, {"zone", "source_nat_ip"},
           NetworkRead, NetworkCreate, NetworkUpdate, NetworkDelete)

-----------------------------------------------------------------------------
(* cloudstack_nic                                                          *)

NICCreate == <<Retried(MakeUnique({"network_id"}, {"network_id"}), 2), Reread>>
NICRead == ReadById({"network_id"})
NICDelete == <<Drop>>
NIC == Resource({"network_id"}, {}, {"network_id"}, NICRead, NICCreate, <<>>, NICDelete)

-----------------------------------------------------------------------------
(* cloudstack_ipaddress: there is no Update, but the tags may be edited.       *)

IPAddressCreate == <<Make({"network_id", "is_portable"}), Write({"tags"}), Reread>>
IPAddressRead == Reading("id", "forget", {"is_portable", "tags"}, {"network_id"}, {})
IPAddressDelete == <<Drop>>
IPAddress ==
  Resource({"network_id", "is_portable", "tags"}, {"network_id"}, {"network_id", "is_portable"},
           IPAddressRead, IPAddressCreate, <<NoUpdate>>, IPAddressDelete)

-----------------------------------------------------------------------------
(* cloudstack_secondary_ipaddress                                          *)

SecondaryIPAddressCreate == <<Check({}), Make({"virtual_machine_id"}), Reread>>
SecondaryIPAddressRead == ReadById({"virtual_machine_id"})
SecondaryIPAddressDelete == <<Drop>>
SecondaryIPAddress ==
  Resource({"virtual_machine_id"}, {}, {"virtual_machine_id"},
           SecondaryIPAddressRead, SecondaryIPAddressCreate, <<>>, SecondaryIPAddressDelete)

-----------------------------------------------------------------------------
(* cloudstack_static_nat                                                   *)

StaticNATCreate == <<Check({}), Make({"virtual_machine_id"}), Reread>>
StaticNATRead == ReadById({"virtual_machine_id"})
StaticNATDelete == <<Drop>>
StaticNAT ==
  Resource({"virtual_machine_id"}, {}, {"virtual_machine_id"},
           StaticNATRead, StaticNATCreate, <<>>, StaticNATDelete)

-----------------------------------------------------------------------------
(* cloudstack_static_route                                                 *)

StaticRouteCreate == <<Make({"cidr", "nexthop"}), Reread>>
StaticRouteRead == Reading("id", "forget", {"cidr"}, {}, {"nexthop"})
StaticRouteDelete == <<Drop>>
StaticRoute ==
  Resource({"cidr", "nexthop"}, {"nexthop"}, {"cidr", "nexthop"},
           StaticRouteRead, StaticRouteCreate, <<>>, StaticRouteDelete)

-----------------------------------------------------------------------------
(* cloudstack_vpc                                                          *)

VPCCreate == <<Make({"name", "display_text", "cidr"}), Write({"tags"}), Reread>>
VPCRead == ReadById({"name", "display_text", "cidr", "tags"})
\* A variant: the name is never sent.
VPCUpdateNameless == <<Write({"display_text"})>> \o Replace("tags") \o <<Reread>>
VPCUpdate == <<Write({"name"}), Write({"display_text"})>> \o Replace("tags") \o <<Reread>>
VPCDelete == <<Drop>>
VPC ==
  Resource({"name", "display_text", "cidr", "tags"}, {}, {"cidr"},
           VPCRead, VPCCreate, VPCUpdate, VPCDelete)

-----------------------------------------------------------------------------
(* cloudstack_private_gateway                                              *)

PrivateGatewayCreate == <<Make({"gateway", "acl_id", "network_offering", "bypass_vlan_overlap_check"}), Reread>>
PrivateGatewayRead == ReadById({"gateway", "acl_id"})
PrivateGatewayUpdate == <<Write({"acl_id"}), Reread>>
PrivateGatewayDelete == <<Drop>>
PrivateGateway ==
  Resource({"gateway", "acl_id", "network_offering", "bypass_vlan_overlap_check"},
           {"network_offering"}, {"gateway", "network_offering"},
           PrivateGatewayRead, PrivateGatewayCreate, PrivateGatewayUpdate, PrivateGatewayDelete)

-----------------------------------------------------------------------------
(* cloudstack_loadbalancer: two members are assigned before the id is set.     *)

LoadBalancerCreate ==
  <<MakeUnknown({"name", "description"}), Add("virtualmachineids"), Add("virtualmachineids"),
    Know, Reread>>
LoadBalancerRead == ReadByIdStrictly({"name", "virtualmachineids"})
LoadBalancerDelete == <<DropExisting>>
LoadBalancer ==
  Resource({"name", "description", "virtualmachineids"}, {"description", "virtualmachineids"},
           {"name", "description", "virtualmachineids"},
           LoadBalancerRead, LoadBalancerCreate, <<>>, LoadBalancerDelete)

-----------------------------------------------------------------------------
(* cloudstack_loadbalancer_rule.  `name' stands for the algorithm, too.  The    *)
(* members are changed in place: first those that are no longer wanted are      *)
(* removed, then the new ones added.  What Read and Update do with the members   *)
(* of a rule that autoscale groups use is the module Autoscale.  Taking a        *)
(* certificate away is left out.                                              *)

LoadBalancerRuleCreate ==
  <<Make({"name", "description", "ip_address_id"}), Write({"certificate_id"}), Write({"member_ids"}), Reread>>
LoadBalancerRuleRead == ReadById({"name", "ip_address_id", "member_ids"})
LoadBalancerRuleUpdate ==
  <<Write({"name", "description"}), Step("clear", {"certificate_id"}, {"certificate_id"}),
    Write({"certificate_id"})>>
  \o Replace("member_ids") \o <<Reread>>
LoadBalancerRuleDelete == <<Drop>>
LoadBalancerRule ==
  Resource({"name", "description", "ip_address_id", "certificate_id", "member_ids"}, {},
           {"ip_address_id"},
           LoadBalancerRuleRead, LoadBalancerRuleCreate, LoadBalancerRuleUpdate, LoadBalancerRuleDelete)

-----------------------------------------------------------------------------
(* cloudstack_network_acl, and cloudstack_security_group: its container twin.  *)

NetworkACLCreate == <<Make({"name"}), Reread>>
NetworkACLRead == ReadById({"name"})
NetworkACLDelete == <<Retried(Drop, 2)>>
NetworkACL == Resource({"name"}, {}, {"name"}, NetworkACLRead, NetworkACLCreate, <<>>, NetworkACLDelete)

SecurityGroupCreate == <<Make({"name"}), Reread>>
SecurityGroupRead == ReadById({"name"})
SecurityGroupDelete == <<Drop>>
SecurityGroup ==
  Resource({"name"}, {}, {"name"}, SecurityGroupRead, SecurityGroupCreate, <<>>, SecurityGroupDelete)

-----------------------------------------------------------------------------
(* cloudstack_vpn_gateway, _connection and _customer_gateway                    *)

VPNGatewayCreate == <<Make({"vpc_id"}), Reread>>
VPNGatewayRead == ReadById({"vpc_id"})
VPNGatewayDelete == <<Drop>>
VPNGateway == Resource({"vpc_id"}, {}, {"vpc_id"}, VPNGatewayRead, VPNGatewayCreate, <<>>, VPNGatewayDelete)

VPNConnectionCreate == <<Make({"vpn_gateway_id"}), Reread>>
VPNConnectionRead == ReadById({"vpn_gateway_id"})
VPNConnectionDelete == <<Drop>>
VPNConnection ==
  Resource({"vpn_gateway_id"}, {}, {"vpn_gateway_id"},
           VPNConnectionRead, VPNConnectionCreate, <<>>, VPNConnectionDelete)

\* Of `dpd', Unset is false, and 1 and 2 are true; of `esp_lifetime', which stands for
\* ike_lifetime, too, and for which CloudStack has a value of its own, Unset is 0.  Neither
\* false nor 0 is ever sent.
VPNCustomerGatewayCreate ==
  <<Keeping(Make({"gateway", "dpd", "esp_lifetime", "project"}), {"dpd", "esp_lifetime"}), Reread>>
VPNCustomerGatewayRead == ReadById({"gateway", "dpd", "esp_lifetime", "project"})
VPNCustomerGatewayUpdate ==
  <<Always(Keeping(WriteAll({"gateway", "dpd", "esp_lifetime"}), {"dpd", "esp_lifetime"})), Reread>>
VPNCustomerGatewayDelete == <<Drop>>
VPNCustomerGateway ==
  Starting("esp_lifetime",
    Resource({"gateway", "dpd", "esp_lifetime", "project"}, {"dpd", "esp_lifetime"}, {"project"},
             VPNCustomerGatewayRead, VPNCustomerGatewayCreate, VPNCustomerGatewayUpdate, VPNCustomerGatewayDelete))

NetworkingResources ==
  [network |-> Network, nic |-> NIC, ipaddress |-> IPAddress,
   secondary_ipaddress |-> SecondaryIPAddress, static_nat |-> StaticNAT,
   static_route |-> StaticRoute, vpc |-> VPC, private_gateway |-> PrivateGateway,
   loadbalancer |-> LoadBalancer, loadbalancer_rule |-> LoadBalancerRule,
   network_acl |-> NetworkACL, security_group |-> SecurityGroup, vpn_gateway |-> VPNGateway,
   vpn_connection |-> VPNConnection, vpn_customer_gateway |-> VPNCustomerGateway]
=============================================================================
