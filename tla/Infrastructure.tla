--------------------------- MODULE Infrastructure ---------------------------
(***************************************************************************)
(* What an administrator sets up: zones, pods, clusters, hosts, networks   *)
(* and storage.  As in Compute, an attribute may stand for others that are *)
(* treated alike.                                                          *)
(***************************************************************************)
EXTENDS Steps

(* cloudstack_zone.  Every Update sends all there is; `dns2' stands for the       *)
(* optional ones, `domain_id' for what replaces the zone.                      *)

ZoneCreate == <<Make({"name", "dns2", "domain_id"}), Reread>>
ZoneRead == ReadByIdStrictly({"name", "dns2", "domain_id"})
ZoneUpdate == <<Always(WriteAll({"name", "dns2"})), Reread>>
ZoneDelete == <<DropExisting>>
Zone ==
  Resource({"name", "dns2", "domain_id"}, {"domain_id"}, {"domain_id"},
           ZoneRead, ZoneCreate, ZoneUpdate, ZoneDelete)

-----------------------------------------------------------------------------
(* cloudstack_pod and cloudstack_cluster can move to another zone in the          *)
(* configuration, but not in CloudStack.                                      *)

PodCreate == <<Make({"name", "allocation_state", "zone_id"}), Reread>>
PodRead == ReadByIdStrictly({"name", "allocation_state", "zone_id"})
PodUpdate == <<Always(Keeping(WriteAll({"name", "allocation_state"}), {"allocation_state"})), Reread>>
PodDelete == <<DropExisting>>
Pod ==
  Resource({"name", "allocation_state", "zone_id"}, {"allocation_state"}, {},
           PodRead, PodCreate, PodUpdate, PodDelete)

ClusterCreate == <<Make({"cluster_name", "zone_id", "ovm3_vip", "url"}), Reread>>
ClusterRead == ReadByIdStrictly({"cluster_name", "zone_id", "ovm3_vip"})
ClusterUpdate == <<Always(WriteAll({"cluster_name"})), Reread>>
ClusterDelete == <<DropExisting>>
Cluster ==
  Resource({"cluster_name", "zone_id", "ovm3_vip", "url"}, {"ovm3_vip", "url"}, {"ovm3_vip", "url"},
           ClusterRead, ClusterCreate, ClusterUpdate, ClusterDelete)

-----------------------------------------------------------------------------
(* cloudstack_host.  Create asks again and again until a time limit, Update      *)
(* prepares a call that it does not make, and Delete puts the host into        *)
(* maintenance first.  `password' stands for the user name; the tags, at which   *)
(* Create panics, are left out.  `pod_id' stands for the zone and the hypervisor;   *)
(* the url is never read.  Of `allocation_state', which Read overwrites and nothing  *)
(* sends, 1 is "Enabled"; `prevent_destroy' is a Boolean.                         *)

HostCreate == <<Retried(MakeUnique({"url", "pod_id", "password"}, {"url"}), 2), Reread>>
HostRead == ReadById({"pod_id", "allocation_state"})
HostUpdate == <<Reread>>
HostDelete == <<Refuse("prevent_destroy", {True}), TurnOff({}), Reread, Check({}), DropExisting>>
Host ==
  Starting("allocation_state",
    Resource({"url", "pod_id", "password", "allocation_state", "prevent_destroy"}, {"password"},
             {"url", "pod_id"}, HostRead, HostCreate, HostUpdate, HostDelete))

-----------------------------------------------------------------------------
(* cloudstack_physical_network and cloudstack_traffic_type                       *)

PhysicalNetworkCreate == <<Make({"name", "domain_id", "vlan"}), Reread>>
PhysicalNetworkRead == ReadByIdStrictly({"name", "domain_id", "vlan"})
PhysicalNetworkUpdate == <<Always(Keeping(WriteAll({"vlan"}), {"vlan"})), Reread>>
PhysicalNetworkDelete == <<DropExisting>>
PhysicalNetwork ==
  Resource({"name", "domain_id", "vlan"}, {"domain_id", "vlan"}, {"name", "domain_id"},
           PhysicalNetworkRead, PhysicalNetworkCreate, PhysicalNetworkUpdate, PhysicalNetworkDelete)

TrafficTypeCreate == <<Make({"traffic_type", "kvm_network_label", "vlan"}), Reread>>
TrafficTypeRead == ReadById({"traffic_type"})
TrafficTypeUpdate == <<Always(Write({"kvm_network_label"})), Reread>>
TrafficTypeDelete == <<Drop>>
TrafficType ==
  Resource({"traffic_type", "kvm_network_label", "vlan"}, {"kvm_network_label", "vlan"}, {"traffic_type"},
           TrafficTypeRead, TrafficTypeCreate, TrafficTypeUpdate, TrafficTypeDelete)

-----------------------------------------------------------------------------
(* cloudstack_storage_pool: `state' 1 is "Up" and 2 is "Disabled".  Maintenance,     *)
(* for which there is a call of its own, is left out.                          *)

StoragePoolCreate == <<Make({"name", "scope", "url"}), Reread>>
StoragePoolRead == ReadByIdStrictly({"name", "scope", "state"})
StoragePoolUpdate == <<Always(WriteAll({"name", "state"})), Reread>>
StoragePoolDelete == <<DropExisting>>
StoragePool ==
  Starting("state",
    Resource({"name", "scope", "url", "state"}, {"scope"}, {"scope", "url"},
             StoragePoolRead, StoragePoolCreate, StoragePoolUpdate, StoragePoolDelete))

SecondaryStorageCreate == <<Make({"name"}), Reread>>
SecondaryStorageRead == ReadByIdStrictly({"name"})
SecondaryStorageDelete == <<DropExisting>>
SecondaryStorage ==
  Resource({"name"}, {}, {"name"}, SecondaryStorageRead, SecondaryStorageCreate, <<>>, SecondaryStorageDelete)

-----------------------------------------------------------------------------
(* cloudstack_storage_network_ip_range and cloudstack_vlan_ip_range              *)

StorageNetworkIpRangeCreate == <<Make({"gateway", "vlan"}), Reread>>
StorageNetworkIpRangeRead == ReadById({"gateway", "vlan"})
StorageNetworkIpRangeUpdate == <<Always(Write({"vlan"})), Reread>>
StorageNetworkIpRangeDelete == <<DropExisting>>
StorageNetworkIpRange ==
  Resource({"gateway", "vlan"}, {"vlan"}, {"gateway"}, StorageNetworkIpRangeRead,
           StorageNetworkIpRangeCreate, StorageNetworkIpRangeUpdate, StorageNetworkIpRangeDelete)

VlanIpRangeCreate == <<Make({"zone_id", "end_ip"}), Reread>>
VlanIpRangeRead == ReadByIdStrictly({"zone_id", "end_ip"})
VlanIpRangeUpdate == <<Always(Keeping(WriteAll({"end_ip"}), {"end_ip"})), Reread>>
VlanIpRangeDelete == <<DropExisting>>
VlanIpRange ==
  Resource({"zone_id", "end_ip"}, {"zone_id", "end_ip"}, {"zone_id"},
           VlanIpRangeRead, VlanIpRangeCreate, VlanIpRangeUpdate, VlanIpRangeDelete)

-----------------------------------------------------------------------------
(* cloudstack_network_service_provider: one that is there already is taken over   *)
(* and given what is configured; a new one is not given its state, of which 1   *)
(* is "Disabled" and 2 "Enabled".  SecurityGroupProvider, whose services are     *)
(* not managed, is left out.                                                  *)

NetworkServiceProviderCreate ==
  <<FindNamed, IfKnown(Write({"service_list", "state"})),
    IfUnknown(MakeUnique({"name", "service_list"}, {"name"})), Reread>>
NetworkServiceProviderRead == Reading("id", "forget", {"name", "state"}, {}, {"service_list"})
NetworkServiceProviderUpdate == <<Keeping(Write({"service_list", "state"}), {"service_list"}), Reread>>
NetworkServiceProviderDelete == <<Drop>>
NetworkServiceProvider ==
  Starting("state",
    Resource({"name", "service_list", "state"}, {"service_list"}, {"name"}, NetworkServiceProviderRead,
             NetworkServiceProviderCreate, NetworkServiceProviderUpdate, NetworkServiceProviderDelete))

(* cloudstack_network_service_provider_state: of `enabled', 1 is true and 2 is false.  *)
(* Create is Update, and the id comes with its Read.  Another name, which would be *)
(* another provider, is left out.                                              *)

NetworkServiceProviderStateCreate == <<AdoptUnknown, Check({}), WriteAll({"enabled"}), Reread>>
NetworkServiceProviderStateRead == ReadByIdStrictly({"enabled"})
NetworkServiceProviderStateUpdate == <<Check({}), WriteAll({"enabled"}), Reread>>
NetworkServiceProviderStateDelete == <<Disable("enabled")>>
NetworkServiceProviderState ==
  Resource({"enabled"}, {}, {}, NetworkServiceProviderStateRead, NetworkServiceProviderStateCreate,
           NetworkServiceProviderStateUpdate, NetworkServiceProviderStateDelete)

InfrastructureResources ==
  [zone |-> Zone, pod |-> Pod, cluster |-> Cluster, host |-> Host,
   physical_network |-> PhysicalNetwork, traffic_type |-> TrafficType,
   storage_pool |-> StoragePool, secondary_storage |-> SecondaryStorage,
   storage_network_ip_range |-> StorageNetworkIpRange, vlan_ip_range |-> VlanIpRange,
   network_service_provider |-> NetworkServiceProvider,
   network_service_provider_state |-> NetworkServiceProviderState]
=============================================================================
