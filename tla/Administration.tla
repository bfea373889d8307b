--------------------------- MODULE Administration ---------------------------
(***************************************************************************)
(* Offerings, tariffs, settings, and who may use the cloud.  As in         *)
(* Compute, an attribute may stand for others that are treated alike.      *)
(***************************************************************************)
EXTENDS Steps

(* The offerings.  Those of services and of networks are read by their name.     *)

DiskOfferingCreate == <<Make({"name", "tags", "disk_size"}), Reread>>
DiskOfferingRead == ReadById({"name", "tags", "disk_size"})
DiskOfferingUpdate == <<WriteAll({"name", "tags"}), Reread>>
DiskOfferingDelete == <<DropExisting>>
DiskOffering ==
  Resource({"name", "tags", "disk_size"}, {"tags"}, {"disk_size"},
           DiskOfferingRead, DiskOfferingCreate, DiskOfferingUpdate, DiskOfferingDelete)

\* `host_tags' stands for storage_tags.  A new display text is sent as the name.
ServiceOfferingCreate == <<Make({"name", "display_text", "host_tags", "cpu_number"}), Reread>>
ServiceOfferingRead == ReadByName({"name", "display_text", "host_tags", "cpu_number"})
ServiceOfferingUpdate == <<Write({"name"}), Rename("display_text"), Write({"host_tags"}), Reread>>
ServiceOfferingDelete == <<DropExisting>>
ServiceOffering ==
  Resource({"name", "display_text", "host_tags", "cpu_number"}, {"host_tags", "cpu_number"}, {"cpu_number"},
           ServiceOfferingRead, ServiceOfferingCreate, ServiceOfferingUpdate, ServiceOfferingDelete)

SystemServiceOfferingCreate == <<Make({"name", "host_tags", "memory"}), Reread>>
SystemServiceOfferingRead == ReadById({"name", "host_tags", "memory"})
SystemServiceOfferingUpdate == <<Write({"name", "host_tags"}), Reread>>
SystemServiceOfferingDelete == <<DropExisting>>
SystemServiceOffering ==
  Resource({"name", "host_tags", "memory"}, {"host_tags"}, {"memory"}, SystemServiceOfferingRead,
           SystemServiceOfferingCreate, SystemServiceOfferingUpdate, SystemServiceOfferingDelete)

\* `conserve_mode' stands for what replaces the offering and is read if it is set.
NetworkOfferingCreate ==
  <<Make({"name", "display_text", "guest_ip_type", "conserve_mode"}), Reread>>
NetworkOfferingRead ==
  Reading("name", "forget", {"name", "display_text", "guest_ip_type"}, {"conserve_mode"}, {})
NetworkOfferingUpdate == <<Write({"name"}), Write({"display_text"}), Reread>>
NetworkOfferingDelete == <<DropExisting>>
NetworkOffering ==
  Resource({"name", "display_text", "guest_ip_type", "conserve_mode"}, {"conserve_mode"}, {"conserve_mode"},
           NetworkOfferingRead, NetworkOfferingCreate, NetworkOfferingUpdate, NetworkOfferingDelete)

VPCOfferingCreate == <<Make({"name", "enable", "zone_id"}), Reread>>
VPCOfferingRead == Reading("id", "forget", {"name", "enable"}, {}, {"zone_id"})
VPCOfferingUpdate == <<Write({"name"}), Write({"enable"}), Reread>>
VPCOfferingDelete == <<DropExisting>>
VPCOffering ==
  Resource({"name", "enable", "zone_id"}, {"enable", "zone_id"}, {"zone_id"},
           VPCOfferingRead, VPCOfferingCreate, VPCOfferingUpdate, VPCOfferingDelete)

-----------------------------------------------------------------------------
(* cloudstack_quota_tariff: read by its name and type, and updated under its     *)
(* name.  `description' stands for the value, the end and the rule.            *)

QuotaTariffCreate == <<Make({"name", "description", "start_date"}), Reread>>
QuotaTariffRead == ReadByName({"name", "description"})
QuotaTariffUpdate == <<Always(Write({"description", "start_date"})), Reread>>
QuotaTariffDelete == <<DropExisting>>
QuotaTariff ==
  Resource({"name", "description", "start_date"}, {"description"}, {"name"},
           QuotaTariffRead, QuotaTariffCreate, QuotaTariffUpdate, QuotaTariffDelete)

-----------------------------------------------------------------------------
(* cloudstack_configuration: the setting was always there.  Create calls Update   *)
(* and does not look at its error.                                            *)

ConfigurationCreate == <<Adopt, ErrorDropped(WriteAll({"value"})), ErrorDropped(Reread)>>
ConfigurationRead == ReadByIdStrictly({"value"})
ConfigurationUpdate == <<Always(Keeping(WriteAll({"value"}), {"value"})), ErrorDropped(Reread)>>
ConfigurationDelete == <<Reset("value")>>
Configuration ==
  Resource({"value"}, {"value"}, {}, ConfigurationRead,
           ConfigurationCreate, ConfigurationUpdate, ConfigurationDelete)

-----------------------------------------------------------------------------
(* cloudstack_domain, _account and _user: Read and Update do nothing, although    *)
(* everything may be edited.                                                  *)

DomainCreate == <<Make({"network_domain"})>>
DomainRead == ReadNothing
DomainUpdate == <<>>
DomainDelete == <<DropExisting>>
Domain ==
  Resource({"network_domain"}, {"network_domain"}, {},
           DomainRead, DomainCreate, DomainUpdate, DomainDelete)

AccountCreate == <<Make({"email"})>>
AccountRead == ReadNothing
AccountUpdate == <<>>
AccountDelete == <<DropExisting>>
Account == Resource({"email"}, {}, {}, AccountRead, AccountCreate, AccountUpdate, AccountDelete)

UserCreate == <<Make({"email"}), Reread>>
UserRead == ReadNothing
UserUpdate == <<Reread>>
UserDelete == <<DropExisting>>
User == Resource({"email"}, {}, {}, UserRead, UserCreate, UserUpdate, UserDelete)

-----------------------------------------------------------------------------
(* cloudstack_role                                                         *)

RoleCreate == <<Make({"name", "role_id"}), Reread>>
RoleRead == ReadById({"name"})
RoleUpdate == <<Always(Write({"name"})), Reread>>
RoleDelete == <<DropExisting>>
Role ==
  Resource({"name", "role_id"}, {"role_id"}, {"role_id"}, RoleRead, RoleCreate, RoleUpdate, RoleDelete)

-----------------------------------------------------------------------------
(* cloudstack_project.  Create and Update wait for the project to show, and only   *)
(* log it if it does not.  `account' stands for the account's and the user's id; Update  *)
(* goes on without it when it cannot look its name up.  Only with a domain   *)
(* is a project of the name looked for first, and taken over; what replaces the *)
(* project is that domain, which is left out.                                 *)

ProjectCreate == <<Make({"name", "display_text", "account"}), Reread>>
ProjectInDomainCreate ==
  <<FindNamed, IfUnknown(Make({"name", "display_text", "account"})), Reread>>
ProjectRead == ReadByIdOrName({"name", "display_text"}, {"account"})
ProjectUpdate ==
  <<Write({"name", "display_text"}), Guessing(Write({"account"}), {"account"}), Reread>>
ProjectDelete == <<Refind, Drop>>
ProjectMade(create) ==
  Resource({"name", "display_text", "account"}, {}, {}, ProjectRead, create, ProjectUpdate, ProjectDelete)
Project == ProjectMade(ProjectCreate)
ProjectInDomain == ProjectMade(ProjectInDomainCreate)

-----------------------------------------------------------------------------
(* The service offerings of the provider's other half, the Plugin Framework.     *)
(* `name' stands for the display text, `host_tags' for the domains, `network_rate'  *)
(* for the deployment planner and the disk offering, `offer_ha' for the other     *)
(* Booleans, `disk_storage' for the three blocks, of which Read makes nothing.    *)

OfferingAttrs == {"name", "host_tags", "network_rate", "offer_ha", "disk_storage"}
OfferingCreate(own) == <<Make(OfferingAttrs \cup own)>>
OfferingRead(own) == Reading("id", "fail", {"offer_ha"}, {}, {"name", "host_tags", "network_rate"} \cup own)
OfferingUpdate ==
  <<Answering(Always(Keeping(WriteAll({"name", "host_tags"}), {"host_tags"})), {"name", "host_tags"})>>
OfferingDelete == <<DropExisting>>

\* `own' are the attributes of one kind only, all of which replace the offering.
Offering(own) ==
  Framework(Resource(OfferingAttrs \cup own, {"host_tags", "network_rate", "disk_storage"},
                     {"offer_ha", "disk_storage"} \cup own,
                     OfferingRead(own), OfferingCreate(own), OfferingUpdate, OfferingDelete))
ServiceOfferingFixed == Offering({"cpu_number"})
ServiceOfferingConstrained == Offering({"max_memory"})
ServiceOfferingUnconstrained == Offering({})

AdministrationResources ==
  [disk_offering |-> DiskOffering, service_offering |-> ServiceOffering,
   system_service_offering |-> SystemServiceOffering, network_offering |-> NetworkOffering,
   vpc_offering |-> VPCOffering, quota_tariff |-> QuotaTariff, configuration |-> Configuration,
   domain |-> Domain, account |-> Account, user |-> User, role |-> Role,
   project |-> Project, project_in_domain |-> ProjectInDomain,
   service_offering_fixed |-> ServiceOfferingFixed, service_offering_constrained |-> ServiceOfferingConstrained,
   service_offering_unconstrained |-> ServiceOfferingUnconstrained]
=============================================================================
