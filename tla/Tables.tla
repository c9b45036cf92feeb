------------------------------- MODULE Tables -------------------------------
(***************************************************************************)
(* The table pages of the workbench, one definition per configuration:     *)
(* the actions of the toolbar in the order of the source, with the URL     *)
(* (path parameters as in the routes), the constraints on the selected     *)
(* rows and the confirmation, and sample rows that the constraints tell    *)
(* apart.  Columns, texts and icons are left out.                          *)
(***************************************************************************)
EXTENDS TableActions

\* The actions most pages have: create, edit, delete.
Crud(path, edit) ==
  <<Link(path \o "/create"), RowLink(path \o "/edit/" \o edit), Delete>>

Unused(a)  == Fits(a, {Falsy("_used")})
Used       == [_used |-> On]
NotUsed    == [_used |-> Off]
UsedOrNot  == <<Used, NotUsed>>

-----------------------------------------------------------------------------
\* diagnostics
SystemInformation == Bare(Rows("SystemInformationDatatable", <<>>))

\* The rows of a log are loaded once one is chosen.
SystemLogs ==
  Searched(Manual(Selecting(
    Rows("SystemLogsList", <<Action("choose"), Action("download")>>),
    "none")), "remote")

-----------------------------------------------------------------------------
\* network
RuleActions(path) ==
  <<Action("saveRules"), Link(path \o "/create"),
    RowLink(path \o "/edit/:uuid"), OfRow(Action("up")),
    OfRow(Action("down")), [Action("remove") EXCEPT !.min = 1]>>

FirewallInet ==
  Ordered(Table("FirewallRuleInetDatatable", <<Plain, Plain, Plain>>,
                RuleActions("/network/firewall/rules/:family")))
FirewallInet6 ==
  Ordered(Rows("FirewallRuleInet6Datatable",
               RuleActions("/network/firewall/rules/:family")))

InterfaceTypes == {"ethernet", "wifi", "bond", "vlan", "bridge"}
Interfaces ==
  LET path == "/network/interfaces" IN
  Searched(
    Table("InterfaceDatatable", <<[type |-> V("ethernet")],
                                  [type |-> V("bond")]>>,
          <<Link(path \o "/ethernet/create"), Link(path \o "/wifi/create"),
            Link(path \o "/bond/create"), Link(path \o "/vlan/create"),
            Link(path \o "/bridge/create"),
            RowLinks({path \o "/" \o t \o "/edit/:uuid" :
                        t \in InterfaceTypes}),
            RowLink(path \o "/details/:devicename"),
            Fits(OfRow(Dialog), {Eq("type", "ethernet")}),
            Delete>>), "remote")

-----------------------------------------------------------------------------
\* services
NfsShares == Rows("NfsShareDatatable", Crud("/services/nfs/shares", ":uuid"))
SmbShares == Rows("SmbShareDatatable", Crud("/services/smb/shares", ":uuid"))
RsyncModules ==
  Rows("RsyncModuleDatatable", Crud("/services/rsync/server/modules", ":uuid"))

\* Mutant: the URL of the edit page is not the route's.
RsyncTasks_Mutant ==
  Rows("RsyncTaskDatatable",
       <<Link("/services/rsync/tasks/create"),
         RowLink("/services/rsync/tasks/:uuid"), OfRow(Dialog), Delete>>)
RsyncTasks ==
  Rows("RsyncTaskDatatable",
       <<Link("/services/rsync/tasks/create"),
         RowLink("/services/rsync/tasks/edit/:uuid"), OfRow(Dialog), Delete>>)

-----------------------------------------------------------------------------
\* storage: disks have no uuid, so a reload forgets which were selected
Disks ==
  Keyless(
    Table("DiskDatatable", <<[isroot |-> On, isreadonly |-> Off],
                             [isroot |-> Off, isreadonly |-> Off],
                             [isroot |-> Off, isreadonly |-> On]>>,
          <<RowLinks({"/storage/disks/hdparm/edit/:uuid",
                      "/storage/disks/hdparm/create/:devicefile"}),
            Fits(Bound(Confirmed(OfRow(Dialog))),
                 {Both(Falsy("isroot"), Falsy("isreadonly"))}),
            Confirmed(Request)>>))

FileSystemRows ==
  LET fs == [canonicaldevicefile |-> V("/dev/sda1"), mountpoint |-> V("/srv"),
             propfstab |-> On, propresize |-> On, propquota |-> On,
             mounted |-> On, _readonly |-> Off, _used |-> Off,
             status |-> V("1")]
  IN  <<fs, [fs EXCEPT !._used = On, !._readonly = On],
        [fs EXCEPT !.mountpoint = None, !.mounted = Off, !.status = V("2")]>>

FileSystems ==
  LET path     == "/storage/filesystems"
      writable == Falsy("_readonly")
      online   == Eq("status", "1")
  IN
  Ticking(Table("FilesystemDatatable", FileSystemRows,
    <<Link(path \o "/mount"),
      Fits(RowLink(path \o "/edit/:fsname"),
           {NotEmpty("canonicaldevicefile"), Truthy("propfstab")}),
      Fits(Confirmed(OfRow(Request)),
           {online, Truthy("propresize"), writable}),
      Fits(RowLink(path \o "/quota/:uuid"),
           {online, Truthy("propquota"), Truthy("mounted"), writable}),
      Fits(RowLink(path \o "/details/:devicefile"),
           {NotEmpty("canonicaldevicefile")}),
      Fits(Delete,
           {NotEmpty("mountpoint"), Implies(Has("_used"), Falsy("_used")),
            Implies(Has("_readonly"), writable), Ne("status", "2"),
            Truthy("propfstab")})>>))

FileSystemQuota ==
  Searched(Keyless(Rows("FilesystemQuotaDatatable",
    <<RowLink("/storage/filesystems/quota/:uuid/edit/:type/:name")>>)),
    "local")

SharedFolders ==
  LET path == "/storage/shared-folders" IN
  Searched(Table("SharedFolderDatatable",
    <<[_used |-> On, acl |-> On, snapshots |-> Off],
      [_used |-> Off, acl |-> Off, snapshots |-> On]>>,
    <<Link(path \o "/create"), RowLink(path \o "/edit/:uuid"),
      RowLink(path \o "/permissions/:uuid"),
      Fits(RowLink(path \o "/acl/:uuid"), {Truthy("acl")}),
      Fits(RowLink(path \o "/snapshots/:uuid"), {Truthy("snapshots")}),
      Unused(Delete), Link(path \o "/snapshots")>>), "remote")

\* The permission pages: the cells are edited in place, all rows are sent.
Permissions(page, url, actions) ==
  Searched(Selecting(Rows(page, actions \o <<Link(url), Saves(url)>>),
                     "none"), "local")

SharedFolderPermissions ==
  Permissions("SharedFolderPermissionsDatatable", "/storage/shared-folders",
              <<Dialog>>)

Back == Link("/storage/shared-folders")

Snapshots ==
  Table("SharedFolderSnapshotsTabs", UsedOrNot,
        <<Request, Unused(OfRow(Request)), Unused(Delete), Back>>)
SnapshotTasks ==
  Rows("SharedFolderSnapshotsTabs",
       <<Request, RowLink("/system/cron/edit/:uuid"), Delete, Back>>)
AllSnapshots ==
  Searched(Table("SharedFolderAllSnapshotsTabs", UsedOrNot,
                 <<Unused(OfRow(Request)), Unused(Delete), Back>>), "local")
AllSnapshotTasks ==
  Searched(Rows("SharedFolderAllSnapshotsTabs",
                <<RowLink("/system/cron/edit/:uuid"), Delete, Back>>), "local")

\* Every disk that is not monitored has the uuid of a new object.
SmartDevices ==
  LET path == "/storage/smart/devices" IN
  Keyed(Table("SmartDeviceDatatable", <<Plain, Plain, Plain>>,
              <<RowLinks({path \o "/create/:uuid/:devicefile",
                          path \o "/edit/:uuid/:devicefile"}),
                RowLink(path \o "/details/:devicefile")>>),
        <<"new", "new", "c">>)
SmartTasks ==
  Rows("SmartTaskDatatable",
       <<Link("/storage/smart/tasks/create"),
         RowLink("/storage/smart/tasks/edit/:uuid"), OfRow(Dialog), Delete>>)

-----------------------------------------------------------------------------
\* system
SshCertificates ==
  LET path == "/system/certificate/ssh" IN
  Rows("SshCertificateDatatable",
       <<Link(path \o "/create"), Link(path \o "/import"),
         RowLink(path \o "/edit/:uuid"), OfRow(Dialog), Delete>>)
SslCertificates ==
  LET path == "/system/certificate/ssl" IN
  Table("SslCertificateDatatable", UsedOrNot,
        <<Link(path \o "/create"), Link(path \o "/import"),
          RowLink(path \o "/detail/:uuid"), Unused(Delete)>>)
CronTasks ==
  Searched(Rows("CronTaskDatatable",
    <<Link("/system/cron/create"), RowLink("/system/cron/edit/:uuid"),
      OfRow(Dialog), Delete>>), "local")
PowerTasks ==
  Rows("PowermgmtTaskDatatable", Crud("/system/powermgmt/tasks", ":uuid"))

\* Packages have no uuid either.
Plugins ==
  LET install == Confirmed(Reboots(OfRow(Dialog))) IN
  Searched(Selecting(Keyless(
    Table("PluginsDatatable", <<[installed |-> On], [installed |-> Off]>>,
          <<Request, Fits(install, {Falsy("installed")}),
            Fits(install, {Truthy("installed")})>>)), "single"), "remote")
Updates ==
  Searched(Selecting(Keyless(
    Rows("UpdateDatatable",
         <<Request, WithData(Confirmed(Reboots(Dialog))),
           RowLink("/system/updatemgmt/updates/changelog/:filename")>>)),
    "single"), "local")

-----------------------------------------------------------------------------
\* user management
Accounts(page, path, rows, delete) ==
  Searched(Table(page, rows,
    <<Link(path \o "/create"), Link(path \o "/import"),
      RowLink(path \o "/edit/:name"), RowLink(path \o "/permissions/:name"),
      delete>>), "remote")

Groups ==
  Accounts("GroupDatatable", "/usermgmt/groups",
           <<[members |-> V("u")], [members |-> None]>>,
           Fits(Delete, {Empty("members")}))
Users ==
  Accounts("UserDatatable", "/usermgmt/users", <<Plain, Plain>>, Delete)
GroupPermissions ==
  Permissions("GroupSharedFolderPermissionsDatatable", "/usermgmt/groups",
              <<>>)
UserPermissions ==
  Permissions("UserSharedFolderPermissionsDatatable", "/usermgmt/users", <<>>)
=============================================================================
