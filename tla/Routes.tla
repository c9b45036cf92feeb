------------------------------- MODULE Routes -------------------------------
(***************************************************************************)
(* The routes of the workbench: which URL shows which page, whether a form *)
(* page is opened to create an object or to edit one, and whether leaving  *)
(* it is guarded (canDeactivate: IsDirtyGuardService).  Path parameters    *)
(* are written as in the source; a URL no route matches leads to /404.     *)
(***************************************************************************)
EXTENDS Sequences

Route(url, page, form, editing) ==
  [url |-> url, page |-> page, form |-> form, editing |-> editing,
   guarded |-> form, to |-> "", session |-> TRUE]

Shows(url, page)   == Route(url, page, FALSE, FALSE)
Edits(url, page)   == Route(url, page, TRUE, TRUE)
Creates(url, page) == Route(url, page, TRUE, FALSE)
Menu(url)          == Shows(url, "Navigation")
Redirect(url, to)  == [Shows(url, "") EXCEPT !.to = to]

Unguarded(route) == [route EXCEPT !.guarded = FALSE]
Guarded(route)   == [route EXCEPT !.guarded = TRUE]
Public(route)    == [route EXCEPT !.session = FALSE]

\* The children of a path.
Under(path, routes) == {[r EXCEPT !.url = path \o @] : r \in routes}

AppRoutes ==
  {Menu("/"), Public(Shows("/about", "About")),
   Public(Shows("/login", "Login")), Public(Shows("/standby", "Standby")),
   Public(Shows("/shutdown", "Shutdown")),
   Public(Shows("/externalRedirect/:url", "Blank")),
   Public(Shows("/reload", "Blank")), Public(Shows("/download", "Blank")),
   Public(Shows("/guruMeditation", "GuruMeditation")),
   Public(Shows("/404", "GuruMeditation")),
   Public(Shows("/503", "GuruMeditation")), Public(Shows("/logout", ""))}

AccountRoutes ==
  Under("/account",
    {Menu(""), Edits("/password", "AccountPasswordForm"),
     Edits("/settings", "AccountSettingsForm")})

DashboardRoutes ==
  Under("/dashboard",
    {Shows("", "Dashboard"), Guarded(Shows("/settings", "DashboardSettings"))})

DiagnosticsRoutes ==
  Under("/diagnostics",
    {Menu(""), Shows("/system-information", "SystemInformationDatatable"),
     Unguarded(Edits("/processes", "ProcessesForm")),
     Shows("/report", "ReportText")})
  \union Under("/diagnostics/system-logs",
    {Menu(""), Shows("/logs", "SystemLogsList"),
     Edits("/remote", "SystemLogsRemoteForm")})
  \union Under("/diagnostics/performance-statistics",
    {Menu(""), Shows("/cpu", "PerformanceStatisticCpuRrd"),
     Shows("/df", "PerformanceStatisticDfRrd"),
     Shows("/load", "PerformanceStatisticLoadRrd"),
     Shows("/memory", "PerformanceStatisticMemoryRrd"),
     Shows("/network-interfaces", "PerformanceStatisticNetworkRrd"),
     Shows("/uptime", "PerformanceStatisticUptimeRrd")})
  \union Under("/diagnostics/services",
    {Menu(""), Shows("/nfs", "ServiceNfsText"),
     Shows("/smb", "ServiceSmbText"), Shows("/ssh", "ServiceSshText")})

NetworkRoutes ==
  Under("/network",
    {Menu(""), Edits("/general", "GeneralNetworkForm"),
     Edits("/proxy", "ProxyForm")})
  \union Under("/network/interfaces",
    {Shows("", "InterfaceDatatable"),
     Unguarded(Edits("/details/:devicename", "InterfaceDetailsForm")),
     Creates("/ethernet/create", "InterfaceEthernetForm"),
     Edits("/ethernet/edit/:uuid", "InterfaceEthernetForm"),
     Creates("/wifi/create", "InterfaceWifiForm"),
     Edits("/wifi/edit/:uuid", "InterfaceWifiForm"),
     Creates("/bond/create", "InterfaceBondForm"),
     Edits("/bond/edit/:uuid", "InterfaceBondForm"),
     Creates("/vlan/create", "InterfaceVlanForm"),
     Edits("/vlan/edit/:uuid", "InterfaceVlanForm"),
     Creates("/bridge/create", "InterfaceBridgeForm"),
     Edits("/bridge/edit/:uuid", "InterfaceBridgeForm")})

FirewallRoutes ==
  Under("/network/firewall",
    {Menu("")})
  \union Under("/network/firewall/rules",
    {Redirect("", "/network/firewall/rules/inet"),
     Guarded(Shows("/inet", "FirewallRuleInetDatatable")),
     Guarded(Shows("/inet6", "FirewallRuleInet6Datatable")),
     Creates("/:family/create", "FirewallRuleForm"),
     Edits("/:family/edit/:uuid", "FirewallRuleForm")})

RsyncRoutes ==
  Under("/services",
    {Menu(""), Edits("/ssh", "SshForm")})
  \union Under("/services/rsync",
    {Menu(""), Shows("/tasks", "RsyncTaskDatatable"),
     Creates("/tasks/create", "RsyncTaskForm"),
     Edits("/tasks/edit/:uuid", "RsyncTaskForm")})
  \union Under("/services/rsync/server",
    {Menu(""), Edits("/settings", "RsyncModuleSettingsForm"),
     Shows("/modules", "RsyncModuleDatatable"),
     Creates("/modules/create", "RsyncModuleForm"),
     Edits("/modules/edit/:uuid", "RsyncModuleForm")})

SharingRoutes ==
  Under("/services/smb",
    {Menu(""), Unguarded(Edits("/settings", "SmbSettingsForm")),
     Shows("/shares", "SmbShareDatatable"),
     Creates("/shares/create", "SmbShareForm"),
     Edits("/shares/edit/:uuid", "SmbShareForm")})
  \union Under("/services/nfs",
    {Menu(""), Edits("/settings", "NfsSettingsForm"),
     Shows("/shares", "NfsShareDatatable"),
     Creates("/shares/create", "NfsShareForm"),
     Edits("/shares/edit/:uuid", "NfsShareForm")})

DeviceRoutes ==
  Under("/storage",
    {Menu("")})
  \union Under("/storage/disks",
    {Shows("", "DiskDatatable"),
     Creates("/hdparm/create/:devicefile", "DiskForm"),
     Edits("/hdparm/edit/:uuid", "DiskForm")})
  \union Under("/storage/smart",
    {Menu(""), Edits("/settings", "SmartSettingsForm"),
     Shows("/tasks", "SmartTaskDatatable"),
     Creates("/tasks/create", "SmartTaskForm"),
     Edits("/tasks/edit/:uuid", "SmartTaskForm")})
  \union Under("/storage/smart/devices",
    {Shows("", "SmartDeviceDatatable"),
     Shows("/details/:devicefile", "SmartDeviceDetailsTabs"),
     Creates("/create/:uuid/:devicefile", "SmartDeviceForm"),
     Edits("/edit/:uuid/:devicefile", "SmartDeviceForm")})

FolderRoutes ==
  Under("/storage/shared-folders",
    {Shows("", "SharedFolderDatatable"),
     Creates("/create", "SharedFolderForm"),
     Edits("/edit/:uuid", "SharedFolderForm"),
     Shows("/permissions/:uuid", "SharedFolderPermissionsDatatable"),
     Edits("/acl/:uuid", "SharedFolderAclForm"),
     Shows("/snapshots", "SharedFolderAllSnapshotsTabs"),
     Shows("/snapshots/:uuid", "SharedFolderSnapshotsTabs")})
  \union Under("/storage/filesystems",
    {Shows("", "FilesystemDatatable"),
     Creates("/mount", "FilesystemMountForm"),
     Edits("/edit/:fsname", "FilesystemEditForm"),
     Shows("/quota/:uuid", "FilesystemQuotaDatatable"),
     Edits("/quota/:uuid/edit/:type/:name", "FilesystemQuotaForm"),
     Shows("/details/:devicefile", "FilesystemDetailsText")})

SettingsRoutes ==
  Under("/system",
    {Menu(""), Menu("/workbench"),
     Edits("/workbench/settings", "WorkbenchSettingsForm"),
     Edits("/monitoring", "MonitoringForm"),
     Edits("/date-time", "DateTimeForm")})
  \union Under("/system/certificate",
    {Menu("")})
  \union Under("/system/certificate/ssl",
    {Shows("", "SslCertificateDatatable"),
     Creates("/create", "SslCertificateForm"),
     Shows("/detail/:uuid", "SslCertificateDetailsText"),
     Creates("/import", "SslCertificateImportForm")})
  \union Under("/system/certificate/ssh",
    {Shows("", "SshCertificateDatatable"),
     Creates("/create", "SshCertificateCreateForm"),
     Edits("/edit/:uuid", "SshCertificateEditForm"),
     Creates("/import", "SshCertificateImportForm")})
  \union Under("/system/notification",
    {Menu(""), Edits("/settings", "NotificationSettingsForm"),
     Guarded(Shows("/events", "NotificationSelectionList"))})

JobRoutes ==
  Under("/system/powermgmt",
    {Menu(""), Edits("/settings", "PowermgmtSettingsForm"),
     Shows("/tasks", "PowermgmtTaskDatatable"),
     Creates("/tasks/create", "PowermgmtTaskForm"),
     Edits("/tasks/edit/:uuid", "PowermgmtTaskForm")})
  \union Under("/system/cron",
    {Shows("", "CronTaskDatatable"), Creates("/create", "CronTaskForm"),
     Edits("/edit/:uuid", "CronTaskForm")})
  \union Under("/system/updatemgmt",
    {Menu(""), Shows("/updates", "UpdateDatatable"),
     Shows("/updates/changelog/:filename", "UpdateChangelogText"),
     Menu("/settings"),
     Edits("/settings/software", "UpdateSettingsSoftwareForm"),
     Edits("/settings/updates", "UpdateSettingsUpdatesForm")})
  \union Under("/system",
    {Shows("/plugins", "PluginsDatatable")})

UsermgmtRoutes ==
  Under("/usermgmt",
    {Menu(""), Edits("/settings", "UserSettingsForm")})
  \union Under("/usermgmt/users",
    {Shows("", "UserDatatable"), Creates("/create", "UserForm"),
     Creates("/import", "UserImportForm"), Edits("/edit/:name", "UserForm"),
     Shows("/permissions/:name", "UserSharedFolderPermissionsDatatable")})
  \union Under("/usermgmt/groups",
    {Shows("", "GroupDatatable"), Creates("/create", "GroupForm"),
     Creates("/import", "GroupImportForm"), Edits("/edit/:name", "GroupForm"),
     Shows("/permissions/:name", "GroupSharedFolderPermissionsDatatable")})

AllRoutes ==
  UNION {AppRoutes, AccountRoutes, DashboardRoutes, DiagnosticsRoutes,
         NetworkRoutes, FirewallRoutes, RsyncRoutes, SharingRoutes,
         DeviceRoutes, FolderRoutes, SettingsRoutes, JobRoutes,
         UsermgmtRoutes}
=============================================================================
