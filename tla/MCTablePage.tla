---------------------------- MODULE MCTablePage ----------------------------
(* The table pages of the workbench with their routes, and two samples of  *)
(* the tree mode, which no page of the workbench itself uses: one loads    *)
(* the children of a row when it is expanded, for the other the backend    *)
(* always answers with the whole tree.                                     *)
EXTENDS TablePage, ConstraintService, Tables, Routes

Row == <<Plain, Plain, Plain, Plain>>
Parents == <<"", "a", "a", "c">>
TreeTables ==
  LET tree == Selecting(Table("Tree", Row, <<>>), "single") IN
  [LazyTree  |-> Searched(Tree(tree, "lazy", Parents), "remote"),
   WholeTree |-> Tree(tree, "whole", Parents)]

TablePages ==
  [FirewallInet6 |-> FirewallInet6, FirewallInet |-> FirewallInet,
   SystemInformation |-> SystemInformation, SystemLogs |-> SystemLogs,
   Interfaces |-> Interfaces, NfsShares |-> NfsShares,
   SmbShares |-> SmbShares, RsyncModules |-> RsyncModules,
   RsyncTasks |-> RsyncTasks, Disks |-> Disks, FileSystems |-> FileSystems,
   FileSystemQuota |-> FileSystemQuota, SharedFolders |-> SharedFolders,
   SharedFolderPermissions |-> SharedFolderPermissions,
   Snapshots |-> Snapshots, SnapshotTasks |-> SnapshotTasks,
   AllSnapshots |-> AllSnapshots, AllSnapshotTasks |-> AllSnapshotTasks,
   SmartTasks |-> SmartTasks, SshCertificates |-> SshCertificates,
   SslCertificates |-> SslCertificates, CronTasks |-> CronTasks,
   PowerTasks |-> PowerTasks, Plugins |-> Plugins, Updates |-> Updates,
   Groups |-> Groups, Users |-> Users, GroupPermissions |-> GroupPermissions,
   UserPermissions |-> UserPermissions] @@ TreeTables

\* What the theorems about selected rows presuppose is true of all of these
\* tables.  (SmartDevices is not among them.)
ASSUME KeysAssumption == KeysIdentify

\* The rules of the firewall alone.
FirewallPage == [FirewallInet |-> FirewallInet]

TableRoutes == AllRoutes \union {Shows("/tree", "Tree")}
=============================================================================
