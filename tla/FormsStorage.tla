---------------------------- MODULE FormsStorage ----------------------------
(***************************************************************************)
(* The form pages under workbench/src/app/pages, storage: disks, file      *)
(* systems, shared folders, S.M.A.R.T..  Each definition holds the fields  *)
(* of a part of one page, in their order, and a page ends with its submit  *)
(* and cancel URLs.  Path parameters of a URL are written as in the routes.*)
(***************************************************************************)
EXTENDS FormFields

Named == TextOf(<<"name">>, Always)

DiskPower ==
  <<ConfObjUuid,
    Reference("devicefile") & FromRoute & Disabled,
    Select("apm", "0", {"0", "other"}), Select("aam", "0", {"0", "other"})>>

DiskSpindown ==
  <<Select("spindowntime", "0", {"0", "other"}),
    Checkbox("writecache", Off)>>

DiskForm ==
  Page("getHdParm", "setHdParm",
       DiskPower \o DiskSpindown,
       "/storage/disks", "/storage/disks")

FilesystemEditForm ==
  Page("getByFsName", "set",
       <<ConfObjUuid, Hidden("fsname", None), Hidden("dir", None),
         Hidden("type", None), Hidden("opts", None), Hidden("freq", None),
         Hidden("passno", None), Hidden("hidden", None),
         Text("devicefile", None) & FromRoute & Disabled & NotSubmitted,
         Select("usagewarnthreshold", "85", {"85", "other"}) & Required,
         Text("comment", None)>>,
       "/storage/filesystems", "/storage/filesystems")

FilesystemMountForm ==
  Page("", "setMountPoint",
       <<Reference("id") & Required,
         Select("usagewarnthreshold", "85", {"85", "other"}) & Required,
         Text("comment", None)>>,
       "/storage/filesystems", "/storage/filesystems")

FilesystemQuotaForm ==
  Page("getByTypeName", "setByTypeName",
       <<Shown("type"), Shown("name"),
         Number("bhardlimit", "0") & Checked & Required,
         Select("bunit", "GiB", {"GiB", "other"}) & Required>>,
       "/storage/filesystems/quota/:uuid",
       "/storage/filesystems/quota/:uuid")

AclTarget ==
  <<Reference("uuid") & FromRoute & Disabled,
    Text("file", V("/")) & ReadOnly,
    Checkbox("replace", On), Checkbox("recursive", Off)>>

AclOwner ==
  <<Select("owner", "root", {"root", "other"}),
    Select("userperms", "7", {"7", "other"}),
    Select("group", "users", {"users", "other"}),
    Select("groupperms", "7", {"7", "other"}),
    Select("otherperms", "0", {"0", "other"})>>

AclEntries ==
  <<Multi("perms", None, Rows)>>

SharedFolderAclForm ==
  [Page("getFileACL", "setFileACL",
       AclTarget \o AclOwner \o AclEntries,
       "", "/storage/shared-folders") EXCEPT
      !.custom = TRUE]

SharedFolderForm ==
  Page("get", "set",
       <<ConfObjUuid,
         Text("name", None) & Checked & Required
           & DisabledIf(Ne("uuid", "new")),
         Reference("mntentref") & Required,
         Text("reldirpath", None) & Required
           & ValueIf(Both(NotEmpty("name"), Empty("reldirpath")), Named),
         Select("mode", "775", {"775", "other"}) & Required
           & VisibleIf(Eq("uuid", "new")),
         Text("comment", None)>>,
       "/storage/shared-folders", "/storage/shared-folders")

SmartDeviceForm ==
  [Page("getDeviceSettings", "setDeviceSettings",
       <<ConfObjUuid, Hidden("_used", None),
         Reference("devicefile") & FromRoute & Disabled,
         Checkbox("enable", Off) & DisabledIf(Truthy("_used")),
         Select("tempdiff", "0", {"0", "other"}) & Required,
         Select("tempmax", "0", {"0", "other"}) & Required>>,
       "/storage/smart/devices", "/storage/smart/devices") EXCEPT
      !.samples = {[_used |-> Off], [_used |-> On, enable |-> On]}]

SmartSettingsForm ==
  Page("getSettings", "setSettings",
       <<Checkbox("enable", Off),
         Number("interval", "1800") & Checked & Required,
         Select("powermode", "standby", {"standby", "other"}),
         Select("tempdiff", "0", {"0", "other"}) & Required,
         Select("tempmax", "0", {"0", "other"}) & Required>>,
       "", "/storage/smart")

SmartTest ==
  <<ConfObjUuid, Checkbox("enable", On),
    Reference("devicefile") & Required,
    Select("type", "S", {"S", "other"})>>

SmartSchedule ==
  <<Select("hour", "now", {"now", "other"}),
    Select("dayofmonth", "*", {"*", "other"}),
    Select("month", "*", {"*", "other"}),
    Select("dayofweek", "*", {"*", "other"}),
    Text("comment", None)>>

SmartTaskForm ==
  Page("getScheduledTest", "setScheduledTest",
       SmartTest \o SmartSchedule,
       "/storage/smart/tasks", "/storage/smart/tasks")

StorageForms ==
  [DiskForm |-> DiskForm,
   FilesystemEditForm |-> FilesystemEditForm,
   FilesystemMountForm |-> FilesystemMountForm,
   FilesystemQuotaForm |-> FilesystemQuotaForm,
   SharedFolderAclForm |-> SharedFolderAclForm,
   SharedFolderForm |-> SharedFolderForm,
   SmartDeviceForm |-> SmartDeviceForm,
   SmartSettingsForm |-> SmartSettingsForm,
   SmartTaskForm |-> SmartTaskForm]
=============================================================================
