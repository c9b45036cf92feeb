---------------------------- MODULE FormsServices ---------------------------
(***************************************************************************)
(* The form pages under workbench/src/app/pages, services: NFS, rsync,     *)
(* SMB/CIFS and SSH.  Each definition holds the fields of a part of one    *)
(* page, in their order, and a page ends with its submit and cancel URLs.  *)
(* Path parameters of a URL are written as in the routes.                  *)
(***************************************************************************)
EXTENDS FormFields

\* Which fields of an rsync task are needed.
Local  == Eq("type", "local")
Pulls  == Both(Eq("type", "remote"), Eq("mode", "pull"))
Pushes == Both(Eq("type", "remote"), Eq("mode", "push"))
FromShare == Either(Eq("type", "local"), Pushes)
IntoShare == Either(Eq("type", "local"), Pulls)
WithKey_Mutant == Eq("authentication", "pubkey")   \* a mutant, see WithKey
WithKey      == Both(Eq("type", "remote"), Eq("authentication", "pubkey"))
WithPassword == Both(Eq("type", "remote"), Eq("authentication", "password"))
LocalTask ==
  [srcsharedfolderref |-> V("ref"), destsharedfolderref |-> V("ref")]
RsyncUnit(unit, first) ==
  <<TimeUnit(unit, first) & Required,
    Checkbox("everyn" \o unit, Off)
      & UncheckedIf(NotOne(unit))
      & DisabledIf(Either(NotOne(unit), Every(unit)))>>

NfsSettingsForm ==
  [Page("getSettings", "setSettings",
       <<Checkbox("enable", Off),
         Multi("versions", None, Several) & Required>>,
       "", "/services/nfs") EXCEPT
      !.samples = {[versions |-> <<"a", "b">>]}]

NfsShareForm ==
  Page("getShare", "setShare",
       <<ConfObjUuid,
         Reference("sharedfolderref") & Required
           & DisabledIf(Ne("uuid", "new")),
         Text("client", None) & Required,
         Select("options", "ro", {"ro", "other"}),
         Text("extraoptions", V("subtree_check,insecure")),
         Text("comment", None), Hidden("mntentref", V("new"))>>,
       "/services/nfs/shares", "/services/nfs/shares")

ModuleShare ==
  <<ConfObjUuid, Checkbox("enable", On),
    Reference("sharedfolderref") & RequiredIf(Is("enable", On)),
    Text("name", None) & Required,
    Select("uid", "nobody", {"nobody", "other"}) & Required,
    Select("gid", "users", {"users", "other"}) & Required>>

ModuleUsers ==
  <<Multi("users", None, Rows)>>

ModuleOptions ==
  <<Checkbox("usechroot", On), Checkbox("authusers", Off),
    Checkbox("readonly", Off), Checkbox("writeonly", Off),
    Checkbox("list", On),
    Number("maxconnections", "0") & Checked & Required,
    Text("hostsallow", None), Text("hostsdeny", None),
    Text("extraoptions", None), Text("comment", None)>>

RsyncModuleForm ==
  [Page("getModule", "setModule",
       ModuleShare \o ModuleUsers \o ModuleOptions,
       "/services/rsync/server/modules",
       "/services/rsync/server/modules") EXCEPT
      !.samples = {[sharedfolderref |-> V("ref")]}]

RsyncModuleSettingsForm ==
  Page("getSettings", "setSettings",
       <<Checkbox("enable", Off),
         Number("port", "873") & Checked & Required,
         Text("extraoptions", None)>>,
       "", "/services/rsync/server")

RsyncSource ==
  <<ConfObjUuid, Checkbox("enable", On),
    Select("type", "local", {"local", "remote"}),
    Select("mode", "push", {"push", "pull"})
      & VisibleIf(Eq("type", "remote")),
    Reference("srcsharedfolderref") & RequiredIf(FromShare)
      & HiddenIf(Negated(FromShare)),
    Text("srcuri", None) & RequiredIf(Pulls) & HiddenIf(Negated(Pulls))>>

RsyncTarget ==
  <<Reference("destsharedfolderref") & RequiredIf(IntoShare)
      & HiddenIf(Negated(IntoShare)),
    Text("desturi", None) & RequiredIf(Pushes) & HiddenIf(Negated(Pushes)),
    Select("authentication", "password", {"password", "pubkey"})
      & HiddenIf(Eq("type", "local"))>>

RsyncAccess ==
  <<Number("sshport", "22") & Checked & RequiredIf(WithKey)
      & HiddenIf(Either(Local, Eq("authentication", "password"))),
    Reference("sshcertificateref") & RequiredIf(WithKey)
      & HiddenIf(Either(Local, Eq("authentication", "password"))),
    Text("password", None) & RequiredIf(WithPassword)
      & HiddenIf(Either(Local, Eq("authentication", "pubkey"))),
    Text("cronexprdesc", None) & Disabled & NotSubmitted
      & ValueOn(Range(CronFields), TextOf(CronFields, Always))>>

RsyncMinute == RsyncUnit("minute", V("now"))

RsyncHour == RsyncUnit("hour", V("now"))

RsyncDayOfMonth == RsyncUnit("dayofmonth", V("*"))

RsyncMonth == 
  <<TimeUnit("month", V("*")) & Required,
    TimeUnit("dayofweek", V("*")) & Required>>

RsyncOptions ==
  <<Checkbox("sendemail", Off), Checkbox("optiondryrun", Off),
    Checkbox("optionquiet", Off),
    Checkbox("optionarchive", On) & UncheckedIf(Falsy("optionrecursive"))
      & UncheckedIf(Falsy("optionperms"))
      & UncheckedIf(Falsy("optiontimes"))
      & UncheckedIf(Falsy("optiongroup"))
      & UncheckedIf(Falsy("optionowner")),
    Checkbox("optionrecursive", On) & CheckedIf(Truthy("optionarchive")),
    Checkbox("optionperms", On) & CheckedIf(Truthy("optionarchive")),
    Checkbox("optiontimes", On) & CheckedIf(Truthy("optionarchive")),
    Checkbox("optiongroup", On) & CheckedIf(Truthy("optionarchive")),
    Checkbox("optionowner", On) & CheckedIf(Truthy("optionarchive"))>>

RsyncMore ==
  <<Checkbox("optioncompress", Off), Checkbox("optionacls", Off),
    Checkbox("optionxattrs", Off), Checkbox("optionpartial", Off),
    Checkbox("optiondelete", Off), Text("extraoptions", None),
    Text("comment", None)>>

RsyncTaskForm ==
  [Page("get", "set",
       RsyncSource \o RsyncTarget \o RsyncAccess \o RsyncMinute \o RsyncHour
       \o RsyncDayOfMonth \o RsyncMonth \o RsyncOptions \o RsyncMore,
       "/services/rsync/tasks", "/services/rsync/tasks") EXCEPT
      !.samples = {LocalTask,
          LocalTask @@ [optionarchive |-> Off, optionperms |-> Off],
          LocalTask @@ [minute |-> V("5"), everynminute |-> On],
          [type |-> V("remote"), srcsharedfolderref |-> V("ref"),
           desturi |-> V("text"), password |-> V("text")],
          [type |-> V("remote"), mode |-> V("pull"),
           authentication |-> V("pubkey"), srcuri |-> V("text"),
           destsharedfolderref |-> V("ref"), sshcertificateref |-> V("ref")]}]

SmbServer ==
  <<Checkbox("enable", Off),
    Text("workgroup", V("WORKGROUP")) & Checked & Required,
    Text("serverstring", V("%h server")) & Required,
    Checkbox("timeserver", Off)>>

SmbHomes ==
  <<Checkbox("homesenable", Off), Checkbox("homesbrowseable", On),
    Checkbox("homesinheritacls", Off),
    Checkbox("homesinheritpermissions", Off),
    Checkbox("homesrecyclebin", Off), Checkbox("homesmacoscompat", Off),
    Checkbox("homesfollowsymlinks", On) & CheckedIf(Truthy("homeswidelinks")),
    Checkbox("homeswidelinks", Off)
      & UncheckedIf(Falsy("homesfollowsymlinks")),
    Text("homesextraoptions", None)>>

SmbAdvanced ==
  <<Select("minprotocol", "SMB2", {"SMB2", "other"}),
    Checkbox("netbios", Off),
    Checkbox("winssupport", Off)
      & Must(Either(Empty("winsserver"), Falsy("winssupport"))),
    Text("winsserver", None)
      & Must(Either(Empty("winsserver"), Falsy("winssupport")))
      & DisabledIf(Truthy("winssupport")),
    Checkbox("usesendfile", On), Checkbox("aio", On),
    Select("loglevel", "0", {"0", "other"}), Text("extraoptions", None)>>

SmbSettingsForm ==
  [Page("getSettings", "setSettings",
       SmbServer \o SmbHomes \o SmbAdvanced,
       "", "/services/smb") EXCEPT
      !.samples = {<<>>, [winssupport |-> On], [winsserver |-> V("text")],
          [homesfollowsymlinks |-> Off], [homeswidelinks |-> On]}]

ShareAccess ==
  <<ConfObjUuid, Checkbox("enable", On),
    Reference("sharedfolderref") & Required,
    Text("comment", None), Select("guest", "no", {"no", "other"}),
    Checkbox("readonly", Off), Checkbox("browseable", On)>>

ShareMacOs ==
  <<Checkbox("macoscompat", Off) & CheckedIf(Truthy("timemachine")),
    Checkbox("timemachine", Off) & UncheckedIf(Falsy("macoscompat")),
    Text("timemachinemaxsize", None) & Checked
      & HiddenIf(Falsy("timemachine")),
    Checkbox("transportencryption", Off), Checkbox("inheritacls", Off),
    Checkbox("inheritpermissions", Off)>>

ShareRecycling ==
  <<Checkbox("recyclebin", Off),
    Select("recyclemaxsize", "0", {"0", "other"}) & Required
      & DisabledIf(Falsy("recyclebin")),
    Number("recyclemaxage", "0") & Checked & Required
      & DisabledIf(Falsy("recyclebin")),
    Hidden("recyclenow", None) & NotSubmitted
      & DisabledIf(Either(Falsy("_editing"), Falsy("recyclebin")))>>

ShareAdvanced ==
  <<Checkbox("hidedotfiles", On),
    Checkbox("followsymlinks", On) & CheckedIf(Truthy("widelinks")),
    Checkbox("widelinks", Off) & UncheckedIf(Falsy("followsymlinks")),
    Checkbox("easupport", On), Checkbox("storedosattributes", Off),
    Text("hostsallow", None), Text("hostsdeny", None),
    Checkbox("audit", Off), Text("extraoptions", None)>>

SmbShareForm ==
  [Page("getShare", "setShare",
       ShareAccess \o ShareMacOs \o ShareRecycling \o ShareAdvanced,
       "/services/smb/shares", "/services/smb/shares") EXCEPT
      !.samples = {<<>>, [recyclebin |-> On],
          [macoscompat |-> On, timemachine |-> On],
          [followsymlinks |-> Off], [widelinks |-> On]}]

SshForm ==
  [Page("get", "set",
       <<Checkbox("enable", Off),
         Number("port", "22") & Checked & RequiredIf(Is("enable", On)),
         Checkbox("permitrootlogin", On),
         Checkbox("passwordauthentication", On),
         Checkbox("pubkeyauthentication", On), Checkbox("tcpforwarding", On),
         Checkbox("compression", On), Text("extraoptions", None)>>,
       "", "/services") EXCEPT
      !.samples = {<<>>, [enable |-> On]}]

ServicesForms ==
  [NfsSettingsForm |-> NfsSettingsForm,
   NfsShareForm |-> NfsShareForm,
   RsyncModuleForm |-> RsyncModuleForm,
   RsyncModuleSettingsForm |-> RsyncModuleSettingsForm,
   RsyncTaskForm |-> RsyncTaskForm,
   SmbSettingsForm |-> SmbSettingsForm,
   SmbShareForm |-> SmbShareForm,
   SshForm |-> SshForm]
=============================================================================
