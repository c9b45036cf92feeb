----------------------------- MODULE FormsUsers -----------------------------
(***************************************************************************)
(* The form pages under workbench/src/app/pages, users, groups, the own    *)
(* account, and diagnostics.  Each definition holds the fields of a part of*)
(* one page, in their order, and a page ends with its submit and cancel    *)
(* URLs.  Path parameters of a URL are written as in the routes.           *)
(***************************************************************************)
EXTENDS FormFields

GroupForm ==
  Page("getGroup", "setGroup",
       <<Text("name", None) & FromEditUrl & DisabledWhenEditing & Checked
           & Required,
         Multi("members", None, Several), Text("comment", None)>>,
       "/usermgmt/groups", "/usermgmt/groups")

GroupImportForm ==
  Page("", "importGroups",
       <<Text("csv", V("sample"))>>,
       "/usermgmt/groups", "/usermgmt/groups")

UserIdentity ==
  <<Text("name", None) & FromEditUrl & DisabledWhenEditing & Checked
      & Required,
    Text("email", None) & Checked,
    Text("password", None) & RequiredIf(Falsy("_editing")),
    Text("passwordconf", None) & NotSubmitted
      & Must(Same("password", "passwordconf"))>>

UserMembership ==
  <<Select("shell", "/usr/bin/sh", {"/usr/bin/sh", "other"}),
    Multi("groups", None, Several), Multi("sshpubkeys", None, Rows),
    Checkbox("disallowusermod", Off), Text("comment", None)>>

UserForm ==
  Page("getUser", "setUser",
       UserIdentity \o UserMembership,
       "/usermgmt/users", "/usermgmt/users")

UserImportForm ==
  Page("", "importUsers",
       <<Text("csv", V("sample"))>>,
       "/usermgmt/users", "/usermgmt/users")

UserSettingsForm ==
  [Page("getSettings", "setSettings",
       <<Checkbox("enable", Off),
         Reference("sharedfolderref") & RequiredIf(Is("enable", On))>>,
       "", "/usermgmt") EXCEPT
      !.samples = {<<>>, [enable |-> On, sharedfolderref |-> V("ref")]}]

AccountPasswordForm ==
  Page("", "setPasswordByContext",
       <<Text("password", None) & Required,
         Text("passwordconf", None) & NotSubmitted & Required
           & Must(Same("password", "passwordconf"))>>,
       "/", "/account")

AccountSettingsForm ==
  [Page("getUserByContext", "setUserByContext",
       <<Hidden("_readonly", Off), Shown("name"),
         Text("email", None) & Checked,
         Text("comment", None)>>,
       "", "/account") EXCEPT
      !.allowed = Falsy("_readonly"),
      !.samples = {<<>>, [_readonly |-> On]}]

TopSummary ==
  <<Text("time", None) & ReadOnly,
    Text("uptime", None) & ReadOnly,
    Text("users", None) & ReadOnly,
    Hidden("load_1m", None), Hidden("load_5m", None),
    Hidden("load_15m", None), Hidden("tasks_total", None),
    Hidden("tasks_running", None), Hidden("tasks_sleeping", None),
    Hidden("tasks_stopped", None), Hidden("tasks_zombie", None),
    Hidden("mem_total", None), Hidden("mem_free", None),
    Hidden("mem_used", None), Hidden("mem_buff_cache", None),
    Hidden("swap_total", None), Hidden("swap_free", None),
    Hidden("swap_used", None), Hidden("mem_available", None)>>

TopTasks ==
  <<Multi("processes", None, Rows)>>

ProcessesForm ==
  Page("getTopInfo", "",
       TopSummary \o TopTasks,
       "", "")

SystemLogsRemoteForm ==
  [Page("getSettings", "setSettings",
       <<Checkbox("enable", Off),
         Text("host", None) & Checked & RequiredIf(Is("enable", On)),
         Number("port", "514") & Checked & Required,
         Select("protocol", "udp", {"udp", "other"})>>,
       "", "/diagnostics/system-logs") EXCEPT
      !.samples = {<<>>, [enable |-> On, host |-> V("text")]}]

UsersForms ==
  [GroupForm |-> GroupForm,
   GroupImportForm |-> GroupImportForm,
   UserForm |-> UserForm,
   UserImportForm |-> UserImportForm,
   UserSettingsForm |-> UserSettingsForm,
   AccountPasswordForm |-> AccountPasswordForm,
   AccountSettingsForm |-> AccountSettingsForm,
   ProcessesForm |-> ProcessesForm,
   SystemLogsRemoteForm |-> SystemLogsRemoteForm]
=============================================================================
