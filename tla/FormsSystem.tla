----------------------------- MODULE FormsSystem ----------------------------
(***************************************************************************)
(* The form pages under workbench/src/app/pages, system: certificates,     *)
(* scheduled jobs, date, notification, power and update management,        *)
(* workbench.  Each definition holds the fields of a part of one page, in  *)
(* their order, and a page ends with its submit and cancel URLs.  Path     *)
(* parameters of a URL are written as in the routes.                       *)
(***************************************************************************)
EXTENDS FormFields

\* Scheduled jobs: the fields of the schedule count when the job runs at an
\* exact time, as opposed to hourly, daily and so on.
Exactly == Eq("execution", "exactly")
Schedule == TextOf(CronFields, Exactly)
WhenExactly(f) ==
  f & RequiredIf(Exactly) & DisabledIf(Ne("execution", "exactly"))
CronUnit(unit, first) ==
  <<WhenExactly(TimeUnit(unit, first)),
    Checkbox("everyn" \o unit, Off)
      & DisabledIf(Either(Ne("execution", "exactly"),
                          Either(NotOne(unit), Every(unit))))
      & UncheckedIf(NotOne(unit))>>

SshCertificateCreateForm ==
  Page("", "createSsh",
       <<Select("type", "rsa", {"rsa", "other"}),
         Text("comment", None) & Required>>,
       "/system/certificate/ssh", "/system/certificate/ssh")

SshCertificateEditForm ==
  Page("getSsh", "setSsh",
       <<ConfObjUuid, Shown("publickey"),
         Text("comment", None) & Required>>,
       "/system/certificate/ssh", "/system/certificate/ssh")

SshCertificateImportForm ==
  Page("", "setSsh",
       <<ConfObjUuid,
         Text("privatekey", None) & Required,
         Text("publickey", None) & Checked & Required,
         Text("comment", None) & Required>>,
       "/system/certificate/ssh", "/system/certificate/ssh")

SslKey ==
  <<ConfObjUuid,
    Select("size", "4096", {"4096", "other"}),
    Select("days", "365", {"365", "other"})>>

SslSubject ==
  <<Text("cn", V("host")) & Required,
    Text("o", None), Text("ou", None), Text("l", None), Text("st", None)>>

SslCountry ==
  <<Reference("c") & Required>>

SslContact ==
  <<Text("email", None) & Checked,
    Text("comment", None)>>

SslCertificateForm ==
  Page("", "create",
       SslKey \o SslSubject \o SslCountry \o SslContact,
       "/system/certificate/ssl", "/system/certificate/ssl")

SslCertificateImportForm ==
  Page("", "set",
       <<ConfObjUuid,
         Text("privatekey", None) & Required,
         Text("certificate", None) & Required,
         Text("comment", None) & Required>>,
       "/system/certificate/ssl", "/system/certificate/ssl")

CronExecution ==
  <<ConfObjUuid, Checkbox("enable", On),
    Select("execution", "exactly", {"exactly", "other"}),
    Text("cronexprdesc", None) & Disabled & NotSubmitted
      & VisibleIf(Eq("execution", "exactly"))
      & ValueOn(Range(CronFields) \union {"execution"}, Schedule)>>

CronMinute == CronUnit("minute", V("now"))

CronHour == CronUnit("hour", V("now"))

CronDayOfMonth == CronUnit("dayofmonth", V("*"))

CronMonth == 
  <<WhenExactly(TimeUnit("month", V("*"))),
    WhenExactly(TimeUnit("dayofweek", V("*")))>>

CronCommand ==
  <<Select("username", "root", {"root", "other"}) & Required,
    Text("command", None) & Required,
    Checkbox("sendemail", Off), Text("comment", None)>>

CronTaskForm ==
  [Page("get", "set",
       CronExecution \o CronMinute \o CronHour
       \o CronDayOfMonth \o CronMonth \o CronCommand,
       "/system/cron", "/system/cron") EXCEPT
      !.samples = {<<>>,
          [execution |-> V("other"), minute |-> V("*"), hour |-> V("*")],
          [minute |-> V("5"), everynminute |-> On], [hour |-> <<"a", "b">>]}]

DateTimeForm ==
  [Page("getTimeSettings", "setTimeSettings",
       <<Select("timezone", "UTC", {"UTC", "other"}),
         Checkbox("ntpenable", Off),
         Text("ntptimeservers", V("pool.ntp.org")) & Checked
           & RequiredIf(Truthy("ntpenable"))
           & EnabledIf(Truthy("ntpenable")),
         Text("ntpclients", None) & Checked & DisabledIf(Falsy("ntpenable"))>>,
       "", "/system") EXCEPT
      !.samples = {<<>>, [ntpenable |-> On, ntpclients |-> V("text")]}]

\* Mutant: the cancel button leads nowhere.
MonitoringForm_Mutant ==
  Page("get", "set", <<Checkbox("enable", On)>>, "", "/settings")

MonitoringForm ==
  Page("get", "set",
       <<Checkbox("enable", On)>>,
       "", "/system")

NotificationSettingsForm ==
  [Page("get", "set",
       <<Checkbox("enable", Off),
         Text("server", None) & Checked & RequiredIf(Is("enable", On)),
         Number("port", "25") & Checked & Required,
         Select("tls", "none", {"none", "other"}),
         Text("sender", None) & Checked & RequiredIf(Truthy("enable")),
         Checkbox("authenable", Off),
         Text("username", None) & RequiredIf(Truthy("authenable"))
           & DisabledIf(Falsy("authenable")),
         Text("password", None) & RequiredIf(Truthy("authenable"))
           & DisabledIf(Falsy("authenable")),
         Text("primaryemail", None) & Checked & RequiredIf(Truthy("enable")),
         Text("secondaryemail", None) & Checked>>,
       "", "/system/notification") EXCEPT
      !.samples = {<<>>, [enable |-> On, server |-> V("text"),
                 sender |-> V("text"), primaryemail |-> V("text")],
          [authenable |-> On, username |-> V("text"), password |-> V("text")]}]

PowermgmtSettingsForm ==
  Page("get", "set",
       <<Reference("cpufreqgovernor"),
         Select("powerbtn", "nothing", {"nothing", "other"}),
         Select("standbymode", "poweroff", {"poweroff", "other"})>>,
       "", "/system/powermgmt")

JobExecution ==
  <<ConfObjUuid, Checkbox("enable", On),
    Select("type", "reboot", {"reboot", "other"}),
    Select("execution", "exactly", {"exactly", "other"}),
    Text("cronexprdesc", None) & Disabled & NotSubmitted
      & VisibleIf(Eq("execution", "exactly"))
      & ValueOn(Range(CronFields) \union {"execution"}, Schedule)>>

JobMinute == CronUnit("minute", V("now"))

JobHour == CronUnit("hour", V("now"))

JobDayOfMonth == CronUnit("dayofmonth", V("*"))

JobMonth == 
  <<WhenExactly(TimeUnit("month", V("*"))),
    WhenExactly(TimeUnit("dayofweek", V("*")))>>

JobComment ==
  <<Text("comment", None)>>

PowermgmtTaskForm ==
  [Page("getScheduledJob", "setScheduledJob",
       JobExecution \o JobMinute \o JobHour
       \o JobDayOfMonth \o JobMonth \o JobComment,
       "/system/powermgmt/tasks", "/system/powermgmt/tasks") EXCEPT
      !.samples = {<<>>,
          [execution |-> V("other"), minute |-> V("*"), hour |-> V("*")],
          [dayofmonth |-> V("5"), everyndayofmonth |-> On],
          [hour |-> <<"a", "b">>]}]

UpdateSettingsSoftwareForm ==
  [Page("getSoftwareSettings", "setSoftwareSettings",
       <<Checkbox("proposed", Off), Checkbox("partner", Off)>>,
       "/system/updatemgmt/updates", "/system/updatemgmt/settings") EXCEPT
      !.confirms = TRUE]

UpdateSettingsUpdatesForm ==
  Page("getUpdatesSettings", "setUpdatesSettings",
       <<Select("notificationschedule", "daily", {"daily", "other"}),
         Checkbox("unattendedupgrade", On)>>,
       "", "/system/updatemgmt/settings")

WorkbenchSettingsForm ==
  [Page("getSettings", "setSettings",
       <<Number("port", "80") & Checked & Required,
         Select("timeout", "5", {"5", "other"}), Checkbox("enablessl", Off),
         Reference("sslcertificateref") & RequiredIf(Truthy("enablessl"))
           & EnabledIf(Truthy("enablessl")),
         Number("sslport", "443") & Checked & RequiredIf(Truthy("enablessl"))
           & Must(Both(Truthy("enablessl"), Differ("port", "sslport")))
           & EnabledIf(Truthy("enablessl")),
         Checkbox("forcesslonly", Off) & EnabledIf(Truthy("enablessl"))>>,
       "", "/system") EXCEPT
      !.samples = {<<>>, [enablessl |-> On, sslcertificateref |-> V("ref")]}]

SystemForms ==
  [SshCertificateCreateForm |-> SshCertificateCreateForm,
   SshCertificateEditForm |-> SshCertificateEditForm,
   SshCertificateImportForm |-> SshCertificateImportForm,
   SslCertificateForm |-> SslCertificateForm,
   SslCertificateImportForm |-> SslCertificateImportForm,
   CronTaskForm |-> CronTaskForm,
   DateTimeForm |-> DateTimeForm,
   MonitoringForm |-> MonitoringForm,
   NotificationSettingsForm |-> NotificationSettingsForm,
   PowermgmtSettingsForm |-> PowermgmtSettingsForm,
   PowermgmtTaskForm |-> PowermgmtTaskForm,
   UpdateSettingsSoftwareForm |-> UpdateSettingsSoftwareForm,
   UpdateSettingsUpdatesForm |-> UpdateSettingsUpdatesForm,
   WorkbenchSettingsForm |-> WorkbenchSettingsForm]
=============================================================================
