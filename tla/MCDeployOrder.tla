--------------------------- MODULE MCDeployOrder ---------------------------
(* The modules of openmediavault whose deployment order depends on more    *)
(* than one other module, with the tables they declare, and two plugins of *)
(* other authors that wait for each other.                                 *)
EXTENDS DeployOrder, TLC

MCRegistered ==
  <<"collectd", "email", "hostname", "hosts", "initramfs", "mdadm", "monit",
    "nut", "plugin1", "plugin2", "postfix", "rrdcached", "systemd-networkd">>

MCAlias == [n \in ModuleNames |-> IF n = "email" THEN "postfix" ELSE n]

MCAfter == [m \in Instances |->
  CASE m = "collectd"         -> {"monit", "rrdcached"}
    [] m = "hosts"            -> {"systemd-networkd"}
    [] m = "mdadm"            -> {"email"}
    [] m = "monit"            -> {"email"}
    [] m = "nut"              -> {"monit"}
    [] m = "plugin1"          -> {"plugin2"}
    [] m = "plugin2"          -> {"plugin1"}
    [] m = "postfix"          -> {"systemd-networkd", "hostname", "hosts"}
    [] m = "rrdcached"        -> {"monit"}
    [] m = "systemd-networkd" -> {"hostname", "task"}
    [] OTHER                  -> {}]

MCBefore == [m \in Instances |->
  CASE m = "mdadm"                -> <<"initramfs">>
    [] m \in {"nut", "rrdcached"} -> <<"collectd">>
    [] OTHER                      -> <<>>]
=============================================================================
