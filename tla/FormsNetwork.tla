---------------------------- MODULE FormsNetwork ----------------------------
(***************************************************************************)
(* The form pages under workbench/src/app/pages, network: general settings,*)
(* interfaces, proxy, firewall.  Each definition holds the fields of a part*)
(* of one page, in their order, and a page ends with its submit and cancel *)
(* URLs.  Path parameters of a URL are written as in the routes.           *)
(***************************************************************************)
EXTENDS FormFields

\* The addresses of an interface: the same fields in each kind of interface.
Ipv4Fields ==
  LET Static == Eq("method", "static") IN
  <<Select("method", "manual", {"manual", "static"}) & Required,
    Text("address", None) & Checked & RequiredIf(Static)
      & DisabledIf(Ne("method", "static")),
    Text("netmask", None) & Checked & RequiredIf(Static)
      & DisabledIf(Ne("method", "static")),
    Text("gateway", None) & Checked & DisabledIf(Ne("method", "static")),
    Number("routemetric", "0") & Checked & DisabledIf(Ne("method", "static"))>>

Ipv6Fields ==
  LET Static == Eq("method6", "static") IN
  <<Select("method6", "manual", {"manual", "static"}) & Required,
    Text("address6", None) & Checked & RequiredIf(Static)
      & DisabledIf(Ne("method6", "static")),
    Number("netmask6", "64") & Checked & RequiredIf(Static)
      & DisabledIf(Ne("method6", "static")),
    Text("gateway6", None) & Checked & DisabledIf(Ne("method6", "static")),
    Number("routemetric6", "1") & Checked
      & DisabledIf(Ne("method6", "static"))>>

HasGateway ==
  Either(Both(Eq("method", "static"), NotEmpty("gateway")),
         Both(Eq("method6", "static"), NotEmpty("gateway6")))
StaticAddress == [method |-> V("static"), address |-> V("text"),
                  netmask |-> V("text"), dnsnameservers |-> V("text")]

\* The bonding modes that have a primary device, and two bonds.
FailsOver == InSet("bondmode", {"1", "5", "6"})
Slaves == {V("a"), <<"b", "a">>, None}
Ports == [slaves |-> <<"a", "b">>]
Backs == Op2("in", Prop("bondprimary"), Prop("slaves"))
ChosenPort == Both(NotEmpty("bondprimary"), Backs)
Unchosen   == Both(NotEmpty("slaves"), Empty("bondprimary"))
Backup(mode, primary) == [bondmode |-> V(mode), bondprimary |-> primary]

\* A firewall rule for certain ports.
HasPorts == Either(NotEmpty("sport"), NotEmpty("dport"))

\* One proxy of the three; p is the prefix of its fields.
ProxyFields(p) ==
  LET Enabled == Truthy(p \o "enable") IN
  <<Checkbox(p \o "enable", Off),
    Text(p \o "host", None) & RequiredIf(Enabled) & EnabledIf(Enabled),
    Number(p \o "port", "8080") & Checked & RequiredIf(Enabled)
      & EnabledIf(Enabled),
    Text(p \o "username", None) & Checked & EnabledIf(Enabled),
    Text(p \o "password", None) & EnabledIf(Enabled)>>

RuleTarget ==
  <<ConfObjUuid, Hidden("rulenum", V("-1")),
    Reference("family") & FromRoute & Disabled & Required,
    Select("chain", "INPUT", {"INPUT", "other"}) & Required,
    Select("action", "REJECT", {"REJECT", "other"}) & Required,
    Text("source", None)>>

RulePorts ==
  <<Text("sport", None) & Checked,
    Text("destination", None),
    Text("dport", None) & Checked,
    Select("protocol", "tcp", {"tcp", "all"})
      & Must(Implies(HasPorts, Ne("protocol", "all")))>>

RuleRest ==
  <<Text("extraoptions", None), Text("comment", None)>>

FirewallRuleForm ==
  [Page("getRule", "setRule",
       RuleTarget \o RulePorts \o RuleRest,
       "/network/firewall/rules/:family",
       "/network/firewall/rules/:family") EXCEPT
      !.samples = {[family |-> V("inet")],
          [family |-> V("inet"), sport |-> V("text")]}]

GeneralNetworkForm ==
  Page("getGeneralSettings", "setGeneralSettings",
       <<Text("hostname", None) & Checked & Required,
         Text("domainname", None) & Checked & Required>>,
       "", "/network")

BondPort ==
  <<ConfObjUuid,
    Select("type", "bond", {"bond", "other"}) & Disabled & NotSubmitted,
    Text("devicename", None) & Disabled & HiddenIf(Falsy("_editing")),
    Multi("slaves", None, Slaves) & Required
      & Must(Op2("ge", Op1("length", Prop("slaves")), Lit(1)))>>

BondMode ==
  <<Select("bondmode", "1", {"1", "4", "5"}) & Required,
    Select("bondtransmithashpolicy", "layer2", {"layer2", "other"})
      & EnabledIf(InSet("bondmode", {"2", "4", "5"})),
    Text("bondprimary", None) & RequiredIf(FailsOver)
      & Must(Implies(Both(NotEmpty("slaves"), FailsOver), ChosenPort))
      & Must(Implies(Both(Empty("slaves"), FailsOver), Backs))
      & ValueIf(Both(FailsOver, Unchosen), HeadOf("slaves"))
      & ValueIf(Negated(FailsOver), Literal(None)) & EnabledIf(FailsOver)>>

BondTiming ==
  <<Number("bondmiimon", "100") & Checked,
    Number("bonddowndelay", "200") & Checked,
    Number("bondupdelay", "200") & Checked,
    Text("comment", None)>>

BondIpv4 == Ipv4Fields

BondIpv6 == Ipv6Fields

BondAdvanced ==
  <<Text("dnsnameservers", None) & Checked,
    Text("dnssearch", None) & Checked,
    Number("mtu", "0") & Checked>>

InterfaceBondForm ==
  [Page("getBondIface", "setBondIface",
       BondPort \o BondMode \o BondTiming
       \o BondIpv4 \o BondIpv6 \o BondAdvanced,
       "/network/interfaces", "/network/interfaces") EXCEPT
      !.samples = {Ports @@ Backup("1", V("b")), Ports @@ Backup("4", None)}]

BridgePort ==
  <<ConfObjUuid,
    Select("type", "bridge", {"bridge", "other"}) & Disabled & NotSubmitted,
    Text("devicename", None) & Disabled & HiddenIf(Falsy("_editing")),
    Multi("slaves", None, Several), Text("comment", None)>>

BridgeIpv4 == Ipv4Fields

BridgeIpv6 == Ipv6Fields

BridgeAdvanced ==
  <<Text("altmacaddress", None) & Checked,
    Text("dnsnameservers", None) & Checked,
    Text("dnssearch", None) & Checked,
    Number("mtu", "0") & Checked>>

InterfaceBridgeForm ==
  [Page("getBridgeIface", "setBridgeIface",
       BridgePort \o BridgeIpv4 \o BridgeIpv6 \o BridgeAdvanced,
       "/network/interfaces", "/network/interfaces") EXCEPT
      !.samples = {<<>>, StaticAddress}]

InterfaceDetailsForm ==
  Page("getInformation", "",
       <<Select("type", "bond", {"bond", "other"}) & Disabled & NotSubmitted,
         Shown("devicename"), Shown("ether"), Shown("mtu"), Shown("state"),
         Shown("address"), Shown("prefix"), Shown("netmask"), Shown("gateway"),
         Shown("address6"), Shown("prefix6"), Shown("netmask6"),
         Shown("gateway6")>>,
       "", "")

EthernetPort ==
  <<ConfObjUuid,
    Select("type", "ethernet", {"ethernet", "other"}) & Disabled
      & NotSubmitted,
    Reference("devicename") & DisabledWhenEditing & Required,
    Text("comment", None)>>

EthernetIpv4 == Ipv4Fields

EthernetIpv6 == Ipv6Fields

EthernetAdvanced ==
  <<Text("altmacaddress", None) & Checked,
    Text("dnsnameservers", None) & Checked & RequiredIf(HasGateway),
    Text("dnssearch", None) & Checked,
    Number("mtu", "0") & Checked,
    Checkbox("wol", Off)>>

InterfaceEthernetForm ==
  [Page("getEthernetIface", "setEthernetIface",
       EthernetPort \o EthernetIpv4
       \o EthernetIpv6 \o EthernetAdvanced,
       "/network/interfaces", "/network/interfaces") EXCEPT
      !.samples = {<<>>, StaticAddress}]

VlanPort ==
  <<ConfObjUuid,
    Select("type", "vlan", {"vlan", "other"}) & Disabled & NotSubmitted,
    Text("devicename", None) & Disabled & HiddenIf(Falsy("_editing")),
    Reference("vlanrawdevice") & DisabledWhenEditing & Required,
    Number("vlanid", "1") & DisabledWhenEditing & Checked & Required,
    Text("comment", None)>>

VlanIpv4 == Ipv4Fields

VlanIpv6 == Ipv6Fields

VlanAdvanced ==
  <<Text("altmacaddress", None) & Checked,
    Text("dnsnameservers", None) & Checked,
    Text("dnssearch", None) & Checked,
    Number("mtu", "0") & Checked>>

InterfaceVlanForm ==
  [Page("getVlanIface", "setVlanIface",
       VlanPort \o VlanIpv4 \o VlanIpv6 \o VlanAdvanced,
       "/network/interfaces", "/network/interfaces") EXCEPT
      !.samples = {<<>>, StaticAddress}]

WifiPort ==
  <<ConfObjUuid,
    Select("type", "wifi", {"wifi", "other"}) & Disabled & NotSubmitted,
    Reference("devicename") & DisabledWhenEditing & Required,
    Text("wpassid", None) & Required,
    Select("band", "auto", {"auto", "other"}) & Required,
    Select("keymanagement", "psk", {"psk", "other"}) & Required,
    Text("wpapsk", None) & Required,
    Checkbox("hidden", Off), Text("comment", None)>>

WifiIpv4 == Ipv4Fields

WifiIpv6 == Ipv6Fields

WifiAdvanced ==
  <<Text("altmacaddress", None) & Checked,
    Text("dnsnameservers", None) & Checked & RequiredIf(HasGateway),
    Text("dnssearch", None) & Checked,
    Number("mtu", "0") & Checked,
    Checkbox("wol", Off)>>

InterfaceWifiForm ==
  [Page("getWirelessIface", "setWirelessIface",
       WifiPort \o WifiIpv4 \o WifiIpv6 \o WifiAdvanced,
       "/network/interfaces", "/network/interfaces") EXCEPT
      !.samples = {<<>>, StaticAddress}]

HttpProxy == ProxyFields("http")

HttpsProxy == ProxyFields("https")

FtpProxy == ProxyFields("ftp")

ProxyForm ==
  [Page("getProxy", "setProxy",
       HttpProxy \o HttpsProxy \o FtpProxy,
       "", "/network") EXCEPT
      !.samples = {<<>>, [httpenable |-> On, httphost |-> V("text")]}]

NetworkForms ==
  [FirewallRuleForm |-> FirewallRuleForm,
   GeneralNetworkForm |-> GeneralNetworkForm,
   InterfaceBondForm |-> InterfaceBondForm,
   InterfaceBridgeForm |-> InterfaceBridgeForm,
   InterfaceDetailsForm |-> InterfaceDetailsForm,
   InterfaceEthernetForm |-> InterfaceEthernetForm,
   InterfaceVlanForm |-> InterfaceVlanForm,
   InterfaceWifiForm |-> InterfaceWifiForm,
   ProxyForm |-> ProxyForm]
=============================================================================
