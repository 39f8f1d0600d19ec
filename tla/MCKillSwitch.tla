---------------------------- MODULE MCKillSwitch ----------------------------
(* Small instances of KillSwitch for TLC.                                  *)
EXTENDS KillSwitch

CONSTANTS h1, site, lan, api, other

WgAll    == [proto |-> "wg", split |-> 0, server |-> h1, sites |-> {}, dns |-> {other}]
WgOnly   == [WgAll EXCEPT !.split = 1, !.sites = {site}]
WgExcept == [WgAll EXCEPT !.split = 2, !.sites = {site}]
OvpnAll  == [WgAll EXCEPT !.proto = "ovpn"]
OvpnOnly == [WgOnly EXCEPT !.proto = "ovpn"]
XrayAll  == [WgAll EXCEPT !.proto = "xray"]

AllConfigs == {WgAll, WgExcept, WgOnly, OvpnAll, OvpnOnly, XrayAll}
=============================================================================
