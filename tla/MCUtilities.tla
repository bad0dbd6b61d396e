----------------------------- MODULE MCUtilities -----------------------------
(***************************************************************************)
(* Utilities for TLC.  The resolver has two namespaces, one of them named  *)
(* twice and one given to a tenant, and an item without a name.            *)
(***************************************************************************)
EXTENDS Utilities, Sequences, TLC

CONSTANTS a1, a2

Item(name, tenants, subnets) == [name |-> name, tenants |-> tenants, subnets |-> subnets]
TwoSpaces == <<Item("n1", {}, {}), Item("n2", {"blue"}, {}), Item("n1", {}, {})>>
WithSubnet == <<Item("", {"blue"}, {a1}), Item("n2", {}, {a1}), Item("n1", {}, {})>>

Config(items, template, default) ==
  [items |-> items, template |-> template, detect |-> TRUE, default |-> default]
TwoConfigs == {Config(TwoSpaces, FALSE, "host"), Config(WithSubnet, TRUE, "")}

Target(ns, tenant, address) == [netns |-> ns, tenant |-> tenant, address |-> address]
FiveTargets == {Target("", "", a1), Target("", "", a2), Target("", "blue", a2),
                Target("n1", "blue", a1), Target("", "red", NoAddress)}
Rendered == [tenant \in {"blue", "red"} |-> "tenant-" \o tenant]
=============================================================================
