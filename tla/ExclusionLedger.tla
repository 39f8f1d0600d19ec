-------------------------- MODULE ExclusionLedger ---------------------------
(***************************************************************************)
(* What the daemon promises about the addresses that bypass the tunnel:    *)
(* activate, switchServer and deactivate each exchange one configuration's *)
(* references for another's at once, however many requests to the tunnel   *)
(* process they wait for, and a command that fails exchanges nothing.      *)
(* What a switch cannot read of the old configuration it keeps, until a    *)
(* deactivate gives everything back.                                       *)
(***************************************************************************)
EXTENDS Integers

CONSTANTS
  Prefixes,  \* addresses that can be excluded
  Configs,   \* configurations; NoConfig when none is in use
  NoConfig

VARIABLES
  cfg,  \* the configuration in use
  held  \* references held on each address

vars == <<cfg, held>>

\* How often a configuration lists each address.
Wanted(c) == [p \in Prefixes |-> IF c = NoConfig THEN 0 ELSE c.plain[p] + c.cidr[p]]

\* How often a switch away from a configuration gives each address back: once
\* for every string that is an address without a prefix length.
Read(c) == [p \in Prefixes |-> IF c = NoConfig THEN 0 ELSE c.plain[p]]

Init == cfg = NoConfig /\ held = Wanted(NoConfig)

\* activate, with or without a configuration in use: the new references are
\* taken and the old ones given back, if they can be read and are held.
Use(new) ==
  /\ cfg' = new
  /\ held' = [p \in Prefixes |->
                LET n == held[p] + Wanted(new)[p] - Read(cfg)[p]
                IN IF n < 0 THEN 0 ELSE n]

\* deactivate, also the one inside activate.
Release == cfg' = NoConfig /\ held' = Wanted(NoConfig)

\* The old server's peer could not be deleted: the old configuration counts as
\* the one in use again, with the references of the new one.
Revert(old) == cfg # NoConfig /\ cfg' = old /\ held' = held

Next == Release \/ \E c \in Configs : Use(c) \/ Revert(c)

Spec == Init /\ [][Next]_vars
=============================================================================
