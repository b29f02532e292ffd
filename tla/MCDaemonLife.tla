---- MODULE MCDaemonLife ----
(* Values for DaemonLife: two drivers that load and one that is too new, but
   only one driver ID to give. *)
EXTENDS DaemonLife

MCInfo ==
  LET Plugin(device, function) ==
        [device |-> device, opens |-> TRUE, configures |-> TRUE, starts |-> TRUE,
         version |-> <<0, 10, function>>]
  IN [x \in Plugins |-> CASE x = "elan.so" -> Plugin("elan", 2)
                          [] x = "next.so" -> Plugin("next", 3)
                          [] OTHER         -> Plugin("vfs", 1)]
MCFramework == <<0, 10, 2>>

Section3(n, d) == [name |-> n, enable |-> "true", driver |-> d, other |-> None]
MCFiles ==
  { [state |-> "good",
     sections |-> <<Section3("next", "next.so"), Section3("elan", "elan.so"), Section3("vfs", "vfs.so")>>],
    [state |-> "broken", sections |-> <<Blank("elan")>>],
    [state |-> "absent", sections |-> <<>>] }

MCCommands ==
  { [does |-> "add", name |-> "elan", driver |-> "elan.so", force |-> TRUE, disable |-> TRUE],
    [does |-> "remove", names |-> {"elan"}, ignore |-> FALSE],
    [does |-> "set", name |-> "elan", field |-> "enable", value |-> "false",
     force |-> TRUE, ignore |-> FALSE],
    [does |-> "unset", name |-> "elan", field |-> "driver", ignore |-> FALSE] }
====
