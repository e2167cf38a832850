----------------------------- MODULE MCConfigStore -----------------------------
\* Three sensors, two fans, and what is entered: of every kind of setting a value that is
\* accepted as it is, one that is cut or clamped, and one that is refused.
EXTENDS ConfigStore

MCFilters == {<<"sma", "4">>}
MCNumbers == {0, 2, 257}
MCMasks == {{0, 2}, {}}
MCAddresses == {<<"s1", "any", "s2">>}
MCAccessLists == {<<8, 32, 16>>, <<0, 16>>}
MCFanSources == {<<"sensor", 2>>, <<"fan", 9>>}
MCTachoSources == {<<"avg", <<1, 2, 9>>>>, <<"max", <<2, 1, 3>>>>, <<"fan", <<2>>>>}
MCRpmModes == {[mode |-> "lra", treshold |-> 70000, invert |-> TRUE],
               [mode |-> "tacho"]}
MCCoefficients == {-5, 20000}
MCTimeouts == {-1}
MCSourceLists == {<<3, 101, 1>>, <<102, 2, 1, 3>>}

\* Another unit: two keys, a filter, and a connector that combines fans.
MCElsewhere ==
  [Cleared EXCEPT !.ssh_pub_keys = [i \in 1..KeySlots |-> IF i = 1 THEN "ann" ELSE IF i = 2 THEN "ben" ELSE ""],
                  !.fan.filter = <<"sma", "4">>, !.fan.map = "linear",
                  !.mbfan.s_type = "avg", !.mbfan.sources = {0, 1}, !.ssh_acls = InSlots(<<8>>, AclSlots, 0),
                  !.vsensor.mode = "avg", !.vsensor.sensors = <<1, 3>>]

===============================================================================
