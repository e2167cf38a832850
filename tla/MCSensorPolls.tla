----------------------------- MODULE MCSensorPolls -----------------------------
(* Four virtual sensors: two on I2C, one on 1-Wire, and a combination that comes    *)
(* before or after its sources.  Every device has temperatures of its own.          *)
EXTENDS SensorPolls

I2cAt(d) == [mode |-> "i2c", device |-> d, chip |-> None, sources |-> <<>>]
OneWireAt(c) == [mode |-> "onewire", device |-> None, chip |-> c, sources |-> <<>>]
Of(mode, sources) == [mode |-> mode, device |-> None, chip |-> None, sources |-> sources]

MCDevices == {"d1", "d2"}
MCChips == <<"c1", "c2">>
MCValues == [d1 |-> {3}, d2 |-> {4}, c1 |-> {5}, c2 |-> {6}, adc |-> {2, 8}, written |-> {7}]
MCConfigs ==
  {<<I2cAt("d1"), I2cAt("d2"), OneWireAt("c2"), Of("max", <<1, 101, 103>>)>>,
   <<Of("min", <<102, 1>>), I2cAt("d2"), Of("delta", <<101, 104, 1>>), OneWireAt("c2")>>,
   <<Of("avg", <<103, 1, 104>>), I2cAt("d1"), Of("max", <<104, 102>>), OneWireAt("c1")>>}

===============================================================================
