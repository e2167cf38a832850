SPECIFICATION Spec
CONSTANTS
  Topics = {"cmd"}
  Birth = "homeassistant/status"
  BirthSet = FALSE
  MaxParts = 1
  MaxMsgs = 1
  MaxLines = 2
  Fans <- MCFans
  Lines = {"pwm", "rpm"}
  Commands = {"value"}
  Text <- MCText
INVARIANT NameCallsEntry
CHECK_DEADLOCK FALSE
