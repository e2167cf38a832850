SPECIFICATION FairSpec
CONSTANTS
  Topics = {"cmd", "other"}
  Birth = "homeassistant/status"
  BirthSet = TRUE
  MaxParts = 2
  MaxMsgs = 2
  MaxLines = 1
  Fans <- MCFans
  Lines = {"topic", "no_topic", "limit", "chain", "twice", "level"}
  Commands = {"value", "name", "more"}
  Text <- MCText
INVARIANTS RunsAsAccepted AnswersMatch OwnItem
PROPERTIES OnlyWrites QueueDrains
CHECK_DEADLOCK FALSE
