CONSTANTS
  Url <- MCUrl
  Name <- MCName
  NameOf <- MCNameOf
  Target <- MCTarget
  Answers <- MCAnswers
  Links <- MCLinks
  HtmlNamed = {"home", "old", "new"}
  Typed = {"home", "old", "new"}
  Home = "home"
  MaxSlots = 3
  MaxSoc = 2
  Spare = 1
  Retries = 1
  MaxTrouble = 1
SPECIFICATION Spec
INVARIANTS HeldSlotKeepsLink RequestedOnce EveryLinkTaken
PROPERTY MirrorEnds
