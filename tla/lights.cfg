SPECIFICATION LightSpec
CONSTANTS
  strip = strip
  relay = relay
  c1 = c1
  c2 = c2
  Nothing = Nothing
  Group = Group
  Lights = {strip, relay}
  Mode <- MCMode
  Inverted = {strip}
  Disabled = {relay}
  Grouped = {strip, relay}
  Commands = {c1}
  Levels = {1, 2}
  Default = 2
  Temps = {1, 2}
  Assumed = 3
  Ranges <- MCRanges
  MaxTurns = 2
  MaxOdds = 1
CHECK_DEADLOCK FALSE
INVARIANTS UnansweredIsNoState ShownIsTrue
PROPERTY DoneMeansDone
VIEW View
