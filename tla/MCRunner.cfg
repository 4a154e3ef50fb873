SPECIFICATION Spec
CONSTANTS
  a = a  b = b
  Item = {a, b}
  Start <- MCStart
  Line <- MCLine
  Recording = {"research"}
  Excludable = {"brief"}
  Providers <- MCProviders
  ShortForm = {"tiktok"}
  RetryCap = 2
  MaxMishap = 1
PROPERTIES EveryItemGetsItsTurn OneFailurePerRun RunEnds SettlesOrIsRefused
