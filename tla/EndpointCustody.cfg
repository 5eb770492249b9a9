SPECIFICATION Spec
CONSTANTS
  l1 = l1
  l2 = l2
  p1 = p1
  p2 = p2
  w1 = w1
  Launch = {l1, l2}
  Pane = {p1, p2}
  Headless = {p1}
  Unseen = {l2}
  Work = {w1}
  NoOne = NoOne
  MaxAttempts = 2
  MaxGen = 3
  MaxStarted = 3
  MaxMessages = 1
  MaxRestarts = 1
PROPERTIES LoserEndsNothing OwnLossCounts LiveHolderNotGone
  ClaimHeldForLiveChild SupersededStaysDown RequestDecided
CHECK_DEADLOCK FALSE
