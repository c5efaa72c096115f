SPECIFICATION Spec
CONSTANTS
  Shapes <- MCShapes
  Servers <- MCServers
  MaxCompletions = 2
  MaxAside = 0
  MaxLengths <- MCMaxLengths
  Longest = 99
  RewardLists <- MCRewardLists
  LossSettings <- MCLossSettings
INVARIANT InterstitialsAreNotReplies
CHECK_DEADLOCK FALSE
