SPECIFICATION Spec
CONSTANTS
  Shapes <- MCShapes
  Servers <- MCServers
  MaxCompletions = 3
  MaxAside = 1
  MaxLengths <- MCMaxLengths
  Longest = 99
  RewardLists <- MCRewardLists
  LossSettings <- MCLossSettings
INVARIANTS SampledOnce ContextFaithful AppendingMerges RequestsValid StreamsAgree
  TrainedAsSampled CreditIsRelative EnvironmentIsTransparent
CHECK_DEADLOCK FALSE
