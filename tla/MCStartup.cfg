SPECIFICATION FairSpec
CONSTANTS
  c1 = c1
  c2 = c2
  Configurations <- TwoConfigurations
  Garbled = Garbled
  Empty = Empty
  StartLimitBurst = 5
  MaxFailures = 6
INVARIANT ServesWhatWasAnswered
PROPERTY ComesToServe
