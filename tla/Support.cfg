SPECIFICATION Spec
CONSTANTS
  Prints = {1, 2}
  Environments <- Candidates
  ByHand = {"release-provenance", "program-change-control",
            "canary-verification", "live-readiness-programs-providers",
            "deployment-evidence", "deployment-attestation"}
  MaxLaunches = 3
  Configurations <- MixedConfigurations
  LastPort = 4
  MaxAttempts = 3
  Items = {coin, badge}
  NoAnswer = NoAnswer
  Amounts = {1, 19, 20, 33, 49, 50, 99, 10000, 10033}
  MaxFundings = 4
INVARIANTS
  ListeningIsAllowed
  PortfolioIsHonest
  CommissionsAgree
PROPERTIES
  PassedGateIsFresh
  FailedCandidateIsNotRecorded
  UpgradesAreApproved
CHECK_DEADLOCK FALSE
