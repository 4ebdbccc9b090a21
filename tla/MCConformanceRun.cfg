SPECIFICATION Spec
CONSTANTS
  Corpus <- MCCorpus
  InProcess = {"p"}
  Executors <- MCExecutors
  Only <- MCOnly
  Jobs = 2
  Outcomes <- MCOutcomes
  Unsupported <- MCUnsupported
  ExpectedFail <- MCExpectedFail
  MaxRuns = 2
  MaxFaults = 2
INVARIANTS
  OnlyAnUnmovedLinkWedges
  NoProcessOutlives
  VerdictSound
PROPERTIES
  LabMatchesScenario
  PassIsEarned
  RunsEnd
