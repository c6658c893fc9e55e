CONSTANTS
  Workers <- MCWorkers
  Walk <- MCWalk
  TreeOrder <- MCTreeOrder
  Tree <- MCTree
  Changed <- MCChanged
  Parent <- MCParent
  Author <- MCAuthor
  Blame <- MCBlame
  PrefixOf <- MCPrefixOf
  FlatName <- MCFlatName
  Ext <- MCExt
  Tracked <- MCTracked
  ToolOutputs <- MCToolOutputs
  PlagThreshold = 100
  MaxCommitCount = 8
  ToolMayHang = TRUE
  StaleScores <- MCStaleScores
  StaleEmails <- MCStaleEmails
  NoParent = NoParent
  BadName = BadName
  NoSignature = NoSignature
  Unparsable = Unparsable
  NoJob = NoJob
SPECIFICATION Spec
INVARIANT TypeOK
INVARIANT AttributionsMatchBlame
INVARIANT FinalScoresAreBestObserved
PROPERTY RunCompletes
PROPERTY ImplementsCompetenceTable
PROPERTY ImplementsParseDriverPath
\* basePath and outPath are left out of the fingerprint (see ControlView)
VIEW ControlView
