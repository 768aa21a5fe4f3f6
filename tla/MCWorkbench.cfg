SPECIFICATION CloneSpec
CONSTANTS
  MODULES <- MCModules
  NOCLUSTER <- MCNoCluster
  AnswerKeys <- MCAnswerKeys
  Proposals <- MCProposals
  Words <- MCWords
  None = None
  Nil = Nil
INVARIANTS TypeOK DoneEarned TodoHasCause MarkAgrees DeployerBounded  WavesKeepOrder ExitMatchesReport RedactionExact
PROPERTIES EveryCallAnswered
