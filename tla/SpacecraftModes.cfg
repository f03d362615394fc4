SPECIFICATION FairSpec
CONSTANTS
  ApiThreads = {a1}
  BootDuration = 2
  InitDuration = 2
INVARIANTS TypeOK PayloadOnlyInItsMode
PROPERTIES BootCompletesToInit AbortsOnlyWhenInterfered BootAndInitEnd CriticalHealthLeadsToSafe
