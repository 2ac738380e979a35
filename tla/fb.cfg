SPECIFICATION FbFairSpec
CONSTANT HZ = 256
INVARIANT StoppedMeansStopped
PROPERTIES HookReturns DrawsAgain
