CONSTANTS
    CPUs = {c1, c2, c3}
    NoCpu = NoCpu
SPECIFICATION FairLockSpec
INVARIANT NoLostWakeup
PROPERTIES ImplementsLock FreeLockTaken
