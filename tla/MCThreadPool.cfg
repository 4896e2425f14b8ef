\* The loop in the caller, two workers or three, over four jobs, two of which may throw; the counter cannot wrap.
CONSTANTS
    Start = 1
    End = 5
    ThreadArgs = {0, 1, 2}
    HardwareThreads = 3
    SizeMod = 9
    MayThrow <- ConstThrowing
    NoException <- NoEx
SPECIFICATION FairSpec
INVARIANTS TypeOK AtMostOnce NormalMeansAll ExceptionIsReported QuietAfterReturn
PROPERTIES Terminates ImplementsJobSet
