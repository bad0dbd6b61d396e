\* Two Starts: an instance, and its restart after a Stop that may time out,
\* under the fairness of the goroutines and of the kernel.
CONSTANT MaxStarts = 2
SPECIFICATION FairSpec
INVARIANTS TypeOK StopLeavesNothing SocketServed
PROPERTIES ImplementsSupervision CancellationEnds CrashIsRetried FalseRunningEnds FalseStoppedEnds
