\* Three descriptors that come and go, tasks that fail or hang, an interrupt, a shutdown.
CONSTANT Descriptors = {1, 2, 3}
SPECIFICATION Spec
INVARIANTS TypeOK ReturnedMeansAllSucceeded NoTaskOutlivesTheCall
PROPERTIES NothingStartsAfterInterrupt InterruptFreesTheCaller
