\* One publisher under its manager: crashes, hangs, restarts, stop.
SPECIFICATION FairSpec
CONSTANT MaxRestarts = 2
INVARIANTS TypeOK OneChild StoppedIsDead PublisherWatched
PROPERTIES ImplementsSupervisor HungIsKilled RestartFollows StopReturns
