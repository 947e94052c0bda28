SPECIFICATION Spec
INVARIANT EveryCommandShownOnceInItsRow
