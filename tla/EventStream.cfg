SPECIFICATION FairSpec
CONSTANT MaxEvents = 4
INVARIANTS EventsInOrder EndMeansAll
PROPERTIES ProcessingEnds
