CONSTANTS
    None = None
    Objects <- MCObjects
    Times <- MCTimes
SPECIFICATION QueueSpec
PROPERTIES
    ImplementsSet
