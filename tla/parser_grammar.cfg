SPECIFICATION AlgorithmsSpec
CONSTANTS
    Text <- Texts
    MaxLength = 7
    MaxDepth = 2
    MaxTasks = 3
    MaxArith = 4
    MaxMixed = 2
    Nil = Nil
    MessageType <- Types
    Samples <- SampleMessages
    NewerField <- NewerFields
    MaxHops = 2
INVARIANT AcceptsOnlyTheGrammar
CHECK_DEADLOCK FALSE
