SPECIFICATION Spec
CONSTANTS
    PartLists <- Contents
    MaxAnswers = 1
INVARIANTS
    StoryTold
    AnswerKept
    ToolsPaired
    ChoiceUnderstood
CHECK_DEADLOCK FALSE
