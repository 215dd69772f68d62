CONSTANTS
    Targets <- AllTargets
    Scripts <- AllScripts
    WebScripts <- SomeWebScripts
    Missing = {"/none.html"}
    MaxFds = 3
    MaxClients = 3
SPECIFICATION WebSpec
INVARIANTS AnswersMatch LastAnswerIsLast OnlyBodiesFail PagesAreTrue PagesServed
PROPERTIES RequestsAnswered SignUpsAreConfirmed
CHECK_DEADLOCK FALSE
