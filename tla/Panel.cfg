SPECIFICATION FairPanel
CONSTANTS
    Panels = {{"CONT", "SSTEP", "SINST", "IF"}, {"STOP", "SSTEP", "SINST"},
              {"START", "SSTEP", "SINST"}, {"CONT", "START", "STOP"},
              {"START", "LADD", "STOP"}, {"CONT", "DEP", "EXAM"}}
    MaxInterval = 1
    NLEDs = 2
    MaxCount = 1
    Delays = FALSE
INVARIANTS PanelTypes ContResumes
PROPERTIES BlankSlate CountsBounded StopShows OnePerPress SingleSteps PromptReached StopStops
