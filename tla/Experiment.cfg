\* Both programs, with and without 2PL; the last window is complete or is not.
SPECIFICATION FairSpec
CONSTANTS
    Total = 3
    Widths = {1, 2, 3}
    MaxUpdates = 2
    EndOfStream = EndOfStream
    Tuple = Tuple
    NoThread = NoThread
INVARIANTS
    WholeResults
    NoLostWakeup
    ReportsFinalNumbers
PROPERTY ExperimentEnds
\* After its end there is nothing left of an experiment.
CHECK_DEADLOCK FALSE
