CONSTANTS
    NThreads = 3
    Stoppers = {s1, s2}
    Main = Main
SPECIFICATION Spec
INVARIANT TypeOK
INVARIANT WorkersUseLiveMemory
INVARIANT NothingLeft
INVARIANT OneStopper
 
CHECK_DEADLOCK FALSE
