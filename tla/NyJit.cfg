CONSTANTS
    f = f
    g = g
    puts = puts
    missing = missing
    Name <- Names
    Encoded <- Modules
    HostAnswer <- Answers
    MaxLinks = 2
SPECIFICATION Spec
INVARIANTS TypeOK NoLeak TrampolinesSuffice ExportsUsable
PROPERTY LinksAreAtomic
