CONSTANTS
    Kinds = {"echo", "dns", "udp", "load"}
    Programs = {"line", "select", "poll", "epoll", "libev"}
    Inputs = {"tty", "pipe", "file"}
    Chunk = 1
    Cap = 2
    MaxTyped = 6
    DnsPrograms = {"sync", "async"}
    domain <- Domains
    Zone <- Records
    Ports = {1, 2}
    MaxFds = 2
    MaxDups = 1
    Connects = {TRUE, FALSE}
    Lines = 3
    EchoDups = 2
    LoadMax = 3
    Batch = 2
    LoadFds = {1, 2, 3}
SPECIFICATION FairSpec
INVARIANTS TypeOK EndsRight NoMutualBlock Truthful OnceEach
PROPERTIES Ends Answered
CHECK_DEADLOCK FALSE
