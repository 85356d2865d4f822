CONSTANTS
    Parts = {"stream", "rtt", "endpoint", "demo"}
    Fds = {1, 2}
    Calls = {"readn", "writen", "readline"}
    N = 3
    ReadBuf = 3
    Newlines = {1, 4}
    StreamLength = 6
    Samples = {0, 1, 4, 90}
    MaxPackets = 4
    MaxStops = 3
    Opens = {"tcp_connect", "tcp_listen", "udp_client", "udp_connect", "udp_server", "connect_nonb", "connect_timeo"}
    Addresses = 3
    Demos <- MCDemos
    Workers = 4
    Turns = 2
SPECIFICATION FairSpec
INVARIANTS TypeOK TransfersRight RetransmitsRight OpensRight RightResult NoDataRace
PROPERTIES RefinesFifo AllEnd
CHECK_DEADLOCK FALSE
