SPECIFICATION Spec
CONSTANTS
    Sources = {"assessment"}
    Profiles = {"tcp_connect", "tcp_tagged", "udp_tagged", "icmp_echo"}
    Addresses = {1, 9, 10, 11}
    TextRank <- Text
    Loopback = {1}
    Network = {9, 10}
    Peer = 9
    Answers = {{9}}
    AllPorts = {80, 443}
    Window = 2
    MaxAttempts = 8
    MaxHosts = 4
    Envelope = 1000
    MaxTime = 1
    MaxShown = 1
    None = none
CHECK_DEADLOCK FALSE
INVARIANTS
    PreviewIsConfirmable
