SPECIFICATION Spec
CONSTANTS
    Calls = {"read", "read_exact", "recv_exact", "write", "sendmsg", "writev", "accept", "connect"}
    Builds = {"plain", "hooked"}
    Lengths = {1, 2}
    Iovs <- MCIovs
    Capacity = 1
    StreamLen <- MCStreamLen
INVARIANT StreamIntact
PROPERTY NoShortCount
PROPERTY TransferCompletes
