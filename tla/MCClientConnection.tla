------------------------ MODULE MCClientConnection ------------------------
EXTENDS ClientConnection, TLC

\* Recovery threads are interchangeable, and so are session threads.
MCSymmetry == Permutations(Callers) \cup Permutations(Recoverers)

BothCalls == {"connect", "disconnect"}

ConnectOnly == {"connect"}

============================================================================
