\* Claims of the multiplexer that do not hold; section 4 of README.md.  As it stands, a
\* launcher meets a server in the foreground between bind and listen.  With
\*     Foreground = {}, Upsets = {"slow unlink"} or {"inode reuse"}
\* a server that leaves removes the socket of the next one, and with
\*     Conns = {a}, Foreground = {}, MaxCrashes = 0, Upsets = {"stopped peer"},
\*     SPECIFICATION FairSpec, PROPERTY ServerEnds
\* a server that wants to end waits for its peer.
SPECIFICATION Spec
CONSTANTS
    Conns = {a, b}
    Secure = {}
    ErrRoom = 1
    MaxLines = 1
    Foreground = {a}
    Free = Free
    MaxCrashes = 1
    Upsets = {}
INVARIANT Reachable
CHECK_DEADLOCK FALSE
