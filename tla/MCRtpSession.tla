---------------------------- MODULE MCRtpSession ----------------------------
EXTENDS RtpClient, TLC

\* The poll threads, the addresses and the threads that do not control the
\* session are interchangeable.
Symmetry ==
    Permutations(Polls) \cup Permutations(Addrs)
        \cup Permutations(Apps \ {Control})
=============================================================================
