---------------------------- MODULE MCEchoServers ----------------------------
(* Instances of EchoServers for TLC. *)
EXTENDS EchoServers, TLC

\* The servers whose liveness is checked: demo2 throws away what comes while an
\* answer is due and can wait for ever in accept() after EBADF, and demo1 and udptcp
\* differ from thread and process only where errors are concerned.
LiveKinds == AllKinds \ {"demo2", "demo1", "udptcp"}

\* Two units from each peer matter where what was read is kept in a buffer.
OneUnit == AllKinds \ {"demo3", "reactor"}

\* What an uninitialised slot may hold: a free slot's mark or a descriptor number.
AnyFd == Fds \cup {-1}

\* Peers are interchangeable.
PeerSymmetry == Permutations(Peers)
=============================================================================
