---------------------------- MODULE MCKcpListener ----------------------------
(* Instances of KcpListener for TLC. *)
EXTENDS KcpListener, TLC

\* Only the task reads the socket, or one client is read with AsyncRead as well.
CONSTANT Polled
MCReadings == {{}, Polled}
AsyncOnly == {Polled}

\* Clients that are read in the same way may be exchanged.
KeySymmetry == Permutations(Key \ Polled)
=============================================================================
