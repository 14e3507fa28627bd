----------------------------- MODULE MCDhcpNet -----------------------------
(***************************************************************************)
(* A small instance of DhcpNet for TLC: the client and another one compete *)
(* for one address.  Its last byte is 255, in a network where that is an   *)
(* ordinary host: find_address hands it out, but valid_ip does not let a   *)
(* client without a record have it, so a late renewal meets a NAK.         *)
(***************************************************************************)
EXTENDS DhcpNet, TLC

CONSTANTS c1, c2

NoStatic == << >>

\* What has just been received or sent is read by no action.
Memory == <<leases, staticACKed, file, timeout_end, clock, pc, nread, i,
            state, opts, ip, srv, due, num, mode, fd, sock, pipe,
            lease, t1, t2, age, held, left, links>>

=============================================================================
