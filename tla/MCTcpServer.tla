---------------------------- MODULE MCTcpServer ----------------------------
(* Instance of TcpServer: two connections, from one address or from two.    *)
EXTENDS TcpServer

CONSTANTS c1, c2

MCClients == {f \in [Conns -> Addrs] : f[c1] = 1}
=============================================================================
