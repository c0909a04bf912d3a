------------------------------- MODULE UdpPath -------------------------------
(***************************************************************************)
(* Telemetry that arrives by UDP (cargopit/src/udp.rs, acr.rs): the kernel *)
(* queues what is sent to the bound port, and one poll of a mapping takes  *)
(* one packet.  PlayLoop has the port and the socket.                      *)
(***************************************************************************)
EXTENDS Naturals, Sequences

CONSTANT MaxQueue   \* bound: packets in the socket's buffer

VARIABLE queue      \* of the socket that is bound

\* A packet of the Assetto Corsa Rally bridge, known by its magic; one of the
\* game; an empty one.
PacketKinds == {"acr", "game", "empty"}
QueueTypeOK == queue \in Seq(PacketKinds)

\* A full buffer drops what comes.
Arrive ==
    /\ Len(queue) < MaxQueue
    /\ \E kind \in PacketKinds : queue' = Append(queue, kind)

\* bind_requested: another socket has another buffer.
Rebound(old, new) == IF new = old THEN queue ELSE <<>>

\* route_udp
Route(packet) ==
    CASE packet = "empty" -> "Ignore"
      [] packet = "acr" -> "Acr"
      [] packet = "game" -> "Datamap"

\* recv_packet: the oldest packet, and the others wait for the next poll.
RecvPacket == queue' = Tail(queue)
=============================================================================
