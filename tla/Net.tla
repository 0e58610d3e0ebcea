-------------------------------- MODULE Net --------------------------------
(***************************************************************************)
(* The network: the rings of drivers/net/virtio_net.c, shared with the     *)
(* device, and the DHCP client of kernel/net/dhcp.c that sends and         *)
(* receives through them.                                                  *)
(*                                                                         *)
(* net_poll runs in the pass after an interrupt, once at a time; the       *)
(* device works between any two of its steps.  Beyond the device are       *)
(* servers, and a wire that loses, repeats and reorders.                   *)
(***************************************************************************)
EXTENDS Integers, Sequences

CONSTANTS
  QueueSize,        \* VIRTIO_NET_QUEUE_SIZE
  IndexMod,         \* values of a ring index, a multiple of QueueSize
  Servers,          \* DHCP servers that answer
  AddressOf,        \* the address each has for this client, or None
  SiblingAddressOf, \* and for another client that runs this image, or None
  Strays,           \* kinds of other frames that arrive: see Stray
  RUNTIME_NETWORK_FRAME_BUDGET,
  None              \* no address, no server: 0 in the code

ASSUME NetAssumption ==
  /\ QueueSize \in Nat \ {0} /\ IndexMod \in Nat
  /\ IndexMod > QueueSize /\ IndexMod % QueueSize = 0
  /\ None \notin Servers /\ Strays \subseteq {"foreign", "truncated", "empty"}

VARIABLES
  g_rx_avail, g_rx_used,      \* [idx, ring]; the ring of ids
  g_rx_buf, last_used_idx,
  g_tx_avail, g_tx_used,      \* the indices; the descriptor is always 0
  g_tx_last_used, g_tx_pending, g_tx_buf,
  g_net_info,
  at,                         \* where the driver is: "spin" in a send
  received,                   \* RUNTIME_METRIC_NETWORK_FRAMES of the pass
  rx_seen, tx_seen,           \* the device's own positions
  wire, heard,                \* frames of servers; messages they received
  arrived, published          \* history: what each side has handed over

rx == <<g_rx_avail, g_rx_used, g_rx_buf, last_used_idx, rx_seen, arrived>>
tx == <<g_tx_avail, g_tx_used, g_tx_last_used, g_tx_pending, g_tx_buf, tx_seen,
        published>>
vars == <<rx, tx, g_net_info, at, received, wire, heard>>

Slots == 0 .. QueueSize - 1
Next16(i) == (i + 1) % IndexMod
-----------------------------------------------------------------------------
(* Frames *)

(* An option: `fits` when it ends before the packet does.  One that is too *)
(* short for its code counts as a code of no interest.                     *)
Option(code, value) == [code |-> code, value |-> value, fits |-> TRUE]
End == Option("end", None)

(* A frame from the wire. whole: longer than the header of the device;     *)
(* udp: IPv4 and UDP for the client's port; mine: for this host or all.    *)
Reply(xid, yiaddr, options) ==
  [whole |-> TRUE, mine |-> TRUE, udp |-> TRUE, xid |-> xid,
   yiaddr |-> yiaddr, options |-> options]
Offer(s, ip) ==
  Reply("own", ip, <<Option("msg_type", "OFFER"), Option("server_id", s), End>>)
Ack(s, ip) ==
  Reply("own", ip,
        <<Option("msg_type", "ACK"), Option("pad", None), Option("router", s),
          Option("server_id", s), End>>)

(* The addresses in frames with the client's xid.  The xid is a constant   *)
(* of the image and answers are broadcast, so that those to another client *)
(* of the same image cannot be told from one's own: chaddr is not looked   *)
(* at.                                                                     *)
Addresses == {AddressOf[s] : s \in Servers} \cup {SiblingAddressOf[s] : s \in Servers}

(* Other frames: an answer to a client of another kind, one cut off in an  *)
(* option, and a header alone.                                             *)
Stray ==
  [foreign |-> Reply("other", "elsewhere", <<Option("msg_type", "ACK"), End>>),
   truncated |-> Reply("own", "elsewhere",
     <<Option("msg_type", "ACK"), [Option("dns", "elsewhere") EXCEPT !.fits = FALSE]>>),
   empty |-> [Reply("own", None, <<>>) EXCEPT !.whole = FALSE]]
Noise == {Stray[kind] : kind \in Strays}

(* Messages of the client. *)
Discover == [type |-> "DISCOVER", server |-> None, ip |-> None]
Request(server, ip) == [type |-> "REQUEST", server |-> server, ip |-> ip]
-----------------------------------------------------------------------------
(* kernel/net/dhcp_options.c *)

Codes == {"msg_type", "subnet", "router", "dns", "server_id"}

(* It stops at the end marker, or with -1 at an option that does not fit;  *)
(* of several options with one code the last counts.                       *)
dhcp_options_parse(options) ==
  LET read == {n \in DOMAIN options : \A k \in 1 .. n : options[k].code # "end"}
      Latest(code) == {n \in read : /\ options[n].code = code
                                  /\ \A k \in read : k > n => options[k].code # code}
  IN [rc |-> IF \E n \in read : options[n].code # "pad" /\ ~options[n].fits THEN -1 ELSE 0,
      out |-> [code \in Codes |->
                 IF Latest(code) = {} THEN None
                 ELSE options[CHOOSE n \in Latest(code) : TRUE].value]]
-----------------------------------------------------------------------------
(* The client's side of the protocol: g_net_info after a frame. *)

Or(value, old) == IF value = None THEN old ELSE value

(* Fault: the server of the first offer is kept with the address of the    *)
(* last.                                                                   *)
parse_dhcp_offer_FirstServer(info, f, out) ==
  [info EXCEPT !.ip = f.yiaddr, !.dhcp_state = "OFFER",
               !.dhcp_server = Or(@, out["server_id"])]

parse_dhcp_offer(info, f, out) ==
  [info EXCEPT !.ip = f.yiaddr, !.dhcp_state = "OFFER",
               !.dhcp_server = Or(out["server_id"], @)]

parse_dhcp_ack(info, f, out) ==
  [info EXCEPT !.ip = f.yiaddr, !.dhcp_state = "ACK", !.discovered = TRUE,
               !.subnet = Or(out["subnet"], @), !.gateway = Or(out["router"], @),
               !.dns = Or(out["dns"], @), !.dhcp_server = Or(out["server_id"], @)]

parse_udp_packet(info, f) ==
  LET p == dhcp_options_parse(f.options)
  IN IF f.xid # "own" \/ p.rc # 0 THEN info
     ELSE CASE p.out["msg_type"] = "OFFER" -> parse_dhcp_offer(info, f, p.out)
            [] p.out["msg_type"] = "ACK" -> parse_dhcp_ack(info, f, p.out)
            [] OTHER -> info

(* With parse_ip_packet. *)
parse_eth_frame(info, f) == IF f.mine /\ f.udp THEN parse_udp_packet(info, f) ELSE info
-----------------------------------------------------------------------------
(* virtio_net_tx_reclaim_completed *)
TxDone == g_tx_used # g_tx_last_used

(* Fault: the buffer is reused while the device may still have to read it. *)
TxFree_Always == TRUE

TxFree == TxDone \/ ~g_tx_pending

(* virtio_net_send up to the notification, then the wait: see SpinDone. *)
virtio_net_send(m) ==
  /\ g_tx_last_used' = g_tx_used
  /\ IF TxFree
     THEN /\ g_tx_buf' = m
          /\ g_tx_avail' = Next16(g_tx_avail)
          /\ g_tx_pending' = TRUE
          /\ published' = Append(published, m)
          /\ at' = "spin"
     ELSE UNCHANGED <<g_tx_buf, g_tx_avail, g_tx_pending, published>> /\ at' = "idle"
  /\ UNCHANGED <<g_tx_used, tx_seen>>

(* virtio_net_init; the rings are all zero before it. *)
virtio_net_init ==
  /\ g_rx_avail' = [idx |-> QueueSize, ring |-> [i \in Slots |-> i]]
  /\ g_rx_used' = [idx |-> 0, ring |-> [i \in Slots |-> 0]]
  /\ last_used_idx' = 0 /\ rx_seen' = 0
  /\ UNCHANGED <<g_rx_buf, arrived>>

(* The device is missing or refuses the features. *)
InitFails == at = "boot" /\ at' = "off" /\ UNCHANGED <<rx, tx, g_net_info, received, wire, heard>>

NoInfo == [discovered |-> FALSE, dhcp_state |-> "NONE", ip |-> None, subnet |-> None,
           gateway |-> None, dns |-> None, dhcp_server |-> None]

(* It sends the only DISCOVER. *)
net_init ==
  /\ at = "boot"
  /\ virtio_net_init
  /\ g_net_info' = NoInfo
  /\ virtio_net_send(Discover)
  /\ UNCHANGED <<received, wire, heard>>

(* The wait of virtio_net_send ends with the frame sent, or at its limit   *)
(* with g_tx_pending still set.                                            *)
SpinDone ==
  /\ at = "spin" /\ TxDone
  /\ g_tx_last_used' = g_tx_used /\ g_tx_pending' = FALSE
  /\ at' = "idle"
  /\ UNCHANGED <<rx, g_tx_avail, g_tx_used, g_tx_buf, tx_seen, published,
                 g_net_info, received, wire, heard>>

SpinLimit ==
  /\ at = "spin"
  /\ at' = "idle"
  /\ UNCHANGED <<rx, tx, g_net_info, received, wire, heard>>
-----------------------------------------------------------------------------
(* net_poll *)

PollStart ==
  /\ at = "idle" /\ at' = "drain" /\ received' = 0
  /\ UNCHANGED <<rx, tx, g_net_info, wire, heard>>

(* The frame virtio_net_recv would return; the ids come from the device,   *)
(* which keeps to the ones posted.                                         *)
NextId == g_rx_used.ring[last_used_idx % QueueSize]
NextFrame == g_rx_buf[NextId]

(* virtio_net_recv with a frame in the used ring: it is copied, and its    *)
(* descriptor posted again.                                                *)
virtio_net_recv ==
  /\ g_rx_used.idx # last_used_idx
  /\ g_rx_avail' = [idx |-> Next16(g_rx_avail.idx),
                    ring |-> [g_rx_avail.ring EXCEPT ![g_rx_avail.idx % QueueSize] = NextId]]
  /\ last_used_idx' = Next16(last_used_idx)
  /\ arrived' = Tail(arrived)
  /\ UNCHANGED <<g_rx_used, g_rx_buf, rx_seen>>

(* runtime_service_virtio_net_recv *)
MayReceive == received < RUNTIME_NETWORK_FRAME_BUDGET

DrainFrame ==
  /\ at = "drain" /\ MayReceive /\ NextFrame.whole
  /\ virtio_net_recv
  /\ received' = received + 1
  /\ g_net_info' = parse_eth_frame(g_net_info, NextFrame)
  /\ UNCHANGED <<tx, at, wire, heard>>

(* Fault: a request is sent once. *)
AfterDrain_Once ==
  IF ~g_net_info.discovered /\ g_net_info.dhcp_state = "OFFER"
  THEN /\ virtio_net_send(Request(g_net_info.dhcp_server, g_net_info.ip))
       /\ g_net_info' = [g_net_info EXCEPT !.dhcp_state = "REQUEST"]
  ELSE at' = "idle" /\ UNCHANGED <<tx, g_net_info>>

(* The rest of net_poll, with send_dhcp_request: sent again by every poll  *)
(* until the lease is there.                                               *)
AfterDrain ==
  /\ IF ~g_net_info.discovered /\ g_net_info.dhcp_state = "OFFER"
     THEN virtio_net_send(Request(g_net_info.dhcp_server, g_net_info.ip))
     ELSE at' = "idle" /\ UNCHANGED tx
  /\ UNCHANGED g_net_info

(* No frame is left; or, once one was read, the budget is used up or the   *)
(* deadline of the pass is missed.                                         *)
DrainEnd ==
  /\ at = "drain"
  /\ g_rx_used.idx = last_used_idx \/ received > 0
  /\ AfterDrain
  /\ UNCHANGED <<rx, received, wire, heard>>

(* A frame with no more than the device's header: the length is 0, which   *)
(* ends the loop as well.                                                  *)
DrainEmptyFrame ==
  /\ at = "drain" /\ MayReceive /\ ~NextFrame.whole
  /\ virtio_net_recv
  /\ AfterDrain
  /\ UNCHANGED <<received, wire, heard>>

net_poll == PollStart \/ DrainFrame \/ DrainEmptyFrame \/ DrainEnd
-----------------------------------------------------------------------------
(* The device, the wire and the servers: external. *)

Deliver(f) ==
  /\ at \notin {"boot", "off"} /\ rx_seen # g_rx_avail.idx
  /\ f \in wire \cup Noise
  /\ LET id == g_rx_avail.ring[rx_seen % QueueSize]
     IN /\ g_rx_buf' = [g_rx_buf EXCEPT ![id] = f]
        /\ g_rx_used' = [idx |-> Next16(g_rx_used.idx),
                         ring |-> [g_rx_used.ring EXCEPT ![g_rx_used.idx % QueueSize] = id]]
  /\ rx_seen' = Next16(rx_seen)
  /\ arrived' = Append(arrived, f)
  /\ UNCHANGED <<g_rx_avail, last_used_idx, tx, g_net_info, at, received,
                 wire, heard>>

(* The device reads the buffer when it gets to it. *)
Transmit(reaches) ==
  /\ tx_seen # g_tx_avail
  /\ tx_seen' = Next16(tx_seen)
  /\ g_tx_used' = Next16(g_tx_used)
  /\ published' = Tail(published)
  /\ heard' = IF reaches THEN heard \cup {g_tx_buf} ELSE heard
  /\ UNCHANGED <<rx, g_tx_avail, g_tx_last_used, g_tx_pending, g_tx_buf, g_net_info,
                 at, received, wire>>

Answer(s) ==
  /\ AddressOf[s] # None
  /\ wire' = wire \cup (IF Discover \in heard THEN {Offer(s, AddressOf[s])} ELSE {})
                  \cup (IF Request(s, AddressOf[s]) \in heard
                        THEN {Ack(s, AddressOf[s])} ELSE {})
  /\ UNCHANGED <<rx, tx, g_net_info, at, received, heard>>

(* Another client of the same image is served, from offer to lease. *)
AnswerSibling(s) ==
  /\ SiblingAddressOf[s] # None
  /\ wire' = wire \cup {Offer(s, SiblingAddressOf[s]), Ack(s, SiblingAddressOf[s])}
  /\ UNCHANGED <<rx, tx, g_net_info, at, received, heard>>

Init ==
  /\ g_rx_avail = [idx |-> 0, ring |-> [i \in Slots |-> 0]]
  /\ g_rx_used = [idx |-> 0, ring |-> [i \in Slots |-> 0]]
  /\ g_rx_buf = [i \in Slots |-> Reply("zero", None, <<>>)]
  /\ last_used_idx = 0 /\ rx_seen = 0 /\ arrived = <<>>
  /\ g_tx_avail = 0 /\ g_tx_used = 0 /\ g_tx_last_used = 0 /\ g_tx_pending = FALSE
  /\ g_tx_buf = Discover /\ tx_seen = 0 /\ published = <<>>
  /\ g_net_info = NoInfo /\ at = "boot" /\ received = 0
  /\ wire = {} /\ heard = {}

Driver == net_init \/ net_poll \/ SpinDone \/ SpinLimit

Environment ==
  \/ \E f \in wire \cup Noise : Deliver(f)
  \/ \E reaches \in BOOLEAN : Transmit(reaches)
  \/ \E s \in Servers : Answer(s) \/ AnswerSibling(s)

Next == Driver \/ InitFails \/ Environment

Spec == Init /\ [][Next]_vars

DeliverAck(s) == Ack(s, AddressOf[s]) \in wire /\ Deliver(Ack(s, AddressOf[s]))

(* The timer asks for a poll again and again, and a poll runs to its end.  *)
(* Not all messages are lost, nor all acknowledgements, and servers answer. *)
Fairness ==
  /\ WF_vars(net_poll) /\ WF_vars(SpinDone \/ SpinLimit)
  /\ SF_vars(Transmit(TRUE))
  /\ \A s \in Servers : WF_vars(Answer(s)) /\ SF_vars(DeliverAck(s))
-----------------------------------------------------------------------------
Distance(from, to) == (to + IndexMod - from) % IndexMod
Window(ring, from, to) ==
  [k \in 1 .. Distance(from, to) |-> ring[(from + k - 1) % QueueSize]]

(* Over any number of wraps of the 16-bit indices, every receive buffer is *)
(* either posted for the device or waiting to be read, and never both;     *)
(* those that wait hold, in order, the frames that arrived.  And the one   *)
(* transmit buffer still holds the message handed over, until the device   *)
(* has read it, though a send may give up waiting before that.             *)
RingsSound ==
  at \notin {"boot", "off"} =>
    LET posted == Window(g_rx_avail.ring, rx_seen, g_rx_avail.idx)
        filled == Window(g_rx_used.ring, last_used_idx, g_rx_used.idx)
        both == posted \o filled
    IN /\ Len(both) = QueueSize
       /\ {both[n] : n \in DOMAIN both} = Slots
       /\ [i \in DOMAIN filled |-> g_rx_buf[filled[i]]] = arrived
       /\ Len(published) = Distance(tx_seen, g_tx_avail)
       /\ published # <<>> => published = <<g_tx_buf>>

(* Whatever order offers and acknowledgements come in, of several servers, *)
(* to this client, to another of the same image and to others: a request   *)
(* names a server together with the address of one offer of that server,   *)
(* the client has an address only together with the server that offered    *)
(* it, and believes to have a lease only if a server acknowledged one.     *)
(* Where no other client of the same image is served, these are offers and *)
(* acknowledgements to this client; where one is, they may be the other's, *)
(* and the code does not promise more.                                     *)
LeaseSound ==
  /\ \A m \in heard : m.type = "REQUEST" => Offer(m.server, m.ip) \in wire
  /\ g_net_info.ip # None => Offer(g_net_info.dhcp_server, g_net_info.ip) \in wire
  /\ g_net_info.discovered => \E s \in Servers, ip \in Addresses : Ack(s, ip) \in wire

(* Once an offer was received, the client gets its lease, though requests  *)
(* and answers are lost and a send may give up, as long as no other client *)
(* of the same image is served: its offer would replace the client's own.  *)
OfferLeadsToLease == (g_net_info.dhcp_state = "OFFER") ~> g_net_info.discovered
=============================================================================
