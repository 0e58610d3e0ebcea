----------------------------- MODULE NetProofs ------------------------------
(***************************************************************************)
(* The network, for any ring size, index width, servers and addresses: an  *)
(* address is only taken with the server that offered it, and no buffer of *)
(* the rings has two owners or none.                                       *)
(***************************************************************************)
EXTENDS Net, TLAPS

Offered(s, ip) == s \in Servers /\ ip \in Addresses /\ Offer(s, ip) \in wire
Frames == wire \cup Noise \cup {Reply("zero", None, <<>>)}
Answers(f) ==
  \E s \in Servers, ip \in Addresses : Offered(s, ip) /\ (f = Offer(s, ip) \/ f = Ack(s, ip))
Requests(s) == {Request(s, ip) : ip \in {a \in Addresses : Offer(s, a) \in wire}}
Messages == {Discover} \cup UNION {Requests(s) : s \in Servers}
NetInfo == [discovered : BOOLEAN, dhcp_state : {"NONE", "OFFER", "ACK"},
            ip : Addresses \cup {None}, subnet : {None},
            gateway : Servers \cup {None}, dns : {None}, dhcp_server : Servers \cup {None}]

(* The client remembers nothing, or a server and the address it offered.   *)
InfoOK(info) ==
  /\ info \in NetInfo
  /\ \/ info.dhcp_state = "NONE" /\ info.ip = None
     \/ Offered(info.dhcp_server, info.ip)
  /\ info.discovered => \E s \in Servers, ip \in Addresses : Ack(s, ip) \in wire

(* The indices and ids of the receive rings stay in range. *)
RingsInv ==
  /\ g_rx_avail.ring \in [Slots -> Slots] /\ g_rx_used.ring \in [Slots -> Slots]
  /\ g_rx_avail.idx \in Nat /\ g_rx_used.idx \in Nat
  /\ last_used_idx \in Nat /\ rx_seen \in Nat

(* What the lease rests on: a buffer holds a frame that came, a server     *)
(* that answers has offered, a message of the client names a server with   *)
(* the address it offered, and so does what the client remembers.          *)
LeaseInv ==
  /\ RingsInv
  /\ g_rx_buf \in [Slots -> Frames]
  /\ \A f \in wire : Answers(f)
  /\ g_tx_buf \in Messages /\ heard \subseteq Messages
  /\ InfoOK(g_net_info)

(* Two options, the type of the message and the server, before the end. *)
LEMMA OfferParsed ==
  ASSUME NEW s \in Servers, NEW ip
  PROVE  /\ dhcp_options_parse(Offer(s, ip).options).rc = 0
         /\ dhcp_options_parse(Offer(s, ip).options).out["msg_type"] = "OFFER"
         /\ dhcp_options_parse(Offer(s, ip).options).out["server_id"] = s
<1> DEFINE o == Offer(s, ip).options
           read == {n \in DOMAIN o : \A k \in 1 .. n : o[k].code # "end"}
           Latest(code) == {n \in read : /\ o[n].code = code
                                         /\ \A k \in read : k > n => o[k].code # code}
<1>1. o = <<Option("msg_type", "OFFER"), Option("server_id", s), End>>
  BY DEF Offer, Reply
<1>2. /\ DOMAIN o = 1 .. 3
      /\ o[1] = Option("msg_type", "OFFER") /\ o[2] = Option("server_id", s) /\ o[3] = End
  <2> HIDE DEF o
  <2> QED
    BY <1>1
<1>3. /\ o[1].code = "msg_type" /\ o[1].value = "OFFER" /\ o[1].fits
      /\ o[2].code = "server_id" /\ o[2].value = s /\ o[2].fits
      /\ o[3].code = "end"
  <2> HIDE DEF o
  <2> QED
    BY <1>2 DEF Option, End
<1>4. /\ dhcp_options_parse(o).rc =
           IF \E n \in read : o[n].code # "pad" /\ ~o[n].fits THEN -1 ELSE 0
      /\ \A code \in Codes : dhcp_options_parse(o).out[code] =
           IF Latest(code) = {} THEN None ELSE o[CHOOSE n \in Latest(code) : TRUE].value
  <2> HIDE DEF o
  <2> QED
    BY DEF dhcp_options_parse
<1> HIDE DEF o
<1>5. read = {1, 2}
  BY <1>2, <1>3
<1> HIDE DEF read
<1>6. Latest("msg_type") = {1} /\ Latest("server_id") = {2}
  BY <1>3, <1>5
<1>7. "msg_type" \in Codes /\ "server_id" \in Codes
  BY DEF Codes
<1> HIDE DEF Latest
<1>8. dhcp_options_parse(o).rc = 0
  BY <1>3, <1>4, <1>5
<1>9. dhcp_options_parse(o).out["msg_type"] = "OFFER"
  <2>1. (CHOOSE n \in Latest("msg_type") : TRUE) = 1
    BY <1>6
  <2> QED
    BY <1>3, <1>4, <1>6, <1>7, <2>1
<1>10. dhcp_options_parse(o).out["server_id"] = s
  <2>1. (CHOOSE n \in Latest("server_id") : TRUE) = 2
    BY <1>6
  <2> QED
    BY <1>3, <1>4, <1>6, <1>7, <2>1
<1> QED
  BY <1>8, <1>9, <1>10 DEF o

(* Four options, one of them padding. *)
LEMMA AckParsed ==
  ASSUME NEW s \in Servers, NEW ip
  PROVE  /\ dhcp_options_parse(Ack(s, ip).options).rc = 0
         /\ dhcp_options_parse(Ack(s, ip).options).out["msg_type"] = "ACK"
         /\ dhcp_options_parse(Ack(s, ip).options).out["router"] = s
         /\ dhcp_options_parse(Ack(s, ip).options).out["server_id"] = s
         /\ dhcp_options_parse(Ack(s, ip).options).out["subnet"] = None
         /\ dhcp_options_parse(Ack(s, ip).options).out["dns"] = None
<1> DEFINE o == Ack(s, ip).options
           read == {n \in DOMAIN o : \A k \in 1 .. n : o[k].code # "end"}
           Latest(code) == {n \in read : /\ o[n].code = code
                                         /\ \A k \in read : k > n => o[k].code # code}
<1>1. o = <<Option("msg_type", "ACK"), Option("pad", None), Option("router", s),
            Option("server_id", s), End>>
  BY DEF Ack, Reply
<1>2. /\ DOMAIN o = 1 .. 5
      /\ o[1] = Option("msg_type", "ACK") /\ o[2] = Option("pad", None)
      /\ o[3] = Option("router", s) /\ o[4] = Option("server_id", s) /\ o[5] = End
  <2> HIDE DEF o
  <2> QED
    BY <1>1
<1>3. /\ o[1].code = "msg_type" /\ o[1].value = "ACK" /\ o[1].fits
      /\ o[2].code = "pad" /\ o[2].fits
      /\ o[3].code = "router" /\ o[3].value = s /\ o[3].fits
      /\ o[4].code = "server_id" /\ o[4].value = s /\ o[4].fits
      /\ o[5].code = "end"
  <2> HIDE DEF o
  <2> QED
    BY <1>2 DEF Option, End
<1>4. /\ dhcp_options_parse(o).rc =
           IF \E n \in read : o[n].code # "pad" /\ ~o[n].fits THEN -1 ELSE 0
      /\ \A code \in Codes : dhcp_options_parse(o).out[code] =
           IF Latest(code) = {} THEN None ELSE o[CHOOSE n \in Latest(code) : TRUE].value
  <2> HIDE DEF o
  <2> QED
    BY DEF dhcp_options_parse
<1> HIDE DEF o
<1>5. read = {1, 2, 3, 4}
  BY <1>2, <1>3
<1> HIDE DEF read
<1>6. /\ Latest("msg_type") = {1} /\ Latest("router") = {3} /\ Latest("server_id") = {4}
      /\ Latest("subnet") = {} /\ Latest("dns") = {}
  BY <1>3, <1>5
<1>7. Codes = {"msg_type", "subnet", "router", "dns", "server_id"}
  BY DEF Codes
<1> HIDE DEF Latest
<1>8. dhcp_options_parse(o).rc = 0
  BY <1>3, <1>4, <1>5
<1>9. ASSUME NEW code \in Codes, NEW n, Latest(code) = {n}
      PROVE  dhcp_options_parse(o).out[code] = o[n].value
  <2>1. (CHOOSE k \in Latest(code) : TRUE) = n
    BY <1>9
  <2> QED
    BY <1>4, <1>9, <2>1
<1>10. /\ dhcp_options_parse(o).out["msg_type"] = "ACK"
       /\ dhcp_options_parse(o).out["router"] = s
       /\ dhcp_options_parse(o).out["server_id"] = s
  BY <1>3, <1>6, <1>7, <1>9
<1>11. dhcp_options_parse(o).out["subnet"] = None /\ dhcp_options_parse(o).out["dns"] = None
  BY <1>4, <1>6, <1>7
<1> QED
  BY <1>8, <1>10, <1>11 DEF o

(* The answer to another client, the one cut off and the header alone      *)
(* leave g_net_info as it is, and so does a buffer never written.          *)
LEMMA NoiseIgnored ==
  ASSUME NEW f \in Noise \cup {Reply("zero", None, <<>>)}, f.whole, NEW info
  PROVE  parse_eth_frame(info, f) = info
<1>0. Strays \subseteq {"foreign", "truncated", "empty"}
  BY NetAssumption
<1>1. CASE f = Reply("zero", None, <<>>)
  BY <1>1 DEF parse_eth_frame, parse_udp_packet, Reply
<1>2. CASE f = Stray["foreign"]
  BY <1>2 DEF parse_eth_frame, parse_udp_packet, Reply, Stray
<1>3. CASE f = Stray["truncated"]
  <2> DEFINE o == f.options
             read == {n \in DOMAIN o : \A k \in 1 .. n : o[k].code # "end"}
  <2>1. /\ DOMAIN o = 1 .. 2
        /\ o[1] = Option("msg_type", "ACK")
        /\ o[2] = [Option("dns", "elsewhere") EXCEPT !.fits = FALSE]
    <3>1. o = <<Option("msg_type", "ACK"), [Option("dns", "elsewhere") EXCEPT !.fits = FALSE]>>
      BY <1>3 DEF Stray, Reply
    <3> HIDE DEF o
    <3> QED
      BY <3>1
  <2> HIDE DEF o
  <2>2. o[1].code = "msg_type" /\ o[2].code = "dns" /\ ~o[2].fits
    BY <2>1 DEF Option
  <2>3. 2 \in read
    <3>1. 2 \in DOMAIN o /\ \A k \in 1 .. 2 : k = 1 \/ k = 2
      BY <2>1
    <3> QED
      BY <2>2, <3>1
  <2>4. dhcp_options_parse(o).rc =
          IF \E n \in read : o[n].code # "pad" /\ ~o[n].fits THEN -1 ELSE 0
    BY DEF dhcp_options_parse
  <2> HIDE DEF read
  <2>5. dhcp_options_parse(o).rc # 0
    BY <2>2, <2>3, <2>4
  <2> QED
    BY <2>5 DEF parse_eth_frame, parse_udp_packet, o
<1>4. CASE f = Stray["empty"]
  BY <1>4 DEF Stray, Reply
<1> QED
  BY <1>0, <1>1, <1>2, <1>3, <1>4 DEF Noise

(* An offer replaces server and address together, and so does an           *)
(* acknowledgement (parse_dhcp_offer, parse_dhcp_ack in dhcp.c).           *)
LEMMA FrameParsed ==
  ASSUME LeaseInv, NEW f \in Frames, f.whole
  PROVE  InfoOK(parse_eth_frame(g_net_info, f))
<1>0. /\ InfoOK(g_net_info) /\ g_net_info \in NetInfo /\ None \notin Servers
      /\ \A g \in wire : Answers(g)
  BY NetAssumption DEF LeaseInv, InfoOK
<1>1. CASE f \notin wire
  BY <1>0, <1>1, NoiseIgnored DEF Frames
<1>2. ASSUME NEW s \in Servers, NEW ip \in Addresses, Offered(s, ip), f = Offer(s, ip)
      PROVE  InfoOK(parse_eth_frame(g_net_info, f))
  <2> DEFINE p == dhcp_options_parse(f.options)
             new == [g_net_info EXCEPT !.ip = ip, !.dhcp_state = "OFFER",
                                       !.dhcp_server = s]
  <2>1. p.rc = 0 /\ p.out["msg_type"] = "OFFER" /\ p.out["server_id"] = s
    BY <1>2, OfferParsed
  <2>2. f.mine /\ f.udp /\ f.xid = "own" /\ f.yiaddr = ip
    BY <1>2 DEF Offer, Reply
  <2> HIDE DEF p
  <2>3. parse_eth_frame(g_net_info, f) = parse_dhcp_offer(g_net_info, f, p.out)
    BY <2>1, <2>2 DEF parse_eth_frame, parse_udp_packet, p
  <2>4. parse_dhcp_offer(g_net_info, f, p.out) = new
    BY <1>0, <2>1, <2>2 DEF parse_dhcp_offer, Or
  <2>5. /\ new \in NetInfo /\ new.ip = ip /\ new.dhcp_server = s
        /\ new.discovered = g_net_info.discovered
    BY <1>0 DEF NetInfo
  <2> HIDE DEF new
  <2> QED
    BY <1>0, <1>2, <2>3, <2>4, <2>5 DEF InfoOK
<1>3. ASSUME NEW s \in Servers, NEW ip \in Addresses, Offered(s, ip), f = Ack(s, ip),
             f \in wire
      PROVE  InfoOK(parse_eth_frame(g_net_info, f))
  <2> DEFINE p == dhcp_options_parse(f.options)
             new == [g_net_info EXCEPT !.ip = ip, !.dhcp_state = "ACK",
                                       !.discovered = TRUE, !.gateway = s, !.dhcp_server = s]
  <2>1. /\ p.rc = 0 /\ p.out["msg_type"] = "ACK" /\ p.out["server_id"] = s
        /\ p.out["router"] = s /\ p.out["subnet"] = None /\ p.out["dns"] = None
    BY <1>3, AckParsed
  <2>2. f.mine /\ f.udp /\ f.xid = "own" /\ f.yiaddr = ip
    BY <1>3 DEF Ack, Reply
  <2> HIDE DEF p
  <2>3. parse_eth_frame(g_net_info, f) = parse_dhcp_ack(g_net_info, f, p.out)
    BY <2>1, <2>2 DEF parse_eth_frame, parse_udp_packet, p
  <2>4. parse_dhcp_ack(g_net_info, f, p.out) = new
    BY <1>0, <2>1, <2>2 DEF parse_dhcp_ack, Or, NetInfo
  <2>5. new \in NetInfo /\ new.ip = ip /\ new.dhcp_server = s
    BY <1>0 DEF NetInfo
  <2> HIDE DEF new
  <2> QED
    BY <1>3, <2>3, <2>4, <2>5 DEF InfoOK
<1> QED
  BY <1>0, <1>1, <1>2, <1>3 DEF Answers

(* The next index is a natural number, and its slot is one of the ring. *)
LEMMA IndexFacts ==
  ASSUME NEW i \in Nat PROVE Next16(i) \in Nat /\ i % QueueSize \in Slots
<1>1. QueueSize \in Nat \ {0} /\ IndexMod \in Nat \ {0}
  BY NetAssumption
<1> QED
  BY <1>1 DEF Next16, Slots

(* virtio_net_recv posts again the id it has read. *)
LEMMA RecvRings ==
  ASSUME RingsInv, virtio_net_recv
  PROVE  RingsInv' /\ g_rx_buf' = g_rx_buf /\ NextId \in Slots
<1>1. NextId \in Slots
  BY IndexFacts DEF RingsInv, NextId
<1>2. /\ g_rx_avail'.ring \in [Slots -> Slots] /\ g_rx_avail'.idx \in Nat
      /\ last_used_idx' \in Nat
  BY <1>1, IndexFacts DEF RingsInv, virtio_net_recv
<1> QED
  BY <1>1, <1>2 DEF RingsInv, virtio_net_recv

(* The step leaves the wire alone. *)
LEMMA LeaseKept ==
  ASSUME LeaseInv, RingsInv', wire' = wire, g_rx_buf' \in [Slots -> Frames],
         g_tx_buf' \in Messages, heard' \subseteq Messages, InfoOK(g_net_info)'
  PROVE  LeaseInv'
<1>1. Frames' = Frames /\ Messages' = Messages
  BY DEF Frames, Messages, Requests
<1>2. \A f \in wire : Answers(f)
  BY DEF LeaseInv
<1>3. (\A f \in wire : Answers(f))'
  BY <1>2 DEF Answers, Offered
<1> QED
  BY <1>1, <1>3 DEF LeaseInv

(* What the client sends after an offer is a request for its address. *)
LEMMA RequestIsMessage ==
  ASSUME LeaseInv, g_net_info.dhcp_state = "OFFER"
  PROVE  Request(g_net_info.dhcp_server, g_net_info.ip) \in Messages
  BY DEF LeaseInv, InfoOK, Messages, Requests, Offered

(* The rest of net_poll. *)
LEMMA AfterDrainEffect ==
  ASSUME LeaseInv, AfterDrain PROVE g_tx_buf' \in Messages /\ g_net_info' = g_net_info
<1>1. g_tx_buf \in Messages
  BY DEF LeaseInv
<1>2. CASE ~g_net_info.discovered /\ g_net_info.dhcp_state = "OFFER"
  <2>1. virtio_net_send(Request(g_net_info.dhcp_server, g_net_info.ip))
    BY <1>2 DEF AfterDrain
  <2> QED
    BY <1>1, <1>2, <2>1, RequestIsMessage DEF virtio_net_send, AfterDrain
<1>3. CASE ~(~g_net_info.discovered /\ g_net_info.dhcp_state = "OFFER")
  BY <1>1, <1>3 DEF AfterDrain, tx
<1> QED
  BY <1>2, <1>3

(* The steps of the driver and of net_poll. *)
LEMMA DriverLease == ASSUME LeaseInv, Driver \/ InitFails PROVE LeaseInv'
<1>0. /\ RingsInv /\ g_rx_buf \in [Slots -> Frames] /\ g_tx_buf \in Messages
      /\ heard \subseteq Messages /\ InfoOK(g_net_info)
  BY DEF LeaseInv
<1>1. wire' = wire /\ heard' = heard
  BY DEF Driver, InitFails, net_init, net_poll, SpinDone, SpinLimit, PollStart, DrainFrame,
         DrainEmptyFrame, DrainEnd
<1>2. ASSUME UNCHANGED rx, g_tx_buf' = g_tx_buf, g_net_info' = g_net_info PROVE LeaseInv'
  <2>1. RingsInv' /\ g_rx_buf' = g_rx_buf
    BY <1>0, <1>2 DEF RingsInv, rx
  <2>2. InfoOK(g_net_info)'
    BY <1>0, <1>1, <1>2 DEF InfoOK, Offered
  <2> QED
    BY <1>0, <1>1, <1>2, <2>1, <2>2, LeaseKept
<1>3. CASE net_init
  <2>1. RingsInv' /\ g_rx_buf' = g_rx_buf
    <3>1. /\ g_rx_avail' = [idx |-> QueueSize, ring |-> [i \in Slots |-> i]]
          /\ g_rx_used' = [idx |-> 0, ring |-> [i \in Slots |-> 0]]
          /\ last_used_idx' = 0 /\ rx_seen' = 0 /\ g_rx_buf' = g_rx_buf
      BY <1>3 DEF net_init, virtio_net_init
    <3>2. QueueSize \in Nat /\ 0 \in Slots
      BY NetAssumption DEF Slots
    <3> QED
      BY <3>1, <3>2 DEF RingsInv
  <2>2. g_tx_buf' \in Messages
    BY <1>0, <1>3 DEF net_init, virtio_net_send, Messages
  <2>3. InfoOK(g_net_info)'
    <3>1. g_net_info' = NoInfo
      BY <1>3 DEF net_init
    <3>2. NoInfo \in NetInfo /\ NoInfo.dhcp_state = "NONE" /\ NoInfo.ip = None /\ ~NoInfo.discovered
      BY DEF NoInfo, NetInfo
    <3> QED
      BY <3>1, <3>2 DEF InfoOK
  <2> QED
    BY <1>0, <1>1, <2>1, <2>2, <2>3, LeaseKept
<1>4. CASE SpinDone
  BY <1>2, <1>4 DEF SpinDone
<1>5. CASE SpinLimit \/ InitFails \/ PollStart
  BY <1>2, <1>5 DEF SpinLimit, InitFails, PollStart, tx
<1>6. CASE DrainFrame
  <2>1. RingsInv' /\ g_rx_buf' = g_rx_buf /\ NextId \in Slots
    BY <1>0, <1>6, RecvRings DEF DrainFrame
  <2>2. NextFrame \in Frames /\ NextFrame.whole
    BY <1>0, <1>6, <2>1 DEF NextFrame, DrainFrame
  <2>3. InfoOK(parse_eth_frame(g_net_info, NextFrame))
    BY <2>2, FrameParsed
  <2>4. InfoOK(g_net_info)'
    <3>1. PICK new : new = parse_eth_frame(g_net_info, NextFrame)
      OBVIOUS
    <3>2. g_net_info' = new /\ InfoOK(new)
      BY <1>6, <2>3, <3>1 DEF DrainFrame
    <3> QED
      BY <1>1, <3>2 DEF InfoOK, Offered
  <2>5. g_tx_buf' = g_tx_buf
    BY <1>6 DEF DrainFrame, tx
  <2> QED
    BY <1>0, <1>1, <2>1, <2>4, <2>5, LeaseKept
<1>7. CASE DrainEmptyFrame
  <2>1. RingsInv' /\ g_rx_buf' = g_rx_buf
    BY <1>0, <1>7, RecvRings DEF DrainEmptyFrame
  <2>2. g_tx_buf' \in Messages /\ g_net_info' = g_net_info
    BY <1>7, AfterDrainEffect DEF DrainEmptyFrame
  <2>3. InfoOK(g_net_info)'
    BY <1>0, <1>1, <2>2 DEF InfoOK, Offered
  <2> QED
    BY <1>0, <1>1, <2>1, <2>2, <2>3, LeaseKept
<1>8. CASE DrainEnd
  <2>1. RingsInv' /\ g_rx_buf' = g_rx_buf
    BY <1>0, <1>8 DEF DrainEnd, RingsInv, rx
  <2>2. g_tx_buf' \in Messages /\ g_net_info' = g_net_info
    BY <1>8, AfterDrainEffect DEF DrainEnd
  <2>3. InfoOK(g_net_info)'
    BY <1>0, <1>1, <2>2 DEF InfoOK, Offered
  <2> QED
    BY <1>0, <1>1, <2>1, <2>2, <2>3, LeaseKept
<1> QED
  BY <1>3, <1>4, <1>5, <1>6, <1>7, <1>8 DEF Driver, net_poll

(* A frame arrives, or a message reaches the servers or is lost. *)
LEMMA WireLease ==
  ASSUME LeaseInv,
         \/ \E f \in wire \cup Noise : Deliver(f)
         \/ \E reaches \in BOOLEAN : Transmit(reaches)
  PROVE  LeaseInv'
<1>0. /\ RingsInv /\ g_rx_buf \in [Slots -> Frames] /\ g_tx_buf \in Messages
      /\ heard \subseteq Messages /\ InfoOK(g_net_info)
  BY DEF LeaseInv
<1>1. wire' = wire /\ g_net_info' = g_net_info /\ g_tx_buf' = g_tx_buf
  BY DEF Deliver, Transmit, tx
<1>2. InfoOK(g_net_info)'
  BY <1>0, <1>1 DEF InfoOK, Offered
<1>3. ASSUME NEW f \in wire \cup Noise, Deliver(f) PROVE LeaseInv'
  <2> DEFINE id == g_rx_avail.ring[rx_seen % QueueSize]
  <2>1. id \in Slots
    BY <1>0, IndexFacts DEF RingsInv
  <2>2. /\ g_rx_buf' = [g_rx_buf EXCEPT ![id] = f]
        /\ g_rx_used' = [idx |-> Next16(g_rx_used.idx),
                         ring |-> [g_rx_used.ring EXCEPT ![g_rx_used.idx % QueueSize] = id]]
        /\ rx_seen' = Next16(rx_seen) /\ UNCHANGED <<g_rx_avail, last_used_idx, heard>>
    BY <1>3 DEF Deliver
  <2> HIDE DEF id
  <2>3. RingsInv'
    BY <1>0, <2>1, <2>2, IndexFacts DEF RingsInv
  <2>4. g_rx_buf' \in [Slots -> Frames]
    BY <1>0, <2>1, <2>2 DEF Frames
  <2> QED
    BY <1>0, <1>1, <1>2, <2>2, <2>3, <2>4, LeaseKept
<1>4. ASSUME NEW reaches \in BOOLEAN, Transmit(reaches) PROVE LeaseInv'
  <2>1. RingsInv' /\ g_rx_buf' = g_rx_buf
    BY <1>0, <1>4 DEF Transmit, RingsInv, rx
  <2>2. heard' \subseteq Messages
    BY <1>0, <1>4 DEF Transmit
  <2> QED
    BY <1>0, <1>1, <1>2, <2>1, <2>2, LeaseKept
<1> QED
  BY <1>3, <1>4

(* More frames on the wire, each of a server and after its offer. *)
LEMMA WireGrows ==
  ASSUME LeaseInv, wire \subseteq wire', \A f \in wire' : Answers(f)',
         UNCHANGED <<rx, tx, g_net_info, heard>>
  PROVE  LeaseInv'
<1>0. /\ RingsInv /\ g_rx_buf \in [Slots -> Frames] /\ g_tx_buf \in Messages
      /\ heard \subseteq Messages /\ InfoOK(g_net_info)
  BY DEF LeaseInv
<1>1. UNCHANGED <<g_tx_buf, g_net_info, heard, g_rx_buf>> /\ RingsInv'
  BY <1>0 DEF rx, tx, RingsInv
<1>2. Frames \subseteq Frames' /\ Messages \subseteq Messages'
  BY DEF Frames, Messages, Requests
<1>3. InfoOK(g_net_info)'
  BY <1>0, <1>1 DEF InfoOK, Offered
<1> QED
  BY <1>0, <1>1, <1>2, <1>3 DEF LeaseInv

(* A server answers what it has heard: it acknowledges only a request that *)
(* names it, and such a request follows its offer.                         *)
LEMMA AnswerLease == ASSUME LeaseInv, NEW s \in Servers, Answer(s) PROVE LeaseInv'
<1> DEFINE ip == AddressOf[s]
<1>0. heard \subseteq Messages /\ ip \in Addresses /\ \A f \in wire : Answers(f)
  BY DEF LeaseInv, Addresses
<1>1. /\ wire' = wire \cup (IF Discover \in heard THEN {Offer(s, ip)} ELSE {})
                      \cup (IF Request(s, ip) \in heard THEN {Ack(s, ip)} ELSE {})
      /\ UNCHANGED <<rx, tx, g_net_info, heard>>
  BY DEF Answer
<1> HIDE DEF ip
<1>2. Request(s, ip) \in heard => Offer(s, ip) \in wire
  BY <1>0 DEF Messages, Requests, Request, Discover
<1>3. ASSUME NEW f \in wire' PROVE Answers(f)'
  <2>1. CASE f \in wire
    BY <1>0, <1>1, <2>1 DEF Answers, Offered
  <2>2. CASE f = Offer(s, ip)
    BY <1>0, <1>3, <2>2 DEF Answers, Offered
  <2>3. CASE f = Ack(s, ip) /\ Request(s, ip) \in heard
    BY <1>0, <1>1, <1>2, <2>3 DEF Answers, Offered
  <2> QED
    BY <1>1, <1>3, <2>1, <2>2, <2>3
<1> QED
  BY <1>1, <1>3, WireGrows

(* A sibling's acknowledgement has its offer before it, too. *)
LEMMA SiblingLease == ASSUME LeaseInv, NEW s \in Servers, AnswerSibling(s) PROVE LeaseInv'
<1> DEFINE ip == SiblingAddressOf[s]
<1>0. ip \in Addresses /\ \A f \in wire : Answers(f)
  BY DEF LeaseInv, Addresses
<1>1. wire' = wire \cup {Offer(s, ip), Ack(s, ip)} /\ UNCHANGED <<rx, tx, g_net_info, heard>>
  BY DEF AnswerSibling
<1> HIDE DEF ip
<1>2. ASSUME NEW f \in wire' PROVE Answers(f)'
  <2>1. CASE f \in wire
    BY <1>0, <1>1, <2>1 DEF Answers, Offered
  <2>2. CASE f = Offer(s, ip) \/ f = Ack(s, ip)
    BY <1>0, <1>1, <2>2 DEF Answers, Offered
  <2> QED
    BY <1>1, <1>2, <2>1, <2>2
<1> QED
  BY <1>1, <1>2, WireGrows

(* Before net_init the buffers are zero and nothing is known. *)
LEMMA LeaseInit == Init => LeaseInv
<1> SUFFICES ASSUME Init PROVE LeaseInv
  OBVIOUS
<1>1. RingsInv
  <2>1. 0 \in Slots
    BY NetAssumption DEF Slots
  <2> QED
    BY <2>1 DEF Init, RingsInv
<1>2. g_rx_buf \in [Slots -> Frames] /\ g_tx_buf \in Messages
  BY DEF Init, Frames, Messages
<1>3. InfoOK(g_net_info)
  <2>1. NoInfo \in NetInfo /\ NoInfo.dhcp_state = "NONE" /\ NoInfo.ip = None /\ ~NoInfo.discovered
    BY DEF NoInfo, NetInfo
  <2> QED
    BY <2>1 DEF Init, InfoOK
<1> QED
  BY <1>1, <1>2, <1>3 DEF LeaseInv, Init

(* Every step keeps it. *)
LEMMA LeaseStep == LeaseInv /\ [Next]_vars => LeaseInv'
<1> SUFFICES ASSUME LeaseInv, [Next]_vars PROVE LeaseInv'
  OBVIOUS
<1>1. CASE UNCHANGED vars
  <2>1. UNCHANGED <<g_rx_avail, g_rx_used, g_rx_buf, last_used_idx, rx_seen, g_tx_buf, g_net_info,
                    wire, heard>>
    BY <1>1 DEF vars, rx, tx
  <2> QED
    BY <2>1 DEF LeaseInv, RingsInv, InfoOK, Offered, Answers, Frames, Messages, Requests
<1> QED
  BY <1>1, DriverLease, WireLease, AnswerLease, SiblingLease DEF Next, Environment

(* It says what it must of requests and leases. *)
LEMMA LeaseImplies == LeaseInv => LeaseSound
<1> SUFFICES ASSUME LeaseInv PROVE LeaseSound
  OBVIOUS
<1>1. ASSUME NEW m \in heard, m.type = "REQUEST"
      PROVE  Offer(m.server, m.ip) \in wire
  BY <1>1 DEF LeaseInv, Messages, Requests, Discover, Request
<1> QED
  BY <1>1 DEF LeaseInv, LeaseSound, InfoOK, Offered

(* For any number of servers, any size of the rings and any order, loss    *)
(* and repetition of frames: a request names a server with the address     *)
(* of one of its offers, and the client takes an address or a lease only   *)
(* from an offer and an acknowledgement (kernel/net/dhcp.c).  Those to     *)
(* another client of the same image count as such.                         *)
THEOREM LeaseCorrect == Spec => []LeaseSound
<1>1. Spec => []LeaseInv
  BY LeaseInit, LeaseStep, PTL DEF Spec
<1> QED
  BY <1>1, LeaseImplies, PTL
-----------------------------------------------------------------------------
(* The rings of the network *)

Idx == 0 .. IndexMod - 1
Slot(from, i) == (from + i - 1) % QueueSize

(* Division with remainder. *)
LEMMA Remainder ==
  ASSUME NEW q \in Nat \ {0}, NEW d \in Nat, NEW r \in 0 .. q - 1
  PROVE  ((q * d) + r) % q = r
  OBVIOUS

(* A number is its quotient and its remainder. *)
LEMMA Division ==
  ASSUME NEW q \in Nat \ {0}, NEW x \in Nat
  PROVE  /\ x % q \in 0 .. q - 1 /\ x \div q \in Nat
         /\ x = (q * (x \div q)) + (x % q)
<1>1. x % q \in 0 .. q - 1
  OBVIOUS
<1>2. x = (q * (x \div q)) + (x % q)
  OBVIOUS
<1>3. x \div q \in Nat
  OBVIOUS
<1> QED
  BY <1>1, <1>2, <1>3

(* Less than q steps further. *)
LEMMA RemainderPlus ==
  ASSUME NEW q \in Nat \ {0}, NEW x \in Nat, NEW j \in 0 .. q - 1
  PROVE  (x + j) % q = IF (x % q) + j < q THEN (x % q) + j ELSE (x % q) + j - q
<1> DEFINE r == x % q
           d == x \div q
<1>1. r \in 0 .. q - 1 /\ d \in Nat /\ x = (q * d) + r
  BY Division
<1> HIDE DEF r, d
<1>2. CASE r + j < q
  <2>1. x + j = (q * d) + (r + j) /\ r + j \in 0 .. q - 1
    BY <1>1, <1>2
  <2>2. ((q * d) + (r + j)) % q = r + j
    BY <1>1, <2>1, Remainder
  <2> QED
    BY <1>2, <2>1, <2>2 DEF r
<1>3. CASE ~(r + j < q)
  <2>1. /\ x + j = (q * (d + 1)) + (r + j - q) /\ r + j - q \in 0 .. q - 1
        /\ d + 1 \in Nat
    BY <1>1, <1>3
  <2>2. ((q * (d + 1)) + (r + j - q)) % q = r + j - q
    BY <2>1, Remainder
  <2> QED
    BY <1>3, <2>1, <2>2 DEF r
<1> QED
  BY <1>2, <1>3

(* A multiple of q changes nothing. *)
LEMMA RemainderMultiple ==
  ASSUME NEW q \in Nat \ {0}, NEW m \in Nat, m % q = 0, NEW x \in Nat
  PROVE  (x + m) % q = x % q
<1> DEFINE r == x % q
           d == x \div q
           e == m \div q
<1>1. r \in 0 .. q - 1 /\ d \in Nat /\ x = (q * d) + r
  BY Division
<1>2. e \in Nat /\ m = (q * e) + (m % q)
  BY Division
<1> HIDE DEF r, d, e
<1>3. x + m = (q * (d + e)) + r /\ d + e \in Nat
  BY <1>1, <1>2
<1>4. ((q * (d + e)) + r) % q = r
  BY <1>1, <1>3, Remainder
<1> QED
  BY <1>3, <1>4 DEF r

(* How far apart two indices are. *)
LEMMA DistanceIs ==
  ASSUME NEW from \in Idx, NEW to \in Idx
  PROVE  /\ Distance(from, to) = IF from <= to THEN to - from ELSE to + IndexMod - from
         /\ Distance(from, to) \in Idx
<1>1. IndexMod \in Nat \ {0}
  BY NetAssumption
<1>2. to + IndexMod - from \in Nat
  BY <1>1 DEF Idx
<1>3. CASE from <= to
  <2>1. to - from \in 0 .. IndexMod - 1
    BY <1>1, <1>3 DEF Idx
  <2>2. ((IndexMod * 1) + (to - from)) % IndexMod = to - from
    BY <1>1, <2>1, Remainder
  <2>3. (IndexMod * 1) + (to - from) = to + IndexMod - from
    BY <1>1 DEF Idx
  <2> QED
    BY <1>3, <2>1, <2>2, <2>3 DEF Distance, Idx
<1>4. CASE ~(from <= to)
  <2>1. to + IndexMod - from \in 0 .. IndexMod - 1
    BY <1>1, <1>4 DEF Idx
  <2>2. ((IndexMod * 0) + (to + IndexMod - from)) % IndexMod = to + IndexMod - from
    BY <1>1, <2>1, Remainder
  <2>3. (IndexMod * 0) + (to + IndexMod - from) = to + IndexMod - from
    BY <1>1, <1>2
  <2> QED
    BY <1>4, <2>1, <2>2, <2>3 DEF Distance, Idx
<1> QED
  BY <1>3, <1>4

(* The next index. *)
LEMMA NextIs ==
  ASSUME NEW i \in Idx
  PROVE  Next16(i) = (IF i = IndexMod - 1 THEN 0 ELSE i + 1) /\ Next16(i) \in Idx
<1>1. IndexMod \in Nat \ {0}
  BY NetAssumption
<1>2. CASE i = IndexMod - 1
  <2>1. ((IndexMod * 1) + 0) % IndexMod = 0
    BY <1>1, Remainder
  <2> QED
    BY <1>1, <1>2, <2>1 DEF Next16, Idx
<1>3. CASE i # IndexMod - 1
  <2>1. ((IndexMod * 0) + (i + 1)) % IndexMod = i + 1 /\ i + 1 \in 0 .. IndexMod - 1
    BY <1>1, <1>3, Remainder DEF Idx
  <2> QED
    BY <1>1, <1>3, <2>1 DEF Next16, Idx
<1> QED
  BY <1>2, <1>3


(* Slots of a window that is no longer than the ring are different, and    *)
(* the one after the window is that of its end.                            *)
LEMMA SlotFacts ==
  ASSUME NEW from \in Idx, NEW to \in Idx
  PROVE  /\ \A i \in 1 .. QueueSize : Slot(from, i) \in Slots
         /\ \A i, j \in 1 .. QueueSize : Slot(from, i) = Slot(from, j) => i = j
         /\ Slot(from, Distance(from, to) + 1) = to % QueueSize
<1>1. QueueSize \in Nat \ {0} /\ IndexMod \in Nat /\ IndexMod % QueueSize = 0
  BY NetAssumption
<1>2. from \in Nat /\ to \in Nat
  BY DEF Idx
<1>3. from % QueueSize \in 0 .. QueueSize - 1
  BY <1>1, <1>2, Division
<1>4. ASSUME NEW i \in 1 .. QueueSize
      PROVE  Slot(from, i) = IF (from % QueueSize) + (i - 1) < QueueSize
                             THEN (from % QueueSize) + (i - 1)
                             ELSE (from % QueueSize) + (i - 1) - QueueSize
  <2>1. i - 1 \in 0 .. QueueSize - 1 /\ from + i - 1 = from + (i - 1)
    BY <1>1, <1>2
  <2> QED
    BY <1>1, <1>2, <2>1, RemainderPlus DEF Slot
<1>5. \A i \in 1 .. QueueSize : Slot(from, i) \in Slots
  BY <1>1, <1>3, <1>4 DEF Slots
<1>6. ASSUME NEW i \in 1 .. QueueSize, NEW j \in 1 .. QueueSize, Slot(from, i) = Slot(from, j)
      PROVE  i = j
  BY <1>1, <1>3, <1>4, <1>6
<1>7. Slot(from, Distance(from, to) + 1) = to % QueueSize
  <2>1. CASE from <= to
    <3>1. from + (Distance(from, to) + 1) - 1 = to
      BY <1>1, <1>2, <2>1, DistanceIs
    <3> QED
      BY <3>1 DEF Slot
  <2>2. CASE ~(from <= to)
    <3>1. from + (Distance(from, to) + 1) - 1 = to + IndexMod
      BY <1>1, <1>2, <2>2, DistanceIs
    <3>2. (to + IndexMod) % QueueSize = to % QueueSize
      BY <1>1, <1>2, RemainderMultiple
    <3> QED
      BY <3>1, <3>2 DEF Slot
  <2> QED
    BY <2>1, <2>2
<1> QED
  BY <1>5, <1>6, <1>7

(* One more entry at the end of a window that is not full. *)
LEMMA WindowPush ==
  ASSUME NEW from \in Idx, NEW to \in Idx, NEW old \in [Slots -> Slots], NEW v \in Slots,
         Distance(from, to) < QueueSize
  PROVE  LET new == [old EXCEPT ![to % QueueSize] = v]
             n == Distance(from, to)
         IN /\ new \in [Slots -> Slots]
            /\ Distance(from, Next16(to)) = n + 1
            /\ \A i \in 1 .. n : new[Slot(from, i)] = old[Slot(from, i)]
            /\ new[Slot(from, n + 1)] = v
<1> DEFINE new == [old EXCEPT ![to % QueueSize] = v]
           n == Distance(from, to)
<1>1. QueueSize \in Nat \ {0} /\ IndexMod \in Nat /\ IndexMod > QueueSize
  BY NetAssumption
<1>2. n \in Nat /\ n < QueueSize
  BY DistanceIs DEF Idx
<1>3. Slot(from, n + 1) = to % QueueSize /\ Slot(from, n + 1) \in Slots
  BY <1>1, <1>2, SlotFacts
<1>4. Distance(from, Next16(to)) = n + 1
  <2>1. /\ n = IF from <= to THEN to - from ELSE to + IndexMod - from
        /\ Next16(to) = (IF to = IndexMod - 1 THEN 0 ELSE to + 1) /\ Next16(to) \in Idx
    BY DistanceIs, NextIs
  <2>2. Distance(from, Next16(to)) =
          IF from <= Next16(to) THEN Next16(to) - from ELSE Next16(to) + IndexMod - from
    BY <2>1, DistanceIs
  <2> HIDE DEF n
  <2> QED
    BY <1>1, <1>2, <2>1, <2>2 DEF Idx
<1> HIDE DEF n
<1>5. new \in [Slots -> Slots] /\ new[Slot(from, n + 1)] = v
  BY <1>3
<1>6. ASSUME NEW i \in 1 .. n PROVE new[Slot(from, i)] = old[Slot(from, i)]
  <2>1. i \in 1 .. QueueSize /\ n + 1 \in 1 .. QueueSize /\ i # n + 1
    BY <1>1, <1>2
  <2>2. Slot(from, i) \in Slots /\ Slot(from, i) # Slot(from, n + 1)
    BY <2>1, SlotFacts
  <2> QED
    BY <1>3, <2>2
<1> HIDE DEF new
<1> QED
  BY <1>4, <1>5, <1>6 DEF n, new

(* One less at its start. *)
LEMMA WindowPop ==
  ASSUME NEW from \in Idx, NEW to \in Idx, from # to
  PROVE  /\ Distance(from, to) >= 1
         /\ Distance(Next16(from), to) = Distance(from, to) - 1
         /\ Slot(from, 1) = from % QueueSize
         /\ \A i \in Nat : Slot(Next16(from), i + 1) = Slot(from, i + 2)
<1>1. QueueSize \in Nat \ {0} /\ IndexMod \in Nat /\ IndexMod % QueueSize = 0
  BY NetAssumption
<1>2. from \in Nat /\ to \in Nat
  BY DEF Idx
<1>3. /\ Distance(from, to) = IF from <= to THEN to - from ELSE to + IndexMod - from
      /\ Next16(from) = (IF from = IndexMod - 1 THEN 0 ELSE from + 1) /\ Next16(from) \in Idx
  BY DistanceIs, NextIs
<1>4. Distance(Next16(from), to) =
        IF Next16(from) <= to THEN to - Next16(from) ELSE to + IndexMod - Next16(from)
  BY <1>3, DistanceIs
<1>5. Distance(from, to) >= 1 /\ Distance(Next16(from), to) = Distance(from, to) - 1
  BY <1>1, <1>3, <1>4 DEF Idx
<1>6. Slot(from, 1) = from % QueueSize
  <2>1. from + 1 - 1 = from
    BY <1>2
  <2> QED
    BY <2>1 DEF Slot
<1>7. ASSUME NEW i \in Nat PROVE Slot(Next16(from), i + 1) = Slot(from, i + 2)
  <2>1. CASE from = IndexMod - 1
    <3>1. Next16(from) + (i + 1) - 1 = i /\ from + (i + 2) - 1 = i + IndexMod
      BY <1>1, <1>2, <1>3, <2>1
    <3>2. (i + IndexMod) % QueueSize = i % QueueSize
      BY <1>1, RemainderMultiple
    <3> QED
      BY <3>1, <3>2 DEF Slot
  <2>2. CASE from # IndexMod - 1
    <3>1. Next16(from) + (i + 1) - 1 = from + (i + 2) - 1
      BY <1>2, <1>3, <2>2
    <3> QED
      BY <3>1 DEF Slot
  <2> QED
    BY <2>1, <2>2
<1> QED
  BY <1>5, <1>6, <1>7


Posted(i) == g_rx_avail.ring[Slot(rx_seen, i)]
Filled(i) == g_rx_used.ring[Slot(last_used_idx, i)]
PostedCount == Distance(rx_seen, g_rx_avail.idx)
FilledCount == Distance(last_used_idx, g_rx_used.idx)

(* n values of p and m of f are all different, and all there are in S. *)
Split(p, n, f, m, S) ==
  /\ \A i, j \in 1 .. n : p[i] = p[j] => i = j
  /\ \A i, j \in 1 .. m : f[i] = f[j] => i = j
  /\ \A i \in 1 .. n, j \in 1 .. m : p[i] # f[j]
  /\ \A v \in S : (\E i \in 1 .. n : p[i] = v) \/ (\E j \in 1 .. m : f[j] = v)

AnyFrame == {Offer(s, ip) : s \in Servers, ip \in Addresses}
              \cup {Ack(s, ip) : s \in Servers, ip \in Addresses} \cup Noise
              \cup {Reply("zero", None, <<>>)}

(* Buffers are posted or filled, and not both; the filled ones hold what   *)
(* has arrived.                                                            *)
Owned ==
  /\ PostedCount + FilledCount = QueueSize
  /\ Split([i \in 1 .. QueueSize |-> Posted(i)], PostedCount,
           [i \in 1 .. QueueSize |-> Filled(i)], FilledCount, Slots)
  /\ Len(arrived) = FilledCount
  /\ \A j \in 1 .. FilledCount : g_rx_buf[Filled(j)] = arrived[j]

RxShape ==
  /\ g_rx_avail.ring \in [Slots -> Slots] /\ g_rx_used.ring \in [Slots -> Slots]
  /\ g_rx_avail.idx \in Idx /\ g_rx_used.idx \in Idx
  /\ last_used_idx \in Idx /\ rx_seen \in Idx
  /\ g_rx_buf \in [Slots -> AnyFrame] /\ arrived \in Seq(AnyFrame)

RxInv ==
  /\ RxShape
  /\ wire \subseteq AnyFrame
  /\ IF at \in {"boot", "off"} THEN arrived = <<>> ELSE Owned

(* The device counts what it has read; one message is on its way at most,  *)
(* and the driver knows that it is.                                        *)
TxInv ==
  /\ g_tx_avail \in Idx /\ tx_seen \in Idx /\ g_tx_used = tx_seen
  /\ IF tx_seen = g_tx_avail THEN published = <<>>
     ELSE /\ published = <<g_tx_buf>> /\ Next16(tx_seen) = g_tx_avail
          /\ g_tx_pending /\ g_tx_last_used = g_tx_used

(* The first of one sequence becomes the last of the other. *)
LEMMA MoveEntry ==
  ASSUME NEW n \in Nat \ {0}, NEW m \in Nat, NEW p, NEW f, NEW p2, NEW f2, NEW S,
         Split(p, n, f, m, S),
         \A i \in 1 .. n - 1 : p2[i] = p[i + 1],
         \A j \in 1 .. m : f2[j] = f[j], f2[m + 1] = p[1]
  PROVE  Split(p2, n - 1, f2, m + 1, S)
<1>1. /\ \A i, j \in 1 .. n : p[i] = p[j] => i = j
      /\ \A i, j \in 1 .. m : f[i] = f[j] => i = j
      /\ \A i \in 1 .. n, j \in 1 .. m : p[i] # f[j]
      /\ \A v \in S : (\E i \in 1 .. n : p[i] = v) \/ (\E j \in 1 .. m : f[j] = v)
  BY DEF Split
<1>2. \A i \in 1 .. n - 1 : i + 1 \in 1 .. n /\ i + 1 # 1
  OBVIOUS
<1>3. 1 \in 1 .. n /\ \A j \in 1 .. m + 1 : j \in 1 .. m \/ j = m + 1
  OBVIOUS
<1>4. ASSUME NEW i \in 1 .. n - 1, NEW j \in 1 .. n - 1, p2[i] = p2[j] PROVE i = j
  <2>1. i + 1 = j + 1
    BY <1>1, <1>2, <1>4
  <2> QED
    BY <2>1
<1>5. ASSUME NEW i \in 1 .. m + 1, NEW j \in 1 .. m + 1, f2[i] = f2[j] PROVE i = j
  BY <1>1, <1>3, <1>5
<1>6. ASSUME NEW i \in 1 .. n - 1, NEW j \in 1 .. m + 1 PROVE p2[i] # f2[j]
  BY <1>1, <1>2, <1>3
<1>7. ASSUME NEW v \in S
      PROVE  (\E i \in 1 .. n - 1 : p2[i] = v) \/ (\E j \in 1 .. m + 1 : f2[j] = v)
  <2>1. CASE \E i \in 1 .. n : p[i] = v
    <3>1. PICK i \in 1 .. n : p[i] = v
      BY <2>1
    <3>2. CASE i = 1
      <4>1. m + 1 \in 1 .. m + 1
        OBVIOUS
      <4> QED
        BY <3>1, <3>2, <4>1
    <3>3. CASE i # 1
      <4>1. i - 1 \in 1 .. n - 1 /\ (i - 1) + 1 = i
        BY <3>3
      <4>2. p2[i - 1] = p[(i - 1) + 1]
        BY <4>1
      <4> QED
        BY <3>1, <4>1, <4>2
    <3> QED
      BY <3>2, <3>3
  <2>2. CASE \E j \in 1 .. m : f[j] = v
    <3>1. PICK j \in 1 .. m : f[j] = v
      BY <2>2
    <3>2. j \in 1 .. m + 1
      OBVIOUS
    <3> QED
      BY <3>1, <3>2
  <2> QED
    BY <1>1, <2>1, <2>2
<1> QED
  BY <1>4, <1>5, <1>6, <1>7 DEF Split

(* Split does not mind which is which. *)
LEMMA SplitSymmetric ==
  ASSUME NEW n, NEW m, NEW p, NEW f, NEW S, Split(p, n, f, m, S) PROVE Split(f, m, p, n, S)
  BY DEF Split

(* The counts are within the ring. *)
LEMMA CountFacts ==
  ASSUME RxInv, Owned
  PROVE  /\ PostedCount \in Nat /\ FilledCount \in Nat /\ QueueSize \in Nat \ {0}
         /\ PostedCount <= QueueSize /\ FilledCount <= QueueSize
         /\ PostedCount + FilledCount = QueueSize
<1>1. PostedCount \in Idx /\ FilledCount \in Idx
  BY DistanceIs DEF RxInv, RxShape, PostedCount, FilledCount
<1>2. QueueSize \in Nat \ {0} /\ PostedCount + FilledCount = QueueSize
  BY NetAssumption DEF Owned
<1> QED
  BY <1>1, <1>2 DEF Idx


(* One more element at the end of a sequence. *)
LEMMA AppendFacts ==
  ASSUME NEW S, NEW s \in Seq(S), NEW x \in S
  PROVE  /\ Append(s, x) \in Seq(S) /\ Len(Append(s, x)) = Len(s) + 1
         /\ \A j \in 1 .. Len(s) : Append(s, x)[j] = s[j]
         /\ Append(s, x)[Len(s) + 1] = x
  OBVIOUS

(* The device fills the buffer posted first. *)
LEMMA DeliverRx ==
  ASSUME RxInv, NEW f \in wire \cup Noise, Deliver(f) PROVE RxInv'
<1> DEFINE id == g_rx_avail.ring[rx_seen % QueueSize]
<1>0. /\ g_rx_avail.ring \in [Slots -> Slots] /\ g_rx_used.ring \in [Slots -> Slots]
      /\ g_rx_avail.idx \in Idx /\ g_rx_used.idx \in Idx
      /\ last_used_idx \in Idx /\ rx_seen \in Idx
      /\ g_rx_buf \in [Slots -> AnyFrame] /\ arrived \in Seq(AnyFrame)
      /\ wire \subseteq AnyFrame /\ f \in AnyFrame
  BY DEF RxInv, RxShape, AnyFrame
<1>1. /\ at \notin {"boot", "off"} /\ at' = at /\ wire' = wire
      /\ rx_seen # g_rx_avail.idx /\ rx_seen' = Next16(rx_seen)
      /\ g_rx_buf' = [g_rx_buf EXCEPT ![id] = f]
      /\ g_rx_used' = [idx |-> Next16(g_rx_used.idx),
                       ring |-> [g_rx_used.ring EXCEPT ![g_rx_used.idx % QueueSize] = id]]
      /\ g_rx_avail' = g_rx_avail /\ last_used_idx' = last_used_idx
  BY DEF Deliver
<1>a. /\ arrived' \in Seq(AnyFrame) /\ Len(arrived') = Len(arrived) + 1
      /\ \A j \in 1 .. Len(arrived) : arrived'[j] = arrived[j]
      /\ arrived'[Len(arrived) + 1] = f
  <2>1. arrived' = Append(arrived, f)
    BY DEF Deliver
  <2>2. arrived \in Seq(AnyFrame) /\ f \in AnyFrame
    BY <1>0
  <2> QED
    BY <2>1, <2>2, AppendFacts
<1>2. Owned
  BY <1>1 DEF RxInv, RxShape
<1>3. /\ PostedCount \in Nat /\ FilledCount \in Nat /\ QueueSize \in Nat \ {0}
      /\ PostedCount <= QueueSize /\ FilledCount <= QueueSize
      /\ PostedCount + FilledCount = QueueSize
  BY <1>2, CountFacts
<1>4. /\ PostedCount >= 1 /\ PostedCount' = PostedCount - 1
      /\ Slot(rx_seen, 1) = rx_seen % QueueSize
      /\ \A i \in Nat : Slot(rx_seen', i + 1) = Slot(rx_seen, i + 2)
  BY <1>0, <1>1, WindowPop DEF PostedCount
<1>5. id = Posted(1) /\ id \in Slots
  BY <1>0, <1>3, <1>4, SlotFacts DEF Posted
<1> HIDE DEF id
<1>m. PICK n, m : n = PostedCount /\ m = FilledCount
  OBVIOUS
<1>6. /\ g_rx_used'.ring \in [Slots -> Slots]
      /\ FilledCount' = m + 1
      /\ \A i \in 1 .. m : Filled(i)' = Filled(i)
      /\ Filled(m + 1)' = id
  <2>1. Distance(last_used_idx, g_rx_used.idx) < QueueSize
    BY <1>3, <1>4 DEF FilledCount
  <2>2. /\ g_rx_used'.ring = [g_rx_used.ring EXCEPT ![g_rx_used.idx % QueueSize] = id]
        /\ g_rx_used'.idx = Next16(g_rx_used.idx)
    BY <1>1
  <2>3. /\ g_rx_used'.ring \in [Slots -> Slots]
        /\ Distance(last_used_idx, g_rx_used'.idx) = m + 1
        /\ \A i \in 1 .. m :
             g_rx_used'.ring[Slot(last_used_idx, i)] = g_rx_used.ring[Slot(last_used_idx, i)]
        /\ g_rx_used'.ring[Slot(last_used_idx, m + 1)] = id
    BY <1>0, <1>5, <1>m, <2>1, <2>2, WindowPush DEF FilledCount
  <2>4. FilledCount' = Distance(last_used_idx, g_rx_used'.idx)
    BY <1>1 DEF FilledCount
  <2> QED
    BY <1>1, <2>3, <2>4 DEF Filled
<1>7. \A i \in 1 .. n - 1 : Posted(i)' = Posted(i + 1)
  <2> SUFFICES ASSUME NEW i \in 1 .. n - 1 PROVE Posted(i)' = Posted(i + 1)
    OBVIOUS
  <2>1. i - 1 \in Nat /\ (i - 1) + 1 = i /\ (i - 1) + 2 = i + 1
    BY <1>3, <1>m
  <2>2. Slot(rx_seen', i) = Slot(rx_seen, i + 1)
    BY <1>4, <2>1
  <2> QED
    BY <1>1, <2>2 DEF Posted
<1>8. n \in Nat \ {0} /\ m \in Nat /\ n + m = QueueSize
  BY <1>3, <1>4, <1>m
<1> DEFINE p == [i \in 1 .. QueueSize |-> Posted(i)]
           q == [i \in 1 .. QueueSize |-> Filled(i)]
<1>9. Split(p, n, q, m, Slots) /\ Len(arrived) = m /\ \A j \in 1 .. m : g_rx_buf[Filled(j)] = arrived[j]
  BY <1>2, <1>m DEF Owned
<1>10. Split(p', n - 1, q', m + 1, Slots)
  <2>1. \A i \in 1 .. n - 1 : p'[i] = p[i + 1]
    BY <1>7, <1>8
  <2>2. \A j \in 1 .. m : q'[j] = q[j]
    BY <1>6, <1>8
  <2>3. q'[m + 1] = p[1]
    BY <1>5, <1>6, <1>8
  <2> HIDE DEF p, q
  <2> QED
    BY <1>8, <1>9, <2>1, <2>2, <2>3, MoveEntry
<1>11. ASSUME NEW j \in 1 .. m + 1 PROVE g_rx_buf'[Filled(j)'] = arrived'[j]
  <2>1. CASE j = m + 1
    <3>1. arrived'[j] = f /\ Filled(j)' = id
      BY <1>a, <1>6, <1>9, <2>1
    <3> QED
      BY <1>0, <1>1, <1>5, <3>1
  <2>2. CASE j \in 1 .. m
    <3>1. Filled(j) # id
      <4>1. p[1] # q[j]
        <5>1. 1 \in 1 .. n
          BY <1>8
        <5> HIDE DEF p, q
        <5> QED
          BY <1>9, <2>2, <5>1 DEF Split
      <4> QED
        BY <1>5, <1>8, <2>2, <4>1
    <3>2. Filled(j) \in Slots
      <4>1. j \in 1 .. QueueSize
        BY <1>8, <2>2
      <4> QED
        BY <1>0, <4>1, SlotFacts DEF Filled
    <3>3. arrived'[j] = arrived[j]
      BY <1>a, <1>9, <2>2
    <3>4. Filled(j)' = Filled(j) /\ g_rx_buf[Filled(j)] = arrived[j]
      BY <1>6, <1>9, <2>2
    <3> QED
      BY <1>0, <1>1, <3>1, <3>2, <3>3, <3>4
  <2> QED
    BY <1>8, <2>1, <2>2
<1>12. Owned'
  <2>1. PostedCount' = n - 1 /\ FilledCount' = m + 1 /\ (n - 1) + (m + 1) = QueueSize
    BY <1>4, <1>6, <1>8, <1>m
  <2>2. Len(arrived') = m + 1
    BY <1>a, <1>9
  <2> QED
    BY <1>10, <1>11, <2>1, <2>2 DEF Owned
<1>13. /\ g_rx_buf' \in [Slots -> AnyFrame] /\ arrived' \in Seq(AnyFrame)
       /\ g_rx_used'.idx \in Idx /\ rx_seen' \in Idx
  <2>1. g_rx_used'.idx = Next16(g_rx_used.idx) /\ rx_seen' = Next16(rx_seen)
    BY <1>1
  <2>2. g_rx_used'.idx \in Idx /\ rx_seen' \in Idx
    BY <1>0, <2>1, NextIs
  <2>3. g_rx_buf' \in [Slots -> AnyFrame]
    BY <1>0, <1>1, <1>5
  <2> QED
    BY <1>a, <2>2, <2>3
<1> QED
  BY <1>0, <1>1, <1>6, <1>12, <1>13 DEF RxInv, RxShape


(* virtio_net_recv takes the oldest filled buffer, and posts it again. *)
LEMMA RecvRx ==
  ASSUME RxInv, at = "drain", virtio_net_recv PROVE Owned' /\ RxShape'
<1>0. /\ g_rx_avail.ring \in [Slots -> Slots] /\ g_rx_used.ring \in [Slots -> Slots]
      /\ g_rx_avail.idx \in Idx /\ g_rx_used.idx \in Idx
      /\ last_used_idx \in Idx /\ rx_seen \in Idx
      /\ g_rx_buf \in [Slots -> AnyFrame] /\ arrived \in Seq(AnyFrame)
  BY DEF RxInv, RxShape
<1> DEFINE id == NextId
<1>1. /\ g_rx_used.idx # last_used_idx
      /\ g_rx_avail'.idx = Next16(g_rx_avail.idx)
      /\ g_rx_avail'.ring = [g_rx_avail.ring EXCEPT ![g_rx_avail.idx % QueueSize] = id]
      /\ last_used_idx' = Next16(last_used_idx)
      /\ arrived' = Tail(arrived)
      /\ g_rx_used' = g_rx_used /\ g_rx_buf' = g_rx_buf /\ rx_seen' = rx_seen
  BY DEF virtio_net_recv
<1>2. Owned
  BY DEF RxInv
<1>3. /\ PostedCount \in Nat /\ FilledCount \in Nat /\ QueueSize \in Nat \ {0}
      /\ PostedCount <= QueueSize /\ FilledCount <= QueueSize
      /\ PostedCount + FilledCount = QueueSize
  BY <1>2, CountFacts
<1>4. /\ FilledCount >= 1 /\ FilledCount' = FilledCount - 1
      /\ Slot(last_used_idx, 1) = last_used_idx % QueueSize
      /\ \A i \in Nat : Slot(last_used_idx', i + 1) = Slot(last_used_idx, i + 2)
  BY <1>0, <1>1, WindowPop DEF FilledCount
<1>5. id = Filled(1) /\ id \in Slots
  BY <1>0, <1>3, <1>4, SlotFacts DEF Filled, NextId
<1> HIDE DEF id
<1>m. PICK n, m : n = PostedCount /\ m = FilledCount
  OBVIOUS
<1>6. /\ g_rx_avail'.ring \in [Slots -> Slots]
      /\ PostedCount' = n + 1
      /\ \A i \in 1 .. n : Posted(i)' = Posted(i)
      /\ Posted(n + 1)' = id
  <2>1. Distance(rx_seen, g_rx_avail.idx) < QueueSize
    BY <1>3, <1>4 DEF PostedCount
  <2>2. /\ g_rx_avail'.ring \in [Slots -> Slots]
        /\ Distance(rx_seen, g_rx_avail'.idx) = n + 1
        /\ \A i \in 1 .. n :
             g_rx_avail'.ring[Slot(rx_seen, i)] = g_rx_avail.ring[Slot(rx_seen, i)]
        /\ g_rx_avail'.ring[Slot(rx_seen, n + 1)] = id
    BY <1>0, <1>1, <1>5, <1>m, <2>1, WindowPush DEF PostedCount
  <2>3. PostedCount' = Distance(rx_seen, g_rx_avail'.idx)
    BY <1>1 DEF PostedCount
  <2> QED
    BY <1>1, <2>2, <2>3 DEF Posted
<1>7. \A i \in 1 .. m - 1 : Filled(i)' = Filled(i + 1)
  <2> SUFFICES ASSUME NEW i \in 1 .. m - 1 PROVE Filled(i)' = Filled(i + 1)
    OBVIOUS
  <2>1. i - 1 \in Nat /\ (i - 1) + 1 = i /\ (i - 1) + 2 = i + 1
    BY <1>3, <1>m
  <2>2. Slot(last_used_idx', i) = Slot(last_used_idx, i + 1)
    BY <1>4, <2>1
  <2> QED
    BY <1>1, <2>2 DEF Filled
<1>8. n \in Nat /\ m \in Nat \ {0} /\ n + m = QueueSize
  BY <1>3, <1>4, <1>m
<1> DEFINE p == [i \in 1 .. QueueSize |-> Posted(i)]
           q == [i \in 1 .. QueueSize |-> Filled(i)]
<1>9. Split(p, n, q, m, Slots) /\ Len(arrived) = m /\ \A j \in 1 .. m : g_rx_buf[Filled(j)] = arrived[j]
  BY <1>2, <1>m DEF Owned
<1>10. Split(p', n + 1, q', m - 1, Slots)
  <2>1. \A i \in 1 .. m - 1 : q'[i] = q[i + 1]
    BY <1>7, <1>8
  <2>2. \A j \in 1 .. n : p'[j] = p[j]
    BY <1>6, <1>8
  <2>3. p'[n + 1] = q[1]
    BY <1>5, <1>6, <1>8
  <2> HIDE DEF p, q
  <2>4. Split(q, m, p, n, Slots)
    BY <1>9, SplitSymmetric
  <2>5. Split(q', m - 1, p', n + 1, Slots)
    BY <1>8, <2>1, <2>2, <2>3, <2>4, MoveEntry
  <2> QED
    BY <2>5, SplitSymmetric
<1>11. Len(arrived') = m - 1 /\ \A j \in 1 .. m - 1 : g_rx_buf'[Filled(j)'] = arrived'[j]
  <2>1. Len(arrived') = m - 1 /\ \A j \in 1 .. m - 1 : arrived'[j] = arrived[j + 1]
    BY <1>0, <1>1, <1>8, <1>9
  <2>2. \A j \in 1 .. m - 1 : j + 1 \in 1 .. m
    BY <1>8
  <2> QED
    BY <1>1, <1>7, <1>9, <2>1, <2>2
<1>12. Owned'
  <2>1. PostedCount' = n + 1 /\ FilledCount' = m - 1 /\ (n + 1) + (m - 1) = QueueSize
    BY <1>4, <1>6, <1>8, <1>m
  <2> QED
    BY <1>10, <1>11, <2>1 DEF Owned
<1>13. arrived' \in Seq(AnyFrame)
  BY <1>0, <1>1, <1>8, <1>9
<1>14. g_rx_avail'.idx \in Idx /\ last_used_idx' \in Idx
  BY <1>0, <1>1, NextIs
<1> QED
  BY <1>0, <1>1, <1>6, <1>12, <1>13, <1>14 DEF RxShape


(* virtio_net_init posts every buffer, in order. *)
LEMMA InitRx ==
  ASSUME RxInv, at = "boot", virtio_net_init PROVE Owned' /\ RxShape'
<1>0. QueueSize \in Nat \ {0} /\ IndexMod \in Nat /\ IndexMod > QueueSize
  BY NetAssumption
<1>1. /\ g_rx_avail' = [idx |-> QueueSize, ring |-> [i \in Slots |-> i]]
      /\ g_rx_used' = [idx |-> 0, ring |-> [i \in Slots |-> 0]]
      /\ last_used_idx' = 0 /\ rx_seen' = 0
      /\ g_rx_buf' = g_rx_buf /\ arrived' = arrived /\ arrived = <<>>
  BY DEF virtio_net_init, RxInv
<1>2. 0 \in Idx /\ QueueSize \in Idx /\ 0 \in Slots
  BY <1>0 DEF Idx, Slots
<1>3. PostedCount' = QueueSize /\ FilledCount' = 0
  <2>1. Distance(0, QueueSize) = QueueSize /\ Distance(0, 0) = 0
    BY <1>0, <1>2, DistanceIs
  <2> QED
    BY <1>1, <2>1 DEF PostedCount, FilledCount
<1>4. \A i \in 1 .. QueueSize : Posted(i)' = i - 1
  <2> SUFFICES ASSUME NEW i \in 1 .. QueueSize PROVE Posted(i)' = i - 1
    OBVIOUS
  <2>1. 0 + i - 1 = (QueueSize * 0) + (i - 1) /\ i - 1 \in 0 .. QueueSize - 1
    BY <1>0
  <2>2. Slot(0, i) = i - 1
    BY <1>0, <2>1, Remainder DEF Slot
  <2> QED
    BY <1>1, <2>1, <2>2 DEF Posted, Slots
<1> DEFINE p == [i \in 1 .. QueueSize |-> Posted(i)]
           q == [i \in 1 .. QueueSize |-> Filled(i)]
<1>5. \A i \in 1 .. QueueSize : p'[i] = i - 1
  BY <1>4
<1> HIDE DEF p, q
<1>6. Split(p', QueueSize, q', 0, Slots)
  <2>1. \A v \in Slots : v + 1 \in 1 .. QueueSize /\ (v + 1) - 1 = v
    BY <1>0 DEF Slots
  <2>2. \A v \in Slots : \E i \in 1 .. QueueSize : p'[i] = v
    BY <1>5, <2>1
  <2>3. \A i, j \in 1 .. QueueSize : p'[i] = p'[j] => i = j
    BY <1>0, <1>5
  <2> QED
    BY <2>2, <2>3 DEF Split
<1>7. Owned'
  <2>1. Len(arrived') = 0
    BY <1>1
  <2> QED
    BY <1>0, <1>3, <1>6, <2>1 DEF Owned, p, q
<1>8. /\ g_rx_avail'.ring \in [Slots -> Slots] /\ g_rx_used'.ring \in [Slots -> Slots]
  BY <1>1, <1>2
<1> QED
  BY <1>1, <1>2, <1>7, <1>8 DEF RxShape, RxInv

(* What a step does to the receive ring. *)
LEMMA RxKinds ==
  ASSUME Next
  PROVE  \/ /\ UNCHANGED rx
            /\ (at' \in {"boot", "off"}) <=> (at \in {"boot", "off"})
            /\ wire' = wire \/ \E s \in Servers : Answer(s) \/ AnswerSibling(s)
         \/ /\ at = "boot" /\ virtio_net_init
            /\ at' \notin {"boot", "off"} /\ wire' = wire
         \/ /\ at = "drain" /\ virtio_net_recv
            /\ at' \notin {"boot", "off"} /\ wire' = wire
         \/ \E f \in wire \cup Noise : Deliver(f)
<1>1. ASSUME NEW m, virtio_net_send(m) PROVE at' \in {"spin", "idle"}
  BY <1>1, Zenon DEF virtio_net_send
<1>2. ASSUME AfterDrain PROVE at' \in {"spin", "idle"}
  <2>1. CASE ~g_net_info.discovered /\ g_net_info.dhcp_state = "OFFER"
    BY <1>1, <1>2, <2>1 DEF AfterDrain
  <2>2. CASE ~(~g_net_info.discovered /\ g_net_info.dhcp_state = "OFFER")
    BY <1>2, <2>2 DEF AfterDrain
  <2> QED
    BY <2>1, <2>2
<1>3. CASE net_init
  BY <1>1, <1>3 DEF net_init
<1>4. CASE PollStart
  BY <1>4 DEF PollStart
<1>5. CASE DrainFrame
  BY <1>5 DEF DrainFrame
<1>6. CASE DrainEmptyFrame
  BY <1>2, <1>6 DEF DrainEmptyFrame
<1>7. CASE DrainEnd
  BY <1>2, <1>7 DEF DrainEnd
<1>8. CASE SpinDone
  BY <1>8 DEF SpinDone
<1>9. CASE SpinLimit
  BY <1>9 DEF SpinLimit
<1>10. CASE InitFails
  BY <1>10 DEF InitFails
<1>11. ASSUME NEW reaches \in BOOLEAN, Transmit(reaches)
       PROVE  UNCHANGED rx /\ at' = at /\ wire' = wire
  BY <1>11, Zenon DEF Transmit
<1>12. ASSUME NEW s \in Servers, Answer(s) \/ AnswerSibling(s) PROVE UNCHANGED rx /\ at' = at
  BY <1>12 DEF Answer, AnswerSibling
<1>13. CASE \E f \in wire \cup Noise : Deliver(f)
  BY <1>13
<1> QED
  BY <1>3, <1>4, <1>5, <1>6, <1>7, <1>8, <1>9, <1>10, <1>11, <1>12, <1>13
     DEF Next, Driver, Environment, net_poll

(* Every step keeps the receive ring. *)
LEMMA RxStep ==
  ASSUME RxInv, [Next]_vars PROVE RxInv'
<1>1. CASE UNCHANGED vars
  <2>1. UNCHANGED <<rx, at, wire>>
    BY <1>1 DEF vars
  <2> QED
    BY <2>1 DEF rx, RxInv, RxShape, Owned, Posted, Filled, PostedCount, FilledCount
<1>2. CASE /\ UNCHANGED rx
           /\ (at' \in {"boot", "off"}) <=> (at \in {"boot", "off"})
           /\ wire' = wire \/ \E s \in Servers : Answer(s) \/ AnswerSibling(s)
  <2>1. wire' \subseteq AnyFrame
    BY <1>2 DEF RxInv, Answer, AnswerSibling, AnyFrame, Addresses
  <2>2. RxShape' /\ (Owned <=> Owned') /\ arrived' = arrived
    BY <1>2 DEF rx, RxInv, RxShape, Owned, Posted, Filled, PostedCount, FilledCount
  <2> QED
    BY <1>2, <2>1, <2>2 DEF RxInv
<1>3. CASE /\ at = "boot" /\ virtio_net_init
           /\ at' \notin {"boot", "off"} /\ wire' = wire
  BY <1>3, InitRx DEF RxInv
<1>4. CASE /\ at = "drain" /\ virtio_net_recv
           /\ at' \notin {"boot", "off"} /\ wire' = wire
  BY <1>4, RecvRx DEF RxInv
<1>5. CASE \E f \in wire \cup Noise : Deliver(f)
  BY <1>5, DeliverRx
<1> QED
  BY <1>1, <1>2, <1>3, <1>4, <1>5, RxKinds


(* A send hands over a message only when none is on its way. *)
LEMMA SendTx ==
  ASSUME TxInv, NEW m, virtio_net_send(m) PROVE TxInv'
<1>0. Next16(g_tx_avail) # g_tx_avail /\ Next16(g_tx_avail) \in Idx
  BY NextIs, NetAssumption DEF TxInv, Idx
<1>1. CASE TxFree
  <2>1. tx_seen = g_tx_avail /\ published = <<>>
    BY <1>1, Zenon DEF TxInv, TxFree, TxDone
  <2>2. /\ g_tx_last_used' = g_tx_used /\ g_tx_buf' = m /\ g_tx_avail' = Next16(g_tx_avail)
        /\ g_tx_pending' = TRUE /\ published' = Append(published, m)
        /\ g_tx_used' = g_tx_used /\ tx_seen' = tx_seen
    BY <1>1, Zenon DEF virtio_net_send
  <2>3. published' = <<m>>
    BY <2>1, <2>2
  <2> QED
    BY <1>0, <2>1, <2>2, <2>3 DEF TxInv
<1>2. CASE ~TxFree
  <2>1. /\ g_tx_last_used' = g_tx_used
        /\ UNCHANGED <<g_tx_buf, g_tx_avail, g_tx_pending, published, g_tx_used, tx_seen>>
    BY <1>2, Zenon DEF virtio_net_send
  <2> QED
    BY <2>1 DEF TxInv
<1> QED
  BY <1>1, <1>2

(* Every step keeps the transmit side. *)
LEMMA TxStep ==
  ASSUME TxInv, [Next]_vars PROVE TxInv'
<1>0. ASSUME UNCHANGED tx PROVE TxInv'
  BY <1>0 DEF tx, TxInv
<1>1. ASSUME AfterDrain PROVE TxInv'
  <2>1. CASE ~g_net_info.discovered /\ g_net_info.dhcp_state = "OFFER"
    BY <1>1, <2>1, SendTx DEF AfterDrain
  <2>2. CASE ~(~g_net_info.discovered /\ g_net_info.dhcp_state = "OFFER")
    BY <1>0, <1>1, <2>2 DEF AfterDrain
  <2> QED
    BY <2>1, <2>2
<1>2. CASE UNCHANGED vars
  BY <1>0, <1>2 DEF vars
<1>3. CASE net_init
  BY <1>3, SendTx DEF net_init
<1>4. CASE PollStart
  BY <1>0, <1>4 DEF PollStart
<1>5. CASE DrainFrame
  BY <1>0, <1>5 DEF DrainFrame
<1>6. CASE DrainEmptyFrame
  BY <1>1, <1>6 DEF DrainEmptyFrame
<1>7. CASE DrainEnd
  BY <1>1, <1>7 DEF DrainEnd
<1>8. CASE SpinDone
  <2>1. tx_seen = g_tx_avail
    BY <1>8, Zenon DEF SpinDone, TxInv, TxDone
  <2>2. UNCHANGED <<g_tx_avail, g_tx_used, g_tx_buf, tx_seen, published>>
    BY <1>8 DEF SpinDone
  <2> QED
    BY <2>1, <2>2 DEF TxInv
<1>9. CASE SpinLimit
  BY <1>0, <1>9 DEF SpinLimit
<1>10. CASE InitFails
  BY <1>0, <1>10 DEF InitFails
<1>11. ASSUME NEW reaches \in BOOLEAN, Transmit(reaches) PROVE TxInv'
  <2>1. /\ tx_seen # g_tx_avail /\ tx_seen' = Next16(tx_seen) /\ g_tx_used' = Next16(g_tx_used)
        /\ published' = Tail(published) /\ g_tx_avail' = g_tx_avail
    BY <1>11, Zenon DEF Transmit
  <2>2. published = <<g_tx_buf>> /\ Next16(tx_seen) = g_tx_avail
    BY <2>1 DEF TxInv
  <2>3. published' = <<>>
    BY <2>1, <2>2
  <2> QED
    BY <2>1, <2>2, <2>3 DEF TxInv
<1>12. ASSUME NEW s \in Servers, Answer(s) \/ AnswerSibling(s) PROVE TxInv'
  BY <1>0, <1>12 DEF Answer, AnswerSibling
<1>13. ASSUME NEW f \in wire \cup Noise, Deliver(f) PROVE TxInv'
  BY <1>0, <1>13, Zenon DEF Deliver
<1> QED
  BY <1>2, <1>3, <1>4, <1>5, <1>6, <1>7, <1>8, <1>9, <1>10, <1>11, <1>12, <1>13
     DEF Next, Driver, Environment, net_poll

(* The rings before virtio_net_init. *)
LEMMA RingsInit == ASSUME Init PROVE RxInv /\ TxInv
<1>1. QueueSize \in Nat \ {0} /\ IndexMod \in Nat \ {0}
  BY NetAssumption
<1>2. 0 \in Slots /\ 0 \in Idx
  BY <1>1 DEF Slots, Idx
<1>3. RxShape
  <2>1. <<>> \in Seq(AnyFrame) /\ Reply("zero", None, <<>>) \in AnyFrame
    BY DEF AnyFrame
  <2> QED
    BY <1>2, <2>1 DEF Init, RxShape
<1> QED
  BY <1>2, <1>3 DEF Init, RxInv, TxInv

(* Read as sequences, this is RingsSound. *)
LEMMA RingsImplies == ASSUME RxInv, TxInv PROVE RingsSound
<1> SUFFICES ASSUME at \notin {"boot", "off"} PROVE RingsSound
  BY DEF RingsSound
<1>1. Owned /\ RxShape
  BY DEF RxInv
<1>2. /\ PostedCount \in Nat /\ FilledCount \in Nat
      /\ PostedCount <= QueueSize /\ FilledCount <= QueueSize
      /\ PostedCount + FilledCount = QueueSize
  BY <1>1, CountFacts
<1> DEFINE posted == Window(g_rx_avail.ring, rx_seen, g_rx_avail.idx)
           filled == Window(g_rx_used.ring, last_used_idx, g_rx_used.idx)
<1>3. /\ posted = [i \in 1 .. PostedCount |-> Posted(i)]
      /\ filled = [i \in 1 .. FilledCount |-> Filled(i)]
  BY DEF Window, Posted, Filled, PostedCount, FilledCount, Slot
<1>4. \A i \in 1 .. QueueSize : Posted(i) \in Slots /\ Filled(i) \in Slots
  BY <1>1, SlotFacts DEF RxShape, Posted, Filled
<1> HIDE DEF posted, filled
<1>5. /\ posted \in Seq(Slots) /\ Len(posted) = PostedCount
      /\ filled \in Seq(Slots) /\ Len(filled) = FilledCount
  <2>1. posted \in [1 .. PostedCount -> Slots] /\ filled \in [1 .. FilledCount -> Slots]
    BY <1>2, <1>3, <1>4
  <2> QED
    BY <1>2, <2>1
<1> DEFINE both == posted \o filled
<1>6. Len(both) = QueueSize
  BY <1>2, <1>5
<1>7. {both[n] : n \in DOMAIN both} = Slots
  <2>1. both \in Seq(Slots)
    BY <1>5
  <2> HIDE DEF both
  <2>2. {both[n] : n \in DOMAIN both} \subseteq Slots
    BY <2>1
  <2>3. ASSUME NEW v \in Slots PROVE v \in {both[n] : n \in DOMAIN both}
    <3>1. \/ \E i \in 1 .. PostedCount : posted[i] = v
          \/ \E j \in 1 .. FilledCount : filled[j] = v
      <4> DEFINE p == [i \in 1 .. QueueSize |-> Posted(i)]
                 q == [i \in 1 .. QueueSize |-> Filled(i)]
      <4>1. \A i \in 1 .. PostedCount : posted[i] = p[i]
        BY <1>2, <1>3
      <4>3. \A j \in 1 .. FilledCount : filled[j] = q[j]
        BY <1>2, <1>3
      <4>2. Split(p, PostedCount, q, FilledCount, Slots)
        BY <1>1 DEF Owned
      <4> HIDE DEF p, q
      <4> QED
        BY <4>1, <4>2, <4>3 DEF Split
    <3>2. ASSUME NEW i \in 1 .. PostedCount, posted[i] = v PROVE v \in {both[n] : n \in DOMAIN both}
      <4>1. i \in DOMAIN both /\ both[i] = v
        BY <1>2, <1>5, <3>2 DEF both
      <4> QED
        BY <4>1
    <3>3. ASSUME NEW j \in 1 .. FilledCount, filled[j] = v PROVE v \in {both[n] : n \in DOMAIN both}
      <4>1. /\ PostedCount + j \in DOMAIN both
            /\ both[PostedCount + j] = v
        BY <1>2, <1>5, <3>3 DEF both
      <4> QED
        BY <4>1
    <3> QED
      BY <3>1, <3>2, <3>3
  <2> QED
    BY <2>2, <2>3
<1>8. [i \in DOMAIN filled |-> g_rx_buf[filled[i]]] = arrived
  <2>1. arrived \in Seq(AnyFrame) /\ Len(arrived) = FilledCount
    BY <1>1 DEF RxShape, Owned
  <2>2. arrived = [i \in 1 .. FilledCount |-> arrived[i]]
    BY <2>1
  <2>3. \A i \in 1 .. FilledCount : g_rx_buf[filled[i]] = arrived[i]
    BY <1>1, <1>3 DEF Owned
  <2>4. DOMAIN filled = 1 .. FilledCount
    BY <1>3
  <2> QED
    BY <2>2, <2>3, <2>4
<1>9. Len(published) = Distance(tx_seen, g_tx_avail) /\ (published # <<>> => published = <<g_tx_buf>>)
  <2>1. g_tx_avail \in Idx /\ tx_seen \in Idx /\ IndexMod \in Nat /\ IndexMod > 1
    BY NetAssumption DEF TxInv
  <2>2. CASE tx_seen = g_tx_avail
    <3>1. Distance(tx_seen, g_tx_avail) = 0
      BY <2>1, <2>2, DistanceIs DEF Idx
    <3> QED
      BY <2>2, <3>1 DEF TxInv
  <2>3. CASE tx_seen # g_tx_avail
    <3>1. published = <<g_tx_buf>> /\ Next16(tx_seen) = g_tx_avail
      BY <2>3 DEF TxInv
    <3>2. Distance(tx_seen, g_tx_avail) = 1
      <4>1. g_tx_avail = IF tx_seen = IndexMod - 1 THEN 0 ELSE tx_seen + 1
        BY <2>1, <3>1, NextIs
      <4>2. Distance(tx_seen, g_tx_avail) =
              IF tx_seen <= g_tx_avail THEN g_tx_avail - tx_seen ELSE g_tx_avail + IndexMod - tx_seen
        BY <2>1, DistanceIs
      <4> QED
        BY <2>1, <4>1, <4>2 DEF Idx
    <3> QED
      BY <3>1, <3>2
  <2> QED
    BY <2>2, <2>3
<1> QED
  BY <1>6, <1>7, <1>8, <1>9 DEF RingsSound, posted, filled

(* For a ring of any size and indices of any width that is a multiple of   *)
(* it: virtio_net_recv and the device never own a receive buffer both, no  *)
(* buffer is lost, frames are read in the order and with the content they  *)
(* arrived, and virtio_net_send never overwrites a message the device has  *)
(* still to read, though it may have given up waiting.                     *)
THEOREM RingsCorrect == Spec => []RingsSound
<1>1. Init => RxInv /\ TxInv
  BY RingsInit
<1>2. RxInv /\ TxInv /\ [Next]_vars => (RxInv /\ TxInv)'
  BY RxStep, TxStep
<1>3. RxInv /\ TxInv => RingsSound
  BY RingsImplies
<1> QED
  BY <1>1, <1>2, <1>3, PTL DEF Spec
=============================================================================
