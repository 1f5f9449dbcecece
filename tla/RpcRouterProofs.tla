-------------------------- MODULE RpcRouterProofs --------------------------
(***************************************************************************)
(* Proofs about RpcRouter for any clients, any quota, any room in the      *)
(* channel and any number of calls and of restarts of the modem.           *)
(***************************************************************************)
EXTENDS RpcRouter, SequenceTheorems, TLAPS

(* A packet is no control message, and RESUME_TX announces no server.      *)
LEMMA Messages ==
    /\ \A p \in Packets : ~IsControl(p) /\ p # RESUME_TX /\ p \notin Announcements /\ p # <<>>
    /\ IsControl(RESUME_TX) /\ \A m \in Announcements : IsControl(m) /\ m # <<>>
    /\ RESUME_TX \notin Announcements /\ RESUME_TX # <<>>
<1>1. ASSUME NEW p \in Packets
      PROVE  ~IsControl(p) /\ p # <<>>
  BY DEF Packets, IsControl
<1>2. IsControl(RESUME_TX) /\ RESUME_TX # <<>>
  BY DEF IsControl, RESUME_TX
<1>3. ASSUME NEW m \in Announcements
      PROVE  IsControl(m) /\ m # <<>> /\ m # RESUME_TX
  <2>1. PICK cid \in Addresses : m = NEW_SERVER(cid)
    BY <1>3 DEF Announcements
  <2>2. m.control = "NEW_SERVER" /\ IsControl(m) /\ m # <<>>
    BY <2>1 DEF NEW_SERVER, IsControl
  <2>3. RESUME_TX.control = "RESUME_TX"
    BY DEF RESUME_TX
  <2> QED
    BY <2>2, <2>3
<1> QED
  BY <1>1, <1>2, <1>3

(* The parts of a message, messages, and what is left of them have lengths.*)
LEMMA Lengths ==
    /\ \A what \in DOMAIN Length : Length[what] \in Nat \ {0}
    /\ \A m : Size(m) \in Nat
    /\ part \in DOMAIN Length => /\ Rest \in Nat
                                 /\ part = "header" => Rest = 0
                                 /\ part # "header" => Rest >= Length[part]
<1>1. /\ HeaderLen \in Nat \ {0} /\ ControlLen \in Nat \ {0}
      /\ PacmarkLen \in Nat \ {0} /\ DataLen \in Nat \ {0}
  BY LengthsAssumption DEF LengthsAssumption
<1>2. \A what \in DOMAIN Length : Length[what] \in Nat \ {0}
  BY <1>1 DEF Length
<1>3. \A m : Size(m) \in Nat
  BY <1>1 DEF Size
<1>4. ASSUME part \in DOMAIN Length
      PROVE  /\ Rest \in Nat
             /\ part = "header" => Rest = 0
             /\ part # "header" => Rest >= Length[part]
  BY <1>1, <1>4 DEF Rest, Length
<1> QED
  BY <1>2, <1>3, <1>4

(* The types, in parts, with what a call in progress and the worker hold.  *)
ClientsOK ==
    /\ local_endpoints \subseteq Clients
    /\ dst_cid \in [Clients -> Addresses]
    /\ server_cid \in Addresses
    /\ pc \in [Clients -> Calling \cup {"idle"}]
    /\ xid \in [Clients -> 0..MaxCalls]
    /\ asleep \subseteq Clients
    /\ confirm_rx \in [Clients -> BOOLEAN]
    /\ restart_state \in [Clients -> SUBSET {PEND_SVR, PEND_NTFY}]
    /\ next_xid \in 1..(MaxCalls + 1)
    /\ \A c \in Clients : pc[c] # "idle" => xid[c] \in Xids

QueuesOK ==
    /\ read_q \in [Clients -> Seq(Xids)]
    /\ read_q_wake_lock \subseteq Clients

QuotaOK ==
    /\ tx_quota_cntr \in 0..Quota
    /\ quota_abort \in BOOLEAN

WorkerOK ==
    /\ worker \in {"read", "wait", "asleep", "restart", "complete", "confirm"}
    /\ part \in DOMAIN Length
    /\ worker \in {"complete", "confirm"} => part = "header" /\ packet \in Packets
    /\ worker = "restart" => part = "header"
    /\ worker \notin {"complete", "confirm"} /\ part = "header" => packet = <<>>
    /\ part \in {"pacmark", "data"} => packet \in Packets
    /\ part = "control" => packet \in {RESUME_TX} \cup Announcements
    /\ need_len \in Nat
    /\ wakelock \in BOOLEAN

ChannelOK ==
    /\ rx \in Seq(Received)
    /\ read_avail \in Nat
    /\ coming \in Nat
    /\ interrupt \in BOOLEAN

ModemOK ==
    /\ tx \in Seq(Sent)
    /\ modem \in {"up", "down", "local", "remote"}
    /\ accepted \subseteq Clients \X Xids
    /\ unconfirmed \in 0..Quota
    /\ resets \in 0..MaxResets

TypeInv == ClientsOK /\ QueuesOK /\ QuotaOK /\ WorkerOK /\ ChannelOK /\ ModemOK

LEMMA TypeInvGivesTypes == TypeInv => TypeOK
<1> SUFFICES ASSUME TypeInv PROVE TypeOK
  OBVIOUS
<1>1. packet \in Received \cup {<<>>}
  BY Zenon DEF TypeInv, WorkerOK, Received, Length
<1> QED
  BY <1>1 DEF TypeInv, TypeOK, ClientsOK, QueuesOK, QuotaOK, WorkerOK, ChannelOK, ModemOK

LEMMA TypesInitially == Init => TypeInv
<1> SUFFICES ASSUME Init PROVE TypeInv
  OBVIOUS
<1> USE QuotaAssumption, BoundsAssumption DEF QuotaAssumption, BoundsAssumption, Init
<1>1. ClientsOK
  BY AddressesAssumption DEF ClientsOK, Xids, AddressesAssumption
<1>2. QueuesOK
  BY DEF QueuesOK
<1>3. QuotaOK
  <2>1. tx_quota_cntr = 0 /\ quota_abort = FALSE
    OBVIOUS
  <2>2. 0 \in 0..Quota
    OBVIOUS
  <2> QED
    BY <2>1, <2>2, Zenon DEF QuotaOK
<1>4. WorkerOK
  <2>1. worker = "read" /\ part = "header" /\ packet = <<>> /\ need_len = 0 /\ wakelock = FALSE
    OBVIOUS
  <2>2. part \in DOMAIN Length
    BY <2>1 DEF Length
  <2>3. 0 \in Nat
    OBVIOUS
  <2> QED
    BY <2>1, <2>2, <2>3, Zenon DEF WorkerOK
<1>5. ChannelOK
  <2>1. rx = <<>> /\ read_avail = 0 /\ coming = 0 /\ interrupt = FALSE
    OBVIOUS
  <2>2. <<>> \in Seq(Received)
    BY EmptySeq
  <2>3. 0 \in Nat
    OBVIOUS
  <2> QED
    BY <2>1, <2>2, <2>3, Zenon DEF ChannelOK
<1>6. ModemOK
  BY DEF ModemOK
<1> QED
  BY <1>1, <1>2, <1>3, <1>4, <1>5, <1>6 DEF TypeInv

(* A part that is not touched stays as it is.                              *)
LEMMA Untouched ==
    ASSUME TypeInv
    PROVE  /\ UNCHANGED <<clients, restart_state>> => ClientsOK'
           /\ UNCHANGED queues => QueuesOK'
           /\ UNCHANGED quota => QuotaOK'
           /\ UNCHANGED working => WorkerOK'
           /\ UNCHANGED channel => ChannelOK'
           /\ UNCHANGED <<tx, remote>> => ModemOK'
<1>1. UNCHANGED <<clients, restart_state>> => ClientsOK'
  BY DEF clients, endpoints, TypeInv, ClientsOK
<1>2. UNCHANGED queues => QueuesOK'
  BY DEF queues, TypeInv, QueuesOK
<1>3. UNCHANGED quota => QuotaOK'
  BY DEF quota, TypeInv, QuotaOK
<1>4. UNCHANGED working => WorkerOK'
  BY DEF working, TypeInv, WorkerOK
<1>5. UNCHANGED channel => ChannelOK'
  BY DEF channel, TypeInv, ChannelOK
<1>6. UNCHANGED <<tx, remote>> => ModemOK'
  BY DEF remote, TypeInv, ModemOK
<1> QED
  BY <1>1, <1>2, <1>3, <1>4, <1>5, <1>6

(* The fields of a client are set one at a time.                           *)
LEMMA ClientSet ==
    ASSUME TypeInv, NEW c \in Clients,
           pc' = pc \/ \E place \in Calling \cup {"idle"} : Goto(c, place),
           pc'[c] # "idle" => pc[c] # "idle",
           xid' = xid \/ (xid' = [xid EXCEPT ![c] = 0] /\ pc'[c] = "idle"),
           asleep' \subseteq asleep \cup {c},
           confirm_rx' = confirm_rx \/ \E flag \in BOOLEAN : confirm_rx' = [confirm_rx EXCEPT ![c] = flag],
           restart_state' = restart_state \/ Told(c),
           UNCHANGED <<endpoints, next_xid>>
    PROVE  ClientsOK'
<1> USE BoundsAssumption DEF BoundsAssumption, TypeInv, ClientsOK
<1>1. pc' \in [Clients -> Calling \cup {"idle"}] /\ \A d \in Clients \ {c} : pc'[d] = pc[d]
  BY DEF Goto
<1>2. xid' \in [Clients -> 0..MaxCalls] /\ \A d \in Clients \ {c} : xid'[d] = xid[d]
  OBVIOUS
<1>3. pc'[c] # "idle" => xid'[c] \in Xids
  OBVIOUS
<1>4. confirm_rx' \in [Clients -> BOOLEAN]
  OBVIOUS
<1>5. restart_state' \in [Clients -> SUBSET {PEND_SVR, PEND_NTFY}]
  BY DEF Told
<1>6. asleep' \subseteq Clients
  OBVIOUS
<1>7. /\ local_endpoints' \subseteq Clients /\ next_xid' \in 1..(MaxCalls + 1)
      /\ dst_cid' \in [Clients -> Addresses] /\ server_cid' \in Addresses
  BY DEF endpoints
<1>8. \A d \in Clients : pc'[d] # "idle" => xid'[d] \in Xids
  BY <1>1, <1>2, <1>3
<1> QED
  BY <1>1, <1>2, <1>4, <1>5, <1>6, <1>7, <1>8

(* The steps of a client.                                                  *)
LEMMA ClientTypes ==
    ASSUME TypeInv, NEW c \in Clients,
           \/ msm_rpc_connect(c) \/ msm_rpcrouter_destroy_local_endpoint(c)
           \/ msm_rpc_clear_netreset(c) \/ msm_rpc_call_reply(c)
           \/ CallGoesOn(c) \/ Interrupted(c)
    PROVE  TypeInv'
<1> USE QuotaAssumption, BoundsAssumption DEF QuotaAssumption, BoundsAssumption, Calling
<1>1. CASE msm_rpc_connect(c)
  <2>1. ClientsOK'
    BY <1>1 DEF msm_rpc_connect, TypeInv, ClientsOK
  <2> QED
    BY <1>1, <2>1, Untouched DEF msm_rpc_connect, TypeInv
<1>2. CASE msm_rpcrouter_destroy_local_endpoint(c)
  <2>1. ClientsOK' /\ QueuesOK'
    BY <1>2, AddressesAssumption
       DEF msm_rpcrouter_destroy_local_endpoint, AddressesAssumption, TypeInv, ClientsOK, QueuesOK
  <2> QED
    BY <1>2, <2>1, Untouched DEF msm_rpcrouter_destroy_local_endpoint, TypeInv
<1>3. CASE msm_rpc_clear_netreset(c)
  <2>1. ClientsOK'
    BY <1>3 DEF msm_rpc_clear_netreset, Told, clients, endpoints, TypeInv, ClientsOK
  <2> QED
    BY <1>3, <2>1, Untouched DEF msm_rpc_clear_netreset, TypeInv
<1>4. CASE msm_rpc_call_reply(c)
  <2>1. ClientsOK'
    BY <1>4 DEF msm_rpc_call_reply, Goto, endpoints, TypeInv, ClientsOK, Xids
  <2> QED
    BY <1>4, <2>1, Untouched DEF msm_rpc_call_reply, TypeInv
<1>5. CASE WaitsForRestart(c)
  <2>1. ClientsOK'
    BY <1>5, ClientSet DEF WaitsForRestart, Goto, TypeInv, ClientsOK
  <2> QED
    BY <1>5, <2>1, Untouched DEF WaitsForRestart, TypeInv
<1>6. CASE WaitsForQuota(c)
  <2> USE <1>6 DEF WaitsForQuota
  <2>1. CASE quota_abort
    <3>1. ClientsOK' /\ UNCHANGED quota
      BY <2>1, ClientSet DEF Goto, Returns, TypeInv, ClientsOK
    <3> QED
      BY <3>1, Untouched DEF TypeInv
  <2>2. CASE ~quota_abort /\ tx_quota_cntr >= Quota
    <3>1. ClientsOK' /\ UNCHANGED quota
      BY <2>2, ClientSet
    <3> QED
      BY <3>1, Untouched DEF TypeInv
  <2>3. CASE ~quota_abort /\ tx_quota_cntr < Quota
    <3>1. /\ tx_quota_cntr' = tx_quota_cntr + 1 /\ Goto(c, "write")
          /\ confirm_rx' = [confirm_rx EXCEPT ![c] = AsksConfirm]
          /\ UNCHANGED <<xid, asleep, quota_abort, restart_state, endpoints, next_xid>>
      BY <2>3 DEF TypeInv, QuotaOK
    <3>2. AsksConfirm \in BOOLEAN
      BY DEF AsksConfirm
    <3>3. ClientsOK'
      BY <3>1, <3>2, ClientSet DEF Goto, TypeInv, ClientsOK
    <3>4. QuotaOK'
      BY <2>3, <3>1 DEF TypeInv, QuotaOK
    <3> QED
      BY <3>3, <3>4, Untouched DEF TypeInv
  <2> QED
    BY <2>1, <2>2, <2>3 DEF TypeInv, QuotaOK
<1>7. CASE msm_rpc_write_pkt(c)
  <2> USE <1>7 DEF msm_rpc_write_pkt
  <2>1. ClientsOK'
    BY ClientSet DEF Goto, Returns, TypeInv, ClientsOK
  <2>2. [ept |-> c, xid |-> xid[c], confirm |-> confirm_rx[c]] \in Packets
    BY DEF Packets, TypeInv, ClientsOK
  <2>3. tx' = tx \/ tx' = Append(tx, [ept |-> c, xid |-> xid[c], confirm |-> confirm_rx[c]])
    OBVIOUS
  <2>4. tx' \in Seq(Sent)
    <3> HIDE <1>7 DEF msm_rpc_write_pkt
    <3>1. tx \in Seq(Sent)
      BY DEF TypeInv, ModemOK
    <3> QED
      BY <2>2, <2>3, <3>1, AppendProperties DEF Sent
  <2>5. UNCHANGED <<modem, accepted, unconfirmed, resets>>
    BY DEF remote
  <2>6. ModemOK'
    BY <2>4, <2>5 DEF TypeInv, ModemOK
  <2> QED
    BY <2>1, <2>6, Untouched DEF TypeInv
<1>8. CASE msm_rpc_read(c)
  <2>1. ClientsOK'
    BY <1>8, ClientSet DEF msm_rpc_read, Goto, Returns, TypeInv, ClientsOK
  <2> QED
    BY <1>8, <2>1, Untouched DEF msm_rpc_read, TypeInv
<1>9. CASE WaitsForReply(c)
  <2>1. ClientsOK'
    BY <1>9, ClientSet DEF WaitsForReply, Goto, Returns, TypeInv, ClientsOK
  <2> QED
    BY <1>9, <2>1, Untouched DEF WaitsForReply, TypeInv
<1>10. CASE TakesReply(c)
  <2>1. ClientsOK'
    BY <1>10, ClientSet DEF TakesReply, Goto, Returns, TypeInv, ClientsOK
  <2>2. QueuesOK'
    <3>1. CASE read_q[c] = <<>>
      BY <1>10, <3>1, Untouched DEF TakesReply
    <3>2. CASE read_q[c] # <<>>
      <4>1. read_q[c] \in Seq(Xids)
        BY DEF TypeInv, QueuesOK
      <4>2. Tail(read_q[c]) \in Seq(Xids)
        BY <3>2, <4>1
      <4>3. read_q' = [read_q EXCEPT ![c] = Tail(read_q[c])] /\ wake_unlock(c)
        BY <1>10, <3>2 DEF TakesReply
      <4> QED
        BY <4>2, <4>3 DEF wake_unlock, TypeInv, QueuesOK
    <3> QED
      BY <3>1, <3>2
  <2> QED
    BY <1>10, <2>1, <2>2, Untouched DEF TakesReply, TypeInv
<1>11. CASE Interrupted(c)
  <2>1. ClientsOK'
    BY <1>11, ClientSet DEF Interrupted, Goto, Returns, TypeInv, ClientsOK
  <2> QED
    BY <1>11, <2>1, Untouched DEF Interrupted, TypeInv
<1> QED
  BY <1>1, <1>2, <1>3, <1>4, <1>5, <1>6, <1>7, <1>8, <1>9, <1>10, <1>11, Zenon DEF CallGoesOn

(* What is read and written is again a sequence of messages.               *)
LEMMA FromChannel ==
    ASSUME TypeInv
    PROVE  /\ rx # <<>> => Head(rx) \in Received /\ Tail(rx) \in Seq(Received)
           /\ tx # <<>> => Head(tx) \in Sent /\ Tail(tx) \in Seq(Sent)
           /\ \A m \in Received : Append(rx, m) \in Seq(Received)
           /\ Append(tx, RESUME_TX) \in Seq(Sent)
<1>1. rx \in Seq(Received) /\ tx \in Seq(Sent) /\ RESUME_TX \in Sent
  BY DEF TypeInv, ChannelOK, ModemOK, Sent
<1> QED
  BY <1>1, HeadTailProperties, AppendProperties

(* A part of a message is taken from the channel.                          *)
LEMMA ReadTypes ==
    ASSUME TypeInv, NEW what \in DOMAIN Length, Reads(what)
    PROVE  read_avail' \in Nat
BY Lengths DEF Reads, TypeInv, ChannelOK

(* The steps of the worker.                                                *)
LEMMA ControlTypes ==
    ASSUME TypeInv, NEW message \in {RESUME_TX} \cup Announcements, ReadsControl(message),
           worker' \in {"read", "restart"}
    PROVE  WorkerOK' /\ ChannelOK' /\ ModemOK'
<1>1. read_avail' \in Nat
  BY ReadTypes DEF ReadsControl, Length
<1>2. ChannelOK'
  BY <1>1 DEF ReadsControl, TypeInv, ChannelOK
<1>3. WorkerOK'
  BY DEF ReadsControl, TypeInv, WorkerOK, Length
<1>4. ModemOK'
  BY Untouched DEF ReadsControl
<1> QED
  BY <1>2, <1>3, <1>4

LEMMA WorkerTypes ==
    ASSUME TypeInv, Worker
    PROVE  TypeInv'
<1>1. CASE rr_read
  <2>1. WorkerOK'
    BY <1>1, Lengths DEF rr_read, TypeInv, WorkerOK
  <2> QED
    BY <1>1, <2>1, Untouched DEF rr_read, TypeInv
<1>2. CASE wait_event
  <2>1. WorkerOK'
    BY <1>2 DEF wait_event, TypeInv, WorkerOK
  <2> QED
    BY <1>2, <2>1, Untouched DEF wait_event, TypeInv
<1>3. CASE ReadsHeader
  <2>1. Head(rx) \in Received /\ Tail(rx) \in Seq(Received)
    BY <1>3, FromChannel DEF ReadsHeader
  <2>2. read_avail' \in Nat
    BY <1>3, ReadTypes DEF ReadsHeader, Length
  <2>3. ChannelOK'
    BY <1>3, <2>1, <2>2 DEF ReadsHeader, TypeInv, ChannelOK
  <2>4. IF IsControl(Head(rx)) THEN Head(rx) \in {RESUME_TX} \cup Announcements
                               ELSE Head(rx) \in Packets
    BY <2>1, Messages DEF Received
  <2>5. worker' = "read" /\ packet' = Head(rx) /\ part' = IF IsControl(Head(rx)) THEN "control" ELSE "pacmark"
    BY <1>3 DEF ReadsHeader, Reads
  <2>6. WorkerOK'
    BY <1>3, <2>4, <2>5 DEF ReadsHeader, TypeInv, WorkerOK, Length
  <2> QED
    BY <1>3, <2>3, <2>6, Untouched DEF ReadsHeader, TypeInv
<1>4. CASE ReadsPacmark
  <2>1. read_avail' \in Nat
    BY <1>4, ReadTypes DEF ReadsPacmark, Length
  <2>2. ChannelOK'
    BY <1>4, <2>1 DEF ReadsPacmark, TypeInv, ChannelOK
  <2>3. WorkerOK'
    BY <1>4 DEF ReadsPacmark, Reads, TypeInv, WorkerOK, Length
  <2> QED
    BY <1>4, <2>2, <2>3, Untouched DEF ReadsPacmark, TypeInv
<1>5. CASE ResumeTx
  <2>1. ClientsOK'
    BY <1>5 DEF ResumeTx, QuotaIsBack, endpoints, TypeInv, ClientsOK
  <2>2. QuotaOK'
    <3>1. tx_quota_cntr' = 0 /\ quota_abort' = quota_abort
      BY <1>5 DEF ResumeTx, QuotaIsBack
    <3>2. 0 \in 0..Quota
      BY QuotaAssumption DEF QuotaAssumption
    <3> QED
      BY <3>1, <3>2, Zenon DEF TypeInv, QuotaOK
  <2>3. ReadsControl(RESUME_TX) /\ worker' = "read"
    BY <1>5 DEF ResumeTx, ReadsControl, Reads
  <2> QED
    BY <1>5, <2>1, <2>2, <2>3, ControlTypes, Untouched DEF ResumeTx, TypeInv
<1>6. CASE handle_server_restart
  <2>1. ClientsOK'
    BY <1>6 DEF handle_server_restart, QuotaIsBack, quota, endpoints, TypeInv, ClientsOK
  <2>2. QuotaOK'
    <3>1. CASE server_cid = Home /\ quota_abort
      <4>1. tx_quota_cntr' = 0 /\ quota_abort' = FALSE
        BY <1>6, <3>1 DEF handle_server_restart, QuotaIsBack
      <4>2. 0 \in 0..Quota
        BY QuotaAssumption DEF QuotaAssumption
      <4> QED
        BY <4>1, <4>2, Zenon DEF QuotaOK
    <3>2. CASE ~(server_cid = Home /\ quota_abort)
      BY <1>6, <3>2, Untouched DEF handle_server_restart
    <3> QED
      BY <3>1, <3>2
  <2>3. NEW_SERVER(server_cid) \in Announcements
    BY DEF Announcements, TypeInv, ClientsOK
  <2>4. ReadsControl(NEW_SERVER(server_cid)) /\ worker' = "restart"
    BY <1>6 DEF handle_server_restart
  <2>5. WorkerOK' /\ ChannelOK' /\ ModemOK'
    BY <2>3, <2>4, ControlTypes
  <2> QED
    BY <1>6, <2>1, <2>2, <2>5, Untouched DEF handle_server_restart, TypeInv
<1>7. CASE RestartsLocal
  <2>1. ClientsOK'
    BY <1>7 DEF RestartsLocal, endpoints, TypeInv, ClientsOK
  <2>2. WorkerOK'
    BY <1>7 DEF RestartsLocal, TypeInv, WorkerOK
  <2> QED
    BY <1>7, <2>1, <2>2, Untouched DEF RestartsLocal, TypeInv
<1>8. CASE ServerMoves
  <2>1. PICK cid \in Addresses :
          /\ ReadsControl(NEW_SERVER(cid))
          /\ server_cid' = cid
          /\ UNCHANGED <<local_endpoints, dst_cid, pc, xid, asleep, confirm_rx, next_xid,
                         restart_state, queues, quota, worker>>
    BY <1>8 DEF ServerMoves
  <2>2. ClientsOK'
    BY <2>1 DEF TypeInv, ClientsOK
  <2>3. NEW_SERVER(cid) \in Announcements
    BY DEF Announcements
  <2>4. worker' = "read"
    BY <2>1 DEF ReadsControl, Reads
  <2>5. WorkerOK' /\ ChannelOK' /\ ModemOK'
    BY <2>1, <2>3, <2>4, ControlTypes
  <2> QED
    BY <2>1, <2>2, <2>5, Untouched DEF TypeInv
<1>9. CASE do_read_data
  <2>1. packet \in Packets /\ worker = "read" /\ part' = "header"
    BY <1>9 DEF do_read_data, Reads, TypeInv, WorkerOK
  <2>2. read_avail' \in Nat
    BY <1>9, ReadTypes DEF do_read_data, Length
  <2>3. ChannelOK'
    BY <1>9, <2>2 DEF do_read_data, TypeInv, ChannelOK
  <2>4. WorkerOK'
    BY <1>9, <2>1 DEF do_read_data, TypeInv, WorkerOK, Length
  <2> QED
    BY <1>9, <2>3, <2>4, Untouched DEF do_read_data, TypeInv
<1>10. CASE packet_complete
  <2>1. packet \in Packets /\ part = "header"
    BY <1>10 DEF packet_complete, TypeInv, WorkerOK
  <2>2. packet.ept \in Clients /\ packet.xid \in Xids
    BY <2>1 DEF Packets
  <2>3. ClientsOK'
    BY <1>10 DEF packet_complete, endpoints, TypeInv, ClientsOK
  <2>4. QueuesOK'
    BY <1>10, <2>2, AppendProperties DEF packet_complete, TypeInv, QueuesOK
  <2>5. WorkerOK'
    BY <1>10, <2>1 DEF packet_complete, TypeInv, WorkerOK
  <2> QED
    BY <1>10, <2>3, <2>4, <2>5, Untouched DEF packet_complete, TypeInv
<1>11. CASE rpcrouter_send_control_msg
  <2>1. WorkerOK'
    BY <1>11 DEF rpcrouter_send_control_msg, TypeInv, WorkerOK
  <2>2. ModemOK'
    BY <1>11, FromChannel DEF rpcrouter_send_control_msg, TypeInv, ModemOK, remote
  <2> QED
    BY <1>11, <2>1, <2>2, Untouched DEF rpcrouter_send_control_msg, TypeInv
<1> QED
  BY <1>1, <1>2, <1>3, <1>4, <1>5, <1>6, <1>7, <1>8, <1>9, <1>10, <1>11, Zenon DEF Worker

(* The interrupt, and what comes before it.                                *)
LEMMA ChannelTypes ==
    ASSUME TypeInv, msm_rpcrouter_xprt_notify \/ Arrives
    PROVE  TypeInv'
<1>1. CASE msm_rpcrouter_xprt_notify
  <2>1. wakelock' \in BOOLEAN /\ worker' \in {worker, "wait"} /\ (worker' # worker => worker = "asleep")
    BY <1>1 DEF msm_rpcrouter_xprt_notify, Enough, TypeInv, WorkerOK
  <2>2. WorkerOK'
    BY <1>1, <2>1 DEF msm_rpcrouter_xprt_notify, TypeInv, WorkerOK
  <2>3. ChannelOK'
    BY <1>1 DEF msm_rpcrouter_xprt_notify, TypeInv, ChannelOK
  <2> QED
    BY <1>1, <2>2, <2>3, Untouched DEF msm_rpcrouter_xprt_notify, TypeInv
<1>2. CASE Arrives
  <2>1. PICK rest \in {0} \cup MayLack :
          rest < coming /\ coming' = rest /\ read_avail' = read_avail + (coming - rest)
    BY <1>2 DEF Arrives
  <2>2. rest \in Nat
    BY ChannelAssumption DEF ChannelAssumption
  <2>3. ChannelOK'
    BY <1>2, <2>1, <2>2 DEF Arrives, TypeInv, ChannelOK
  <2> QED
    BY <1>2, <2>3, Untouched DEF Arrives, TypeInv
<1> QED
  BY <1>1, <1>2

LEMMA PutTypes ==
    ASSUME TypeInv, NEW m \in Received, Puts(m)
    PROVE  ChannelOK'
BY FromChannel, Lengths DEF Puts, TypeInv, ChannelOK

(* The steps of the modem and its restart.                                 *)
LEMMA ModemTypes ==
    ASSUME TypeInv, ModemReads \/ ModemAnswers \/ ModemResets \/ Reset
    PROVE  TypeInv'
<1> USE BoundsAssumption, QuotaAssumption DEF BoundsAssumption, QuotaAssumption
<1>1. CASE ModemReads
  <2>1. modem = "up" /\ modem' = "up" /\ tx # <<>> /\ tx' = Tail(tx) /\ resets' = resets
    BY <1>1 DEF ModemReads
  <2>2. CASE IsControl(Head(tx))
    <3>1. unconfirmed' = 0 /\ UNCHANGED <<accepted, channel>>
      BY <1>1, <2>2 DEF ModemReads
    <3>2. ModemOK'
      BY <2>1, <3>1, FromChannel DEF TypeInv, ModemOK
    <3> QED
      BY <1>1, <3>1, <3>2, Untouched DEF ModemReads, TypeInv
  <2>3. CASE ~IsControl(Head(tx))
    <3>1. Head(tx) \in Packets
      BY <2>1, <2>3, FromChannel, Messages DEF Sent
    <3>2. <<Head(tx).ept, Head(tx).xid>> \in Clients \X Xids
      BY <3>1 DEF Packets
    <3>3. /\ accepted' = accepted \cup {<<Head(tx).ept, Head(tx).xid>>}
          /\ unconfirmed' = unconfirmed
          /\ Puts(RESUME_TX) \/ UNCHANGED channel
      BY <1>1, <2>3 DEF ModemReads
    <3>4. ChannelOK'
      BY <3>3, PutTypes, Untouched DEF Received
    <3>5. ModemOK'
      BY <2>1, <3>2, <3>3, FromChannel DEF TypeInv, ModemOK
    <3> QED
      BY <1>1, <3>4, <3>5, Untouched DEF ModemReads, TypeInv
  <2> QED
    BY <2>2, <2>3
<1>2. CASE ModemAnswers
  <2>1. PICK call \in accepted :
          /\ accepted' = accepted \ {call}
          /\ Puts([ept |-> call[1], xid |-> call[2], confirm |-> unconfirmed + 1 = Quota])
    BY <1>2 DEF ModemAnswers
  <2>2. [ept |-> call[1], xid |-> call[2], confirm |-> unconfirmed + 1 = Quota] \in Packets
    BY <2>1 DEF Packets, TypeInv, ModemOK
  <2>3. ChannelOK'
    BY <2>1, <2>2, PutTypes DEF Received
  <2>4. /\ modem = "up" /\ modem' = "up" /\ unconfirmed < Quota /\ unconfirmed' = unconfirmed + 1
        /\ tx' = tx /\ resets' = resets
    BY <1>2 DEF ModemAnswers
  <2>5. ModemOK'
    BY <2>1, <2>4 DEF TypeInv, ModemOK
  <2> QED
    BY <1>2, <2>3, <2>5, Untouched DEF ModemAnswers, TypeInv
<1>3. CASE ModemResets
  <2>1. ModemOK'
    BY <1>3 DEF ModemResets, TypeInv, ModemOK
  <2>2. ChannelOK'
    BY <1>3, Lengths DEF ModemResets, TypeInv, ChannelOK, WorkerOK
  <2> QED
    BY <1>3, <2>1, <2>2, Untouched DEF ModemResets, TypeInv
<1>4. CASE modem_reset_start_cleanup
  <2>1. ClientsOK'
    BY <1>4 DEF modem_reset_start_cleanup, endpoints, TypeInv, ClientsOK
  <2>2. QueuesOK'
    BY <1>4 DEF modem_reset_start_cleanup, TypeInv, QueuesOK
  <2>3. ModemOK'
    BY <1>4 DEF modem_reset_start_cleanup, TypeInv, ModemOK
  <2> QED
    BY <1>4, <2>1, <2>2, <2>3, Untouched DEF modem_reset_start_cleanup, TypeInv
<1>5. CASE AbortsQuota
  <2>1. ClientsOK'
    BY <1>5 DEF AbortsQuota, endpoints, TypeInv, ClientsOK
  <2>2. QuotaOK'
    BY <1>5 DEF AbortsQuota, TypeInv, QuotaOK
  <2>3. ModemOK'
    BY <1>5 DEF AbortsQuota, TypeInv, ModemOK
  <2> QED
    BY <1>5, <2>1, <2>2, <2>3, Untouched DEF AbortsQuota, TypeInv
<1>6. CASE ModemRestarts
  <2>1. PICK cid \in Addresses : Puts(NEW_SERVER(cid))
    BY <1>6 DEF ModemRestarts
  <2>2. ChannelOK'
    BY <2>1, PutTypes DEF Received, Announcements
  <2>3. modem' = "up" /\ tx' = <<>> /\ UNCHANGED <<accepted, unconfirmed, resets>>
    BY <1>6 DEF ModemRestarts
  <2>4. ModemOK'
    BY <2>3 DEF TypeInv, ModemOK
  <2> QED
    BY <1>6, <2>2, <2>4, Untouched DEF ModemRestarts, TypeInv
<1> QED
  BY <1>1, <1>2, <1>3, <1>4, <1>5, <1>6, Zenon DEF Reset

LEMMA TypesKept == TypeInv /\ [Next]_vars => TypeInv'
<1>1. ASSUME TypeInv, UNCHANGED vars PROVE TypeInv'
  BY <1>1, Untouched DEF vars, TypeInv
<1> QED
  BY <1>1, ClientTypes, WorkerTypes, ChannelTypes, ModemTypes, Zenon DEF Next

(* Every state has its types.                                              *)
THEOREM TypeCorrect == Spec => []TypeOK
<1> QED
  BY TypesInitially, TypesKept, TypeInvGivesTypes, PTL DEF Spec
-----------------------------------------------------------------------------
(* Who waits needs what is to be read next, and when it is there, ...      *)
ChannelAwake ==
    worker \in {"wait", "asleep"} =>
      /\ need_len = Length[part]
      /\ read_avail >= Length[part] => wakelock \/ interrupt
QueuesAwake == \A c \in Clients : read_q[c] # <<>> => c \in read_q_wake_lock

LEMMA ChannelKept == TypeInv /\ ChannelAwake /\ [Next]_vars => ChannelAwake'
<1> SUFFICES ASSUME TypeInv, ChannelAwake, [Next]_vars PROVE ChannelAwake'
  OBVIOUS
<1> DEFINE mine == <<worker, part, need_len, wakelock, read_avail, interrupt>>
<1>1. CASE UNCHANGED mine
  BY <1>1 DEF ChannelAwake
<1>2. ASSUME NEW c \in Clients,
             \/ msm_rpc_connect(c) \/ msm_rpcrouter_destroy_local_endpoint(c)
             \/ msm_rpc_clear_netreset(c) \/ msm_rpc_call_reply(c)
             \/ CallGoesOn(c) \/ Interrupted(c)
      PROVE  UNCHANGED mine
  BY <1>2, Zenon DEF msm_rpc_connect, msm_rpcrouter_destroy_local_endpoint, msm_rpc_clear_netreset,
     msm_rpc_call_reply, CallGoesOn, Interrupted, WaitsForRestart, WaitsForQuota, msm_rpc_write_pkt,
     msm_rpc_read, WaitsForReply, TakesReply, working, channel
<1>3. CASE rr_read
  <2>1. worker' = "wait" /\ need_len' = Length[part]' /\ ~(read_avail' >= Length[part]')
    <3>1. /\ worker' = "wait" /\ need_len' = Length[part] /\ read_avail < Length[part]
          /\ part' = part /\ read_avail' = read_avail
      BY <1>3 DEF rr_read, channel
    <3>2. read_avail \in Nat /\ Length[part] \in Nat
      BY Lengths DEF TypeInv, WorkerOK, ChannelOK
    <3>3. Length' = Length
      BY DEF Length
    <3> QED
      BY <3>1, <3>2, <3>3
  <2> QED
    BY <2>1 DEF ChannelAwake
<1>4. CASE wait_event
  BY <1>4 DEF wait_event, channel, ChannelAwake
<1>5. CASE \/ ReadsHeader \/ ReadsPacmark \/ ResumeTx \/ handle_server_restart \/ RestartsLocal
           \/ ServerMoves \/ do_read_data \/ packet_complete \/ rpcrouter_send_control_msg
  <2>1. worker' \notin {"wait", "asleep"}
    BY <1>5 DEF ReadsHeader, ReadsPacmark, ResumeTx, handle_server_restart, RestartsLocal, ServerMoves,
       do_read_data, packet_complete, rpcrouter_send_control_msg, ReadsControl, Reads
  <2> QED
    BY <2>1 DEF ChannelAwake
<1>6. CASE msm_rpcrouter_xprt_notify
  BY <1>6 DEF msm_rpcrouter_xprt_notify, Enough, ChannelAwake
<1>7. CASE Arrives
  BY <1>7 DEF Arrives, working, ChannelAwake
<1>8. CASE ModemReads \/ ModemAnswers \/ ModemRestarts
  BY <1>1, <1>8 DEF ModemReads, ModemAnswers, ModemRestarts, Puts, working, channel
<1>9. CASE ModemResets
  <2>1. /\ read_avail >= Rest /\ read_avail' = Rest
        /\ UNCHANGED <<worker, part, need_len, wakelock, interrupt>>
    BY <1>9 DEF ModemResets, working
  <2>2. CASE part = "header"
    <3>1. read_avail' = 0 /\ Length[part] \in Nat \ {0}
      BY <2>1, <2>2, Lengths DEF TypeInv, WorkerOK
    <3>2. Length' = Length
      BY DEF Length
    <3> QED
      BY <2>1, <3>1, <3>2 DEF ChannelAwake
  <2>3. CASE part # "header"
    <3>1. Rest \in Nat /\ Rest >= Length[part] /\ Length[part] \in Nat
      BY <2>3, Lengths DEF TypeInv, WorkerOK
    <3>2. read_avail >= Length[part]
      BY <2>1, <3>1 DEF TypeInv, ChannelOK
    <3>3. Length' = Length
      BY DEF Length
    <3> QED
      BY <2>1, <3>2, <3>3 DEF ChannelAwake
  <2> QED
    BY <2>2, <2>3
<1>10. CASE modem_reset_start_cleanup \/ AbortsQuota
  BY <1>1, <1>10 DEF modem_reset_start_cleanup, AbortsQuota, working, channel
<1>11. CASE UNCHANGED vars
  BY <1>1, <1>11 DEF vars, working, channel
<1> QED
  BY <1>1, <1>2, <1>3, <1>4, <1>5, <1>6, <1>7, <1>8, <1>9, <1>10, <1>11, Zenon DEF Next, Worker, Reset

LEMMA QueuesKept == TypeInv /\ QueuesAwake /\ [Next]_vars => QueuesAwake'
<1> SUFFICES ASSUME TypeInv, QueuesAwake, [Next]_vars PROVE QueuesAwake'
  OBVIOUS
<1>1. CASE UNCHANGED queues
  BY <1>1 DEF queues, QueuesAwake
<1>2. ASSUME NEW c \in Clients, msm_rpcrouter_destroy_local_endpoint(c) PROVE QueuesAwake'
  BY <1>2 DEF msm_rpcrouter_destroy_local_endpoint, QueuesAwake, TypeInv, QueuesOK
<1>3. ASSUME NEW c \in Clients, TakesReply(c) PROVE QueuesAwake'
  <2>1. CASE read_q[c] = <<>>
    BY <1>1, <1>3, <2>1 DEF TakesReply
  <2>2. CASE read_q[c] # <<>>
    <3>1. /\ read_q' = [read_q EXCEPT ![c] = Tail(@)]
          /\ wake_unlock(c)
      BY <1>3, <2>2 DEF TakesReply
    <3>2. \A d \in Clients \ {c} : read_q'[d] = read_q[d]
      BY <3>1 DEF TypeInv, QueuesOK
    <3>3. read_q'[c] = Tail(read_q[c])
      BY <3>1 DEF TypeInv, QueuesOK
    <3>4. c \in read_q_wake_lock
      BY <2>2 DEF QueuesAwake
    <3> QED
      BY <3>1, <3>2, <3>3, <3>4 DEF wake_unlock, QueuesAwake
  <2> QED
    BY <2>1, <2>2
<1>4. CASE packet_complete
  BY <1>4 DEF packet_complete, QueuesAwake, TypeInv, QueuesOK
<1>5. CASE modem_reset_start_cleanup
  BY <1>5 DEF modem_reset_start_cleanup, QueuesAwake
<1>6. ASSUME NEW c \in Clients,
             \/ msm_rpc_connect(c) \/ msm_rpc_clear_netreset(c) \/ msm_rpc_call_reply(c)
             \/ WaitsForRestart(c) \/ WaitsForQuota(c) \/ msm_rpc_write_pkt(c)
             \/ msm_rpc_read(c) \/ WaitsForReply(c) \/ Interrupted(c)
      PROVE  UNCHANGED queues
  BY <1>6, Zenon DEF msm_rpc_connect, msm_rpc_clear_netreset, msm_rpc_call_reply, WaitsForRestart,
     WaitsForQuota, msm_rpc_write_pkt, msm_rpc_read, WaitsForReply, Interrupted
<1>7. CASE \/ rr_read \/ wait_event \/ ReadsHeader \/ ReadsPacmark \/ ResumeTx
           \/ handle_server_restart \/ RestartsLocal \/ ServerMoves \/ do_read_data
           \/ rpcrouter_send_control_msg \/ msm_rpcrouter_xprt_notify \/ Arrives \/ ModemReads \/ ModemAnswers \/ ModemResets
           \/ AbortsQuota \/ ModemRestarts \/ UNCHANGED vars
  <2>1. UNCHANGED queues
    BY <1>7, Zenon DEF rr_read, wait_event, ReadsHeader, ReadsPacmark, ResumeTx, handle_server_restart,
       RestartsLocal, ServerMoves, do_read_data, rpcrouter_send_control_msg, msm_rpcrouter_xprt_notify,
       Arrives, ModemReads, ModemAnswers, ModemResets, AbortsQuota, ModemRestarts, vars
  <2> QED
    BY <1>1, <2>1
<1> QED
  BY <1>1, <1>2, <1>3, <1>4, <1>5, <1>6, <1>7, Zenon DEF Next, Worker, Reset, CallGoesOn

(* ... the wake lock of the channel is held, or an interrupt is to come:   *)
(* the worker's wait (need_len, the interrupt's guard) and the queues of   *)
(* the endpoints keep the system awake, whatever the lengths of the parts  *)
(* of a message and the pieces in which it arrives.                        *)
THEOREM NoPacketSleptOver == Spec => []AwakeForPacket
<1>1. Init => ChannelAwake /\ QueuesAwake
  BY DEF Init, ChannelAwake, QueuesAwake
<1>2. ChannelAwake /\ QueuesAwake => AwakeForPacket
  BY DEF ChannelAwake, QueuesAwake, AwakeForPacket
<1> QED
  BY <1>1, <1>2, TypesInitially, TypesKept, ChannelKept, QueuesKept, PTL DEF Spec
-----------------------------------------------------------------------------
(* Who has used up the quota and is about to say so; where it is said.     *)
Asking == {c \in Clients : pc[c] = "write" /\ confirm_rx[c] /\ restart_state[c] = {}}
AskingPackets == {p \in Packets : p.confirm}
AskedInTx == \E i \in DOMAIN tx : tx[i] \in AskingPackets
ResumeInRx == \E i \in DOMAIN rx : rx[i] \in {RESUME_TX}
ResumeComes == ResumeInRx \/ packet = RESUME_TX

QuotaInv ==
    /\ modem = "down" => quota_abort
    /\ modem = "up" => \A c \in Clients : pc[c] = "quota" => restart_state[c] = {}
    /\ modem = "up" /\ ~quota_abort /\ tx_quota_cntr = Quota =>
         Asking # {} \/ AskedInTx \/ ResumeComes

(* While the modem is down, nothing is to be read, and no announcement of  *)
(* the server is half read.                                                *)
Announced == modem # "up" => rx = <<>> /\ packet \notin Announcements

LEMMA AnnouncedKept == TypeInv /\ Announced /\ [Next]_vars => Announced'
<1> SUFFICES ASSUME TypeInv, Announced, [Next]_vars PROVE Announced'
  OBVIOUS
<1>1. CASE UNCHANGED <<modem, rx, packet>>
  BY <1>1 DEF Announced, Announcements, NEW_SERVER
<1>2. ASSUME NEW c \in Clients,
             \/ msm_rpc_connect(c) \/ msm_rpcrouter_destroy_local_endpoint(c)
             \/ msm_rpc_clear_netreset(c) \/ msm_rpc_call_reply(c)
             \/ CallGoesOn(c) \/ Interrupted(c)
      PROVE  UNCHANGED <<modem, rx, packet>>
  BY <1>2, Zenon DEF msm_rpc_connect, msm_rpcrouter_destroy_local_endpoint, msm_rpc_clear_netreset,
     msm_rpc_call_reply, CallGoesOn, Interrupted, WaitsForRestart, WaitsForQuota, msm_rpc_write_pkt,
     msm_rpc_read, WaitsForReply, TakesReply, working, channel, remote
<1>3. CASE \/ rr_read \/ wait_event \/ ReadsPacmark \/ RestartsLocal \/ msm_rpcrouter_xprt_notify
           \/ Arrives \/ UNCHANGED vars
  <2>1. UNCHANGED <<modem, rx, packet>>
    BY <1>3, Zenon DEF rr_read, wait_event, ReadsPacmark, RestartsLocal, msm_rpcrouter_xprt_notify,
       Arrives, vars, working, channel, remote
  <2> QED
    BY <1>1, <2>1
<1>4. CASE ReadsHeader \/ ModemReads \/ ModemAnswers
  <2>1. modem' = "up"
    BY <1>4 DEF ReadsHeader, ModemReads, ModemAnswers, Announced, remote, TypeInv, ModemOK
  <2> QED
    BY <2>1 DEF Announced
<1>5. CASE \/ ResumeTx \/ handle_server_restart \/ ServerMoves \/ do_read_data \/ packet_complete
           \/ rpcrouter_send_control_msg
  <2>1. packet' \in {packet, <<>>} /\ UNCHANGED <<modem, rx>>
    BY <1>5 DEF ResumeTx, handle_server_restart, ServerMoves, do_read_data, packet_complete,
       rpcrouter_send_control_msg, ReadsControl, channel, remote
  <2>2. <<>> \notin Announcements /\ Announcements' = Announcements
    BY Messages DEF Announcements, NEW_SERVER
  <2> QED
    BY <2>1, <2>2 DEF Announced
<1>6. CASE ModemResets
  <2>1. rx' = <<>> /\ packet \notin Announcements /\ packet' = packet
    BY <1>6 DEF ModemResets, working
  <2> QED
    BY <2>1 DEF Announced, Announcements, NEW_SERVER
<1>7. CASE modem_reset_start_cleanup \/ AbortsQuota
  <2>1. UNCHANGED <<rx, packet>> /\ modem # "up"
    BY <1>7 DEF modem_reset_start_cleanup, AbortsQuota, working, channel
  <2> QED
    BY <2>1 DEF Announced, Announcements, NEW_SERVER
<1>8. CASE ModemRestarts
  BY <1>8 DEF ModemRestarts, Announced
<1> QED
  BY <1>2, <1>1, <1>3, <1>4, <1>5, <1>6, <1>7, <1>8, Zenon DEF Next, Worker, Reset

(* A message stays in a queue while others come ...                        *)
LEMMA StaysBeforeOthers ==
    ASSUME NEW S, NEW q \in Seq(S), NEW m \in S, NEW M, \E i \in DOMAIN q : q[i] \in M
    PROVE  \E i \in DOMAIN Append(q, m) : Append(q, m)[i] \in M
<1>1. PICK i \in DOMAIN q : q[i] \in M
  OBVIOUS
<1>2. DOMAIN q = 1..Len(q) /\ Len(q) \in Nat /\ DOMAIN Append(q, m) = 1..(Len(q) + 1)
  BY AppendProperties, LenProperties
<1>3. i \in DOMAIN Append(q, m) /\ Append(q, m)[i] = q[i]
  BY <1>1, <1>2, AppendProperties
<1> QED
  BY <1>1, <1>3

(* ... and until it is read.                                               *)
LEMMA StaysUntilRead ==
    ASSUME NEW S, NEW q \in Seq(S), q # <<>>, NEW M, Head(q) \notin M,
           \E i \in DOMAIN q : q[i] \in M
    PROVE  \E i \in DOMAIN Tail(q) : Tail(q)[i] \in M
<1>1. PICK i \in DOMAIN q : q[i] \in M
  OBVIOUS
<1>2. DOMAIN q = 1..Len(q) /\ Len(q) \in Nat \ {0} /\ DOMAIN Tail(q) = 1..(Len(q) - 1)
  BY HeadTailProperties, LenProperties, EmptySeq
<1>3. i # 1
  BY <1>1, <1>2
<1>4. i - 1 \in DOMAIN Tail(q) /\ Tail(q)[i - 1] = q[i]
  BY <1>1, <1>2, <1>3, HeadTailProperties
<1> QED
  BY <1>1, <1>4

(* The two for the channel.                                                *)
LEMMA ChannelGrows ==
    ASSUME ModemOK, ChannelOK, NEW m
    PROVE  /\ m \in Sent /\ tx' = Append(tx, m) => (AskedInTx => AskedInTx')
           /\ m \in Received /\ rx' = Append(rx, m) =>
                (ResumeInRx => ResumeInRx')
<1>1. ASSUME m \in Sent, tx' = Append(tx, m), AskedInTx PROVE AskedInTx'
  <2> DEFINE S == Sent
  <2>1. tx \in Seq(S) /\ m \in S
    BY <1>1 DEF ModemOK
  <2> HIDE DEF S
  <2> QED
    BY <1>1, <2>1, StaysBeforeOthers DEF AskedInTx
<1>2. ASSUME m \in Received, rx' = Append(rx, m), ResumeInRx
      PROVE  ResumeInRx'
  <2> DEFINE S == Received
  <2>1. rx \in Seq(S) /\ m \in S
    BY <1>2 DEF ChannelOK
  <2> HIDE DEF S
  <2>2. \E i \in DOMAIN Append(rx, m) : Append(rx, m)[i] \in {RESUME_TX}
    <3> DEFINE M == {RESUME_TX}
    <3>1. \E i \in DOMAIN rx : rx[i] \in M
      BY <1>2 DEF ResumeInRx
    <3> HIDE DEF M
    <3>2. \E i \in DOMAIN Append(rx, m) : Append(rx, m)[i] \in M
      BY <2>1, <3>1, StaysBeforeOthers
    <3> QED
      BY <3>2 DEF M
  <2> QED
    BY <1>2, <2>2 DEF ResumeInRx
<1> QED
  BY <1>1, <1>2

LEMMA ChannelRead ==
    ASSUME ModemOK, ChannelOK
    PROVE  /\ tx # <<>> /\ tx' = Tail(tx) /\ Head(tx) \notin AskingPackets => (AskedInTx => AskedInTx')
           /\ rx # <<>> /\ rx' = Tail(rx) /\ Head(rx) # RESUME_TX => (ResumeInRx => ResumeInRx')
<1>1. ASSUME tx # <<>>, tx' = Tail(tx), Head(tx) \notin AskingPackets, AskedInTx PROVE AskedInTx'
  <2> DEFINE S == Sent
  <2>1. tx \in Seq(S)
    BY DEF ModemOK
  <2> HIDE DEF S
  <2> QED
    BY <1>1, <2>1, StaysUntilRead DEF AskedInTx
<1>2. ASSUME rx # <<>>, rx' = Tail(rx), Head(rx) # RESUME_TX, ResumeInRx PROVE ResumeInRx'
  <2> DEFINE S == Received
             M == {RESUME_TX}
  <2>1. rx \in Seq(S)
    BY DEF ChannelOK
  <2>2. Head(rx) \notin M /\ \E i \in DOMAIN rx : rx[i] \in M
    BY <1>2 DEF ResumeInRx
  <2> HIDE DEF S, M
  <2>3. \E i \in DOMAIN Tail(rx) : Tail(rx)[i] \in M
    BY <1>2, <2>1, <2>2, StaysUntilRead
  <2> QED
    BY <1>2, <2>3 DEF ResumeInRx, M
<1> QED
  BY <1>1, <1>2

(* What a step does not touch: enough for the steps in which nobody asks,  *)
(* answers or takes quota.                                                 *)
LEMMA QuotaUntouched ==
    ASSUME TypeInv, QuotaInv, TypeInv', UNCHANGED <<modem, tx>>,
           quota_abort' = quota_abort, tx_quota_cntr' \in {tx_quota_cntr, 0},
           UNCHANGED <<rx, packet>> \/ (ResumeComes => ResumeComes') \/ tx_quota_cntr' = 0,
           \A c \in Clients : /\ restart_state'[c] \subseteq restart_state[c]
                              /\ c \in Asking => pc'[c] = "write" /\ confirm_rx'[c]
                              /\ pc'[c] = "quota" => pc[c] = "quota" \/ restart_state[c] = {}
    PROVE  QuotaInv'
<1>1. Quota # 0
  BY QuotaAssumption DEF QuotaAssumption
<1>2. Asking \subseteq Asking'
  BY DEF Asking
<1>3. AskedInTx' = AskedInTx
  BY DEF AskedInTx
<1>4. UNCHANGED <<rx, packet>> => ResumeComes' = ResumeComes
  BY DEF ResumeComes, ResumeInRx
<1>5. modem' = "down" => quota_abort'
  BY DEF QuotaInv
<1>6. modem' = "up" => \A c \in Clients : pc'[c] = "quota" => restart_state'[c] = {}
  BY DEF QuotaInv
<1>7. modem' = "up" /\ ~quota_abort' /\ tx_quota_cntr' = Quota =>
         Asking' # {} \/ AskedInTx' \/ ResumeComes'
  BY <1>1, <1>2, <1>3, <1>4 DEF QuotaInv
<1> QED
  BY <1>5, <1>6, <1>7 DEF QuotaInv

LEMMA QuotaClients ==
    ASSUME TypeInv, QuotaInv, TypeInv', NEW c \in Clients,
           \/ msm_rpc_connect(c) \/ msm_rpcrouter_destroy_local_endpoint(c)
           \/ msm_rpc_clear_netreset(c) \/ msm_rpc_call_reply(c)
           \/ CallGoesOn(c) \/ Interrupted(c)
    PROVE  QuotaInv'
<1> USE DEF TypeInv, ClientsOK
<1>1. CASE \/ msm_rpc_connect(c) \/ msm_rpcrouter_destroy_local_endpoint(c)
           \/ msm_rpc_clear_netreset(c)
  <2>1. /\ UNCHANGED <<modem, tx, rx, packet, pc, confirm_rx, quota>>
        /\ \A d \in Clients : restart_state'[d] \subseteq restart_state[d]
    BY <1>1 DEF msm_rpc_connect, msm_rpcrouter_destroy_local_endpoint, msm_rpc_clear_netreset, Told,
       clients, working, channel, remote
  <2> QED
    BY <2>1, QuotaUntouched DEF Asking, quota
<1>2. CASE msm_rpc_call_reply(c)
  <2>1. /\ UNCHANGED <<modem, tx, rx, packet, confirm_rx, restart_state, quota>>
        /\ pc[c] = "idle" /\ (pc' = [pc EXCEPT ![c] = "restart"] \/ pc' = pc)
    BY <1>2 DEF msm_rpc_call_reply, Goto, working, channel, remote
  <2> QED
    BY <2>1, QuotaUntouched DEF Asking, quota
<1>3. CASE WaitsForRestart(c)
  <2>1. /\ UNCHANGED <<modem, tx, rx, packet, confirm_rx, restart_state, quota>>
        /\ \/ pc' = pc
           \/ pc[c] = "restart" /\ pc' = [pc EXCEPT ![c] = "quota"] /\ restart_state[c] = {}
    BY <1>3 DEF WaitsForRestart, Goto, working, channel, remote
  <2> QED
    BY <2>1, QuotaUntouched DEF Asking, quota
<1>4. ASSUME \/ Interrupted(c) \/ msm_rpc_read(c) \/ WaitsForReply(c) \/ TakesReply(c)
             \/ WaitsForQuota(c) /\ (quota_abort \/ tx_quota_cntr >= Quota)
             \/ msm_rpc_write_pkt(c) /\ restart_state[c] # {}
      PROVE  QuotaInv'
  <2>1. /\ UNCHANGED <<modem, tx, rx, packet, quota>>
        /\ restart_state' = restart_state \/ Told(c)
        /\ pc' = pc \/ \E place \in {"idle", "read", "take", "begin"} : Goto(c, place)
        /\ confirm_rx' = confirm_rx \/ confirm_rx' = [confirm_rx EXCEPT ![c] = FALSE]
        /\ c \notin Asking
    BY <1>4 DEF Interrupted, msm_rpc_read, WaitsForReply, TakesReply, WaitsForQuota,
       msm_rpc_write_pkt, Returns, Goto, working, channel, remote, Asking
  <2>2. \A d \in Clients : restart_state'[d] \subseteq restart_state[d]
    BY <2>1 DEF Told
  <2>3. \A d \in Clients : pc'[d] = pc[d] \/ (d = c /\ pc'[d] \in {"idle", "read", "take", "begin"})
    BY <2>1 DEF Goto
  <2>4. \A d \in Clients \ {c} : confirm_rx'[d] = confirm_rx[d]
    BY <2>1
  <2>5. \A d \in Asking : pc'[d] = "write" /\ confirm_rx'[d]
    BY <2>1, <2>3, <2>4 DEF Asking
  <2> QED
    BY <2>1, <2>2, <2>3, <2>5, QuotaUntouched DEF quota
<1>5. CASE WaitsForQuota(c) /\ ~quota_abort /\ tx_quota_cntr < Quota
  <2>1. /\ pc[c] = "quota" /\ pc' = [pc EXCEPT ![c] = "write"]
        /\ tx_quota_cntr' = tx_quota_cntr + 1 /\ quota_abort' = quota_abort
        /\ confirm_rx' = [confirm_rx EXCEPT ![c] = (tx_quota_cntr + 1 = Quota)]
        /\ UNCHANGED <<modem, tx, rx, packet, restart_state>>
    <3>1. ~(tx_quota_cntr >= Quota)
      BY <1>5, QuotaAssumption DEF QuotaAssumption, QuotaOK
    <3>2. /\ tx_quota_cntr' = tx_quota_cntr + 1
          /\ confirm_rx' = [confirm_rx EXCEPT ![c] = AsksConfirm]
          /\ Goto(c, "write")
          /\ UNCHANGED <<restart_state, quota_abort>>
      BY <1>5, <3>1, Zenon DEF WaitsForQuota
    <3>3. pc[c] = "quota" /\ UNCHANGED <<modem, tx, rx, packet>>
      BY <1>5 DEF WaitsForQuota, working, channel, remote
    <3> QED
      BY <3>2, <3>3, Zenon DEF Goto, AsksConfirm
  <2>2. modem' = "down" => quota_abort'
    BY <2>1 DEF QuotaInv
  <2>3. modem' = "up" => \A d \in Clients : pc'[d] = "quota" => restart_state'[d] = {}
    BY <2>1 DEF QuotaInv
  <2>4. modem' = "up" /\ tx_quota_cntr' = Quota => c \in Asking'
    BY <2>1 DEF QuotaInv, Asking
  <2> QED
    BY <2>2, <2>3, <2>4 DEF QuotaInv
<1>6. CASE msm_rpc_write_pkt(c) /\ restart_state[c] = {}
  <2> DEFINE p == [ept |-> c, xid |-> xid[c], confirm |-> confirm_rx[c]]
  <2>1. /\ pc[c] = "write" /\ pc' = [pc EXCEPT ![c] = "begin"]
        /\ tx' = Append(tx, p)
        /\ confirm_rx' = [confirm_rx EXCEPT ![c] = FALSE]
        /\ UNCHANGED <<modem, rx, packet, restart_state, quota>>
    BY <1>6 DEF msm_rpc_write_pkt, Goto, working, channel, remote
  <2>2. p \in Packets /\ p.confirm = confirm_rx[c]
    BY <2>1 DEF Packets
  <2> HIDE DEF p
  <2>3. tx \in Seq(Sent)
    BY DEF ModemOK
  <2>4. AskedInTx => AskedInTx'
    BY <2>1, <2>2, ChannelGrows DEF Sent
  <2>5. c \in Asking => AskedInTx'
    <3> SUFFICES ASSUME c \in Asking PROVE AskedInTx'
      OBVIOUS
    <3>1. p \in AskingPackets
      BY <2>2 DEF Asking, AskingPackets
    <3>2. Len(tx) + 1 \in DOMAIN tx' /\ tx'[Len(tx) + 1] = p
      BY <2>1, <2>2, <2>3, AppendProperties, LenProperties
    <3> QED
      BY <3>1, <3>2 DEF AskedInTx
  <2>6. \A d \in Asking \ {c} : d \in Asking'
    BY <2>1 DEF Asking
  <2>7. ResumeComes' = ResumeComes /\ quota_abort' = quota_abort /\ tx_quota_cntr' = tx_quota_cntr
    BY <2>1 DEF ResumeComes, ResumeInRx, quota
  <2>8. modem' = "up" => \A d \in Clients : pc'[d] = "quota" => restart_state'[d] = {}
    BY <2>1 DEF QuotaInv
  <2>9. Asking # {} => Asking' # {} \/ AskedInTx'
    BY <2>5, <2>6
  <2>10. modem' = modem
    BY <2>1
  <2>11. modem' = "down" => quota_abort'
    BY <2>7, <2>10 DEF QuotaInv
  <2>12. modem' = "up" /\ ~quota_abort' /\ tx_quota_cntr' = Quota =>
           Asking' # {} \/ AskedInTx' \/ ResumeComes'
    BY <2>4, <2>7, <2>9, <2>10 DEF QuotaInv
  <2> QED
    BY <2>8, <2>11, <2>12, Zenon DEF QuotaInv
<1> QED
  <2>1. tx_quota_cntr < Quota \/ tx_quota_cntr >= Quota
    BY QuotaAssumption DEF QuotaAssumption, QuotaOK
  <2> QED
    BY <1>1, <1>2, <1>3, <1>4, <1>5, <1>6, <2>1, Zenon DEF CallGoesOn

LEMMA QuotaWorker ==
    ASSUME TypeInv, QuotaInv, Announced, TypeInv', Worker \/ msm_rpcrouter_xprt_notify \/ Arrives
    PROVE  QuotaInv'
<1> USE DEF TypeInv, ClientsOK
<1>1. ASSUME UNCHANGED <<modem, tx, pc, confirm_rx, restart_state, quota>>,
             UNCHANGED <<rx, packet>> \/ (ResumeComes => ResumeComes')
      PROVE  QuotaInv'
  BY <1>1, QuotaUntouched DEF Asking, quota
<1>2. CASE rr_read \/ wait_event \/ ReadsPacmark \/ msm_rpcrouter_xprt_notify \/ Arrives
  <2>1. UNCHANGED <<modem, tx, pc, confirm_rx, restart_state, quota>> /\ UNCHANGED <<rx, packet>>
    BY <1>2, Zenon DEF rr_read, wait_event, ReadsPacmark, msm_rpcrouter_xprt_notify, Arrives, clients,
       working, channel, remote
  <2> QED
    BY <1>1, <2>1
<1>3. CASE ReadsHeader
  <2>1. /\ UNCHANGED <<modem, tx, pc, confirm_rx, restart_state, quota>>
        /\ rx # <<>> /\ rx' = Tail(rx) /\ packet' = Head(rx)
        /\ worker = "read" /\ part = "header"
    BY <1>3 DEF ReadsHeader, Reads, clients, remote
  <2>2. packet # RESUME_TX
    BY <2>1, Messages DEF WorkerOK
  <2>3. CASE Head(rx) = RESUME_TX
    <3>1. ResumeComes'
      BY <2>1, <2>3 DEF ResumeComes, RESUME_TX
    <3> QED
      BY <1>1, <2>1, <3>1
  <2>4. CASE Head(rx) # RESUME_TX
    <3>1. ResumeInRx => ResumeInRx'
      BY <2>1, <2>4, ChannelRead
    <3> QED
      BY <1>1, <2>1, <2>2, <3>1 DEF ResumeComes
  <2> QED
    BY <2>3, <2>4
<1>4. CASE ResumeTx
  <2>1. /\ UNCHANGED <<modem, tx, pc, confirm_rx, restart_state, quota_abort>>
        /\ tx_quota_cntr' = 0
    BY <1>4 DEF ResumeTx, QuotaIsBack, ReadsControl, remote
  <2> QED
    BY <2>1, QuotaUntouched DEF Asking
<1>5. ASSUME NEW m \in Announcements, packet = m, UNCHANGED rx PROVE ResumeComes => ResumeComes'
  <2>1. packet # RESUME_TX /\ ResumeInRx' = ResumeInRx
    BY <1>5, Messages DEF ResumeInRx
  <2> QED
    BY <2>1 DEF ResumeComes
<1>6. CASE handle_server_restart
  <2>1. /\ UNCHANGED <<modem, tx, rx, pc, confirm_rx, restart_state>>
        /\ packet = NEW_SERVER(server_cid) /\ NEW_SERVER(server_cid) \in Announcements
    BY <1>6 DEF handle_server_restart, ReadsControl, remote, Announcements
  <2>2. modem = "up"
    BY <2>1 DEF Announced
  <2>3. (quota_abort /\ tx_quota_cntr' = 0) \/ UNCHANGED quota
    BY <1>6 DEF handle_server_restart, QuotaIsBack
  <2>4. CASE quota_abort /\ tx_quota_cntr' = 0
    BY <2>1, <2>2, <2>4, QuotaAssumption DEF QuotaInv, QuotaAssumption
  <2>5. CASE UNCHANGED quota
    BY <1>1, <1>5, <2>1, <2>5
  <2> QED
    BY <2>3, <2>4, <2>5
<1>7. CASE ServerMoves
  <2>1. PICK cid \in Addresses : ReadsControl(NEW_SERVER(cid))
    BY <1>7 DEF ServerMoves
  <2>2. UNCHANGED <<modem, tx, rx, pc, confirm_rx, restart_state, quota>>
    BY <1>7 DEF ServerMoves, ReadsControl, remote
  <2>3. packet = NEW_SERVER(cid) /\ NEW_SERVER(cid) \in Announcements
    BY <2>1 DEF ReadsControl, Announcements
  <2> QED
    BY <1>1, <1>5, <2>2, <2>3
<1>8. CASE RestartsLocal
  <2>1. /\ UNCHANGED <<modem, tx, rx, packet, pc, confirm_rx, quota>>
        /\ \A c \in Clients : restart_state'[c] \subseteq restart_state[c]
    BY <1>8 DEF RestartsLocal, channel, remote
  <2> QED
    BY <2>1, QuotaUntouched DEF Asking, quota
<1>9. ASSUME packet \in Packets, UNCHANGED rx PROVE ResumeComes => ResumeComes'
  <2>1. packet # RESUME_TX /\ ResumeInRx' = ResumeInRx
    BY <1>9, Messages DEF ResumeInRx
  <2> QED
    BY <2>1 DEF ResumeComes
<1>10. CASE do_read_data \/ packet_complete
  <2>1. UNCHANGED <<modem, tx, rx, pc, confirm_rx, restart_state, quota>>
    BY <1>10 DEF do_read_data, packet_complete, clients, channel, remote
  <2>2. packet \in Packets
    BY <1>10 DEF do_read_data, packet_complete, Reads, WorkerOK
  <2> QED
    BY <1>1, <1>9, <2>1, <2>2
<1>11. CASE rpcrouter_send_control_msg
  <2>1. /\ UNCHANGED <<modem, rx, pc, confirm_rx, restart_state, quota>>
        /\ tx' = Append(tx, RESUME_TX)
    BY <1>11 DEF rpcrouter_send_control_msg, clients, channel, remote
  <2>2. AskedInTx => AskedInTx'
    BY <2>1, ChannelGrows DEF Sent
  <2>3. packet \in Packets
    BY <1>11 DEF rpcrouter_send_control_msg, WorkerOK
  <2>4. (ResumeComes => ResumeComes') /\ Asking' = Asking
    BY <1>9, <2>1, <2>3 DEF Asking
  <2> QED
    BY <2>1, <2>2, <2>4 DEF QuotaInv, quota
<1> QED
  BY <1>2, <1>3, <1>4, <1>6, <1>7, <1>8, <1>10, <1>11, Zenon DEF Worker

LEMMA QuotaModem ==
    ASSUME TypeInv, QuotaInv, TypeInv', SlowWriters = {},
           ModemReads \/ ModemAnswers \/ ModemResets \/ Reset
    PROVE  QuotaInv'
<1> USE DEF TypeInv, ClientsOK
<1>1. ASSUME NEW m \in Received, Puts(m), UNCHANGED packet PROVE ResumeComes => ResumeComes'
  <2>1. rx' = Append(rx, m)
    BY <1>1 DEF Puts
  <2>2. ResumeInRx => ResumeInRx'
    BY <2>1, ChannelGrows
  <2> QED
    BY <1>1, <2>2 DEF ResumeComes, RESUME_TX
<1>2. CASE ModemReads
  <2>1. /\ UNCHANGED <<modem, packet, pc, confirm_rx, restart_state, quota>>
        /\ tx # <<>> /\ tx' = Tail(tx)
    BY <1>2 DEF ModemReads, clients, working
  <2>2. tx \in Seq(Sent) /\ rx \in Seq(Received) /\ RESUME_TX \in Received
    BY DEF ModemOK, ChannelOK, Received
  <2>3. Asking' = Asking
    BY <2>1 DEF Asking
  <2>4. CASE Head(tx) \in AskingPackets
    <3>1. Puts(RESUME_TX)
      BY <1>2, <2>4, Messages DEF ModemReads, AskingPackets
    <3>2. rx' = Append(rx, RESUME_TX)
      BY <3>1 DEF Puts
    <3>3. Len(rx) + 1 \in DOMAIN rx' /\ rx'[Len(rx) + 1] = RESUME_TX
      BY <2>2, <3>2, AppendProperties, LenProperties
    <3>4. ResumeComes'
      BY <3>3 DEF ResumeComes, ResumeInRx, RESUME_TX
    <3> QED
      BY <2>1, <3>4 DEF QuotaInv, quota
  <2>5. CASE Head(tx) \notin AskingPackets
    <3>1. AskedInTx => AskedInTx'
      BY <2>1, <2>5, ChannelRead
    <3>2. UNCHANGED channel \/ Puts(RESUME_TX)
      BY <1>2 DEF ModemReads
    <3>3. UNCHANGED channel => (ResumeComes => ResumeComes')
      BY <2>1 DEF ResumeComes, ResumeInRx, channel, RESUME_TX
    <3>4. ResumeComes => ResumeComes'
      BY <1>1, <2>1, <2>2, <3>2, <3>3
    <3> QED
      BY <2>1, <2>3, <3>1, <3>4 DEF QuotaInv, quota
  <2> QED
    BY <2>4, <2>5
<1>3. CASE ModemAnswers
  <2>1. /\ UNCHANGED <<modem, tx, packet, pc, confirm_rx, restart_state, quota>>
        /\ \E call \in accepted :
             Puts([ept |-> call[1], xid |-> call[2], confirm |-> unconfirmed + 1 = Quota])
    BY <1>3 DEF ModemAnswers, clients, working
  <2>2. \E p \in Received : Puts(p)
    BY <2>1 DEF ModemOK, Packets, Received
  <2>3. ResumeComes => ResumeComes'
    BY <1>1, <2>1, <2>2
  <2> QED
    BY <2>1, <2>3, QuotaUntouched DEF Asking, quota
<1>4. CASE ModemResets \/ modem_reset_start_cleanup
  BY <1>4 DEF ModemResets, modem_reset_start_cleanup, QuotaInv
<1>5. CASE AbortsQuota
  BY <1>5 DEF AbortsQuota, QuotaInv
<1>6. CASE ModemRestarts
  <2>1. /\ modem = "down" /\ modem' = "up" /\ quota_abort' = quota_abort
        /\ \A c \in Clients : pc'[c] # "quota"
    BY <1>6 DEF ModemRestarts, Waking, clients, quota
  <2> QED
    BY <2>1 DEF QuotaInv
<1> QED
  BY <1>2, <1>3, <1>4, <1>5, <1>6, Zenon DEF Reset

(* The quota comes back as long as the modem runs, whoever gives up, is    *)
(* interrupted or times out: provided that whoever waits for quota when    *)
(* the modem goes down wakes up before it is back.                         *)
THEOREM QuotaComesBack == ASSUME SlowWriters = {} PROVE Spec => []QuotaConfirmed
<1>1. Init => QuotaInv /\ Announced
  BY QuotaAssumption DEF Init, QuotaInv, Announced, QuotaAssumption
<1>2. TypeInv /\ QuotaInv /\ Announced /\ [Next]_vars => QuotaInv'
  <2> SUFFICES ASSUME TypeInv, QuotaInv, Announced, [Next]_vars PROVE QuotaInv'
    OBVIOUS
  <2>1. TypeInv'
    BY TypesKept
  <2>2. CASE UNCHANGED vars
    <3>1. /\ UNCHANGED <<modem, tx, rx, packet, pc, confirm_rx, restart_state>>
          /\ UNCHANGED <<quota_abort, tx_quota_cntr>>
      BY <2>2 DEF vars, clients, quota, working, channel, remote
    <3> QED
      BY <2>1, <3>1, QuotaUntouched DEF Asking
  <2> QED
    BY <2>1, <2>2, QuotaClients, QuotaWorker, QuotaModem, Zenon DEF Next
<1>3. TypeInv /\ QuotaInv => QuotaConfirmed
  <2>1. \A p \in AskingPackets : ~IsControl(p) /\ p.confirm
    BY Messages DEF AskingPackets
  <2> QED
    BY <2>1 DEF QuotaInv, QuotaConfirmed, Asking, AskedInTx, ResumeComes, ResumeInRx
<1> QED
  BY <1>1, <1>2, <1>3, AnnouncedKept, TypesInitially, TypesKept, PTL DEF Spec
=============================================================================
