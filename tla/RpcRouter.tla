------------------------------ MODULE RpcRouter ------------------------------
(***************************************************************************)
(* Remote procedure calls to the modem (arch/arm/mach-msm/smd_rpcrouter.c):*)
(* clients that call one server, the worker that reads the channel, the    *)
(* quota of packets the server takes unconfirmed, and the restart of the   *)
(* modem, in the middle of anything.                                       *)
(*                                                                         *)
(* A section under a spinlock is one action.  A call is one packet; what   *)
(* the modem does is not in the repository.  What it puts into the channel *)
(* arrives in pieces, each followed by an interrupt, sooner or later, that *)
(* may stand for several; the worker reads a message part by part.         *)
(***************************************************************************)
EXTENDS Integers, Sequences, FiniteSets

CONSTANTS
    Clients,        \* each has one local endpoint
    Quota,          \* RPCROUTER_DEFAULT_RX_QUOTA, in both directions
    Room,           \* packets that fit into the channel
    HeaderLen, ControlLen, PacmarkLen, DataLen,
                    \* of the parts of a message
    MayLack,        \* what of a message may come later than the rest of it
    MayOutrun,      \* whether a message may come before the interrupt of the
                    \* one before
    Home, Addresses, \* where the server is, and where the modem may put it
                    \* when it restarts
    Closers,        \* clients that close their endpoint
    Interruptible,  \* clients without MSM_RPC_UNINTERRUPTIBLE
    SlowWriters,    \* those that may sleep on, although woken, while the modem
                    \* restarts
    Clearers,       \* those with a thread that clears the notice of a restart
                    \* while another one calls
    MaxCalls,       \* bound on next_xid
    MaxResets       \* bound on the restarts of the modem

ASSUME QuotaAssumption == Quota \in Nat \ {0} /\ Room \in Nat \ {0}
ASSUME LengthsAssumption == {HeaderLen, ControlLen, PacmarkLen, DataLen} \subseteq Nat \ {0}
ASSUME ChannelAssumption == MayLack \subseteq Nat /\ MayOutrun \in BOOLEAN
ASSUME AddressesAssumption == Home \in Addresses
ASSUME ClientsAssumption == Closers \cup Interruptible \cup SlowWriters \cup Clearers \subseteq Clients
ASSUME BoundsAssumption == MaxCalls \in Nat /\ MaxResets \in Nat

VARIABLES
    local_endpoints,
    dst_cid,         \* the address an endpoint is bound to
    server_cid,      \* of the server, as last announced
    pc,              \* where a client's call is
    xid,             \* of that call
    asleep,          \* clients on the wait queue of the place they are at
    confirm_rx,      \* the header of the packet a client is to write
    restart_state,   \* of the local endpoint: {} is RESTART_NORMAL
    read_q,          \* of the local endpoint: xids of the replies
    read_q_wake_lock,
    next_xid,
    tx_quota_cntr,   \* of the server's remote endpoint
    quota_abort,     \* quota_restart_state
    worker,          \* in rr_read ("read"; "wait" and "asleep" in its wait), or
                     \* what it does with a packet
    part,            \* what it reads next
    packet,          \* <<>> or the message it has begun to read or has read
    need_len,
    wakelock,        \* of the channel
    tx, rx,          \* the channel: messages of which nothing has been read
    read_avail,      \* what is there to read
    coming,          \* what of the last message is not there yet
    interrupt,       \* is pending
    modem,           \* "up", "down", or what is to be cleaned up first
    accepted,        \* calls the modem has yet to answer
    unconfirmed,     \* packets it has sent since the last RESUME_TX
    resets

endpoints == <<local_endpoints, dst_cid, server_cid>>
clients == <<endpoints, pc, xid, asleep, confirm_rx, next_xid>>
queues == <<read_q, read_q_wake_lock>>
quota == <<tx_quota_cntr, quota_abort>>
working == <<worker, part, packet, need_len, wakelock>>
channel == <<rx, read_avail, coming, interrupt>>
remote == <<modem, accepted, unconfirmed, resets>>
vars == <<clients, restart_state, queues, quota, working, tx, channel, remote>>

Calling == {"restart", "quota", "write", "begin", "read", "take"}
Xids == 1..MaxCalls
PEND_SVR == "RESTART_PEND_SVR"
PEND_NTFY == "RESTART_PEND_NTFY"

Packets == [ept : Clients, xid : Xids, confirm : BOOLEAN]
RESUME_TX == [control |-> "RESUME_TX"]
NEW_SERVER(cid) == [control |-> "NEW_SERVER", cid |-> cid]
IsControl(message) == "control" \in DOMAIN message

Sent == Packets \cup {RESUME_TX}
Announcements == {NEW_SERVER(cid) : cid \in Addresses}
Received == Packets \cup {RESUME_TX} \cup Announcements

Length == [header |-> HeaderLen, control |-> ControlLen, pacmark |-> PacmarkLen, data |-> DataLen]
Size(message) ==
    IF IsControl(message) THEN HeaderLen + ControlLen ELSE HeaderLen + PacmarkLen + DataLen

(* What is left to read of a message that was begun.                       *)
Rest == CASE part = "header" -> 0
          [] part = "pacmark" -> PacmarkLen + DataLen
          [] OTHER -> Length[part]

TypeOK ==
    /\ local_endpoints \subseteq Clients
    /\ dst_cid \in [Clients -> Addresses]
    /\ server_cid \in Addresses
    /\ pc \in [Clients -> Calling \cup {"idle"}]
    /\ xid \in [Clients -> 0..MaxCalls]
    /\ asleep \subseteq Clients
    /\ confirm_rx \in [Clients -> BOOLEAN]
    /\ restart_state \in [Clients -> SUBSET {PEND_SVR, PEND_NTFY}]
    /\ read_q \in [Clients -> Seq(Xids)]
    /\ read_q_wake_lock \subseteq Clients
    /\ next_xid \in 1..(MaxCalls + 1)
    /\ tx_quota_cntr \in 0..Quota
    /\ quota_abort \in BOOLEAN
    /\ worker \in {"read", "wait", "asleep", "restart", "complete", "confirm"}
    /\ part \in DOMAIN Length
    /\ packet \in Received \cup {<<>>}
    /\ need_len \in Nat
    /\ wakelock \in BOOLEAN
    /\ tx \in Seq(Sent)
    /\ rx \in Seq(Received)
    /\ read_avail \in Nat
    /\ coming \in Nat
    /\ interrupt \in BOOLEAN
    /\ modem \in {"up", "down", "local", "remote"}
    /\ accepted \subseteq Clients \X Xids
    /\ unconfirmed \in 0..Quota
    /\ resets \in 0..MaxResets

Init ==
    /\ local_endpoints = {}
    /\ dst_cid = [c \in Clients |-> Home]
    /\ server_cid = Home
    /\ pc = [c \in Clients |-> "idle"]
    /\ xid = [c \in Clients |-> 0]
    /\ asleep = {}
    /\ confirm_rx = [c \in Clients |-> FALSE]
    /\ restart_state = [c \in Clients |-> {}]
    /\ read_q = [c \in Clients |-> <<>>]
    /\ read_q_wake_lock = {}
    /\ next_xid = 1
    /\ tx_quota_cntr = 0
    /\ quota_abort = FALSE
    /\ worker = "read"
    /\ part = "header"
    /\ packet = <<>>
    /\ need_len = 0
    /\ wakelock = FALSE
    /\ tx = <<>>
    /\ rx = <<>>
    /\ read_avail = 0
    /\ coming = 0
    /\ interrupt = FALSE
    /\ modem = "up"
    /\ accepted = {}
    /\ unconfirmed = 0
    /\ resets = 0
-----------------------------------------------------------------------------
Goto(c, place) == pc' = [pc EXCEPT ![c] = place]
Awake(c) == c \notin asleep

(* wake_up on a queue on which clients sleep at that place.                *)
Waking(cs, places) == {c \in cs : pc[c] \in places}

Returns(c) ==
    /\ Goto(c, "idle")
    /\ xid' = [xid EXCEPT ![c] = 0]
    /\ confirm_rx' = [confirm_rx EXCEPT ![c] = FALSE]

(* The call ends with -ENETRESET: the client has been told.                *)
Told(c) == restart_state' = [restart_state EXCEPT ![c] = @ \ {PEND_NTFY}]

(* The server's remote endpoint exists: msm_rpc_connect has found it.  Who *)
(* can call no more (a bound of the model) does not connect either.        *)
msm_rpc_connect(c) ==
    /\ c \notin local_endpoints
    /\ next_xid <= MaxCalls
    /\ local_endpoints' = local_endpoints \cup {c}
    /\ dst_cid' = [dst_cid EXCEPT ![c] = server_cid]
    /\ UNCHANGED server_cid
    /\ restart_state' = [restart_state EXCEPT ![c] = {}]
    /\ UNCHANGED <<pc, xid, asleep, confirm_rx, next_xid, queues, quota, working, tx, channel, remote>>

(* The worker is not between its look at local_endpoints and the queue of  *)
(* this endpoint: there the code uses memory that was freed (line 1015).   *)
(* REMOVE_CLIENT, which the modem is sent first, is left out: nothing here *)
(* depends on it, and it cannot fail once there is a server to connect to. *)
msm_rpcrouter_destroy_local_endpoint(c) ==
    /\ c \in local_endpoints \cap Closers
    /\ pc[c] = "idle"
    /\ ~(worker = "complete" /\ packet.ept = c)
    /\ local_endpoints' = local_endpoints \ {c}
    /\ read_q' = [read_q EXCEPT ![c] = <<>>]
    /\ read_q_wake_lock' = read_q_wake_lock \ {c}
    /\ dst_cid' = [dst_cid EXCEPT ![c] = Home]
    /\ restart_state' = [restart_state EXCEPT ![c] = {}]
    /\ UNCHANGED <<server_cid, pc, xid, asleep, confirm_rx, next_xid, quota, working, tx, channel,
                   remote>>

(* Nobody who sleeps on restart_wait is woken.                             *)
msm_rpc_clear_netreset(c) ==
    /\ c \in local_endpoints
    /\ pc[c] = "idle" \/ c \in Clearers
    /\ PEND_NTFY \in restart_state[c]
    /\ Told(c)
    /\ UNCHANGED <<clients, queues, quota, working, tx, channel, remote>>

(* It fails at once, in msm_rpc_write, if no remote endpoint has the       *)
(* address: one is only made for the first address of a server.            *)
msm_rpc_call_reply(c) ==
    /\ c \in local_endpoints
    /\ pc[c] = "idle"
    /\ next_xid <= MaxCalls
    /\ next_xid' = next_xid + 1
    /\ IF dst_cid[c] = Home
       THEN xid' = [xid EXCEPT ![c] = next_xid] /\ Goto(c, "restart")
       ELSE UNCHANGED <<xid, pc>>
    /\ UNCHANGED <<endpoints, asleep, confirm_rx, restart_state, queues, quota, working, tx, channel,
                   remote>>

(* The first wait of msm_rpc_write_pkt.                                    *)
WaitsForRestart(c) ==
    /\ pc[c] = "restart" /\ Awake(c)
    /\ IF restart_state[c] = {}
       THEN Goto(c, "quota") /\ UNCHANGED asleep
       ELSE asleep' = asleep \cup {c} /\ UNCHANGED pc
    /\ UNCHANGED <<endpoints, xid, confirm_rx, next_xid, restart_state, queues, quota, working,
                   tx, channel, remote>>

(* The packet that uses up the quota asks for a confirmation.  Mutant: the *)
(* counter is compared before it is raised.                                *)
AsksConfirm_late == tx_quota_cntr = Quota
AsksConfirm == tx_quota_cntr + 1 = Quota

(* The second, with what follows it under quota_lock.                      *)
WaitsForQuota(c) ==
    /\ pc[c] = "quota" /\ Awake(c)
    /\ CASE quota_abort ->
              /\ Told(c)
              /\ Returns(c)
              /\ UNCHANGED <<asleep, quota>>
         [] ~quota_abort /\ tx_quota_cntr >= Quota ->
              /\ asleep' = asleep \cup {c}
              /\ UNCHANGED <<pc, xid, confirm_rx, restart_state, quota>>
         [] OTHER ->
              /\ tx_quota_cntr' = tx_quota_cntr + 1
              /\ confirm_rx' = [confirm_rx EXCEPT ![c] = AsksConfirm]
              /\ Goto(c, "write")
              /\ UNCHANGED <<xid, asleep, restart_state, quota_abort>>
    /\ UNCHANGED <<endpoints, next_xid, queues, working, tx, channel, remote>>

(* A signal ends either wait, and a wait for a reply.                      *)
Interrupted(c) ==
    /\ c \in Interruptible
    /\ \/ pc[c] = "restart"
       \/ pc[c] = "quota" /\ ~quota_abort
       \/ pc[c] = "read" /\ read_q[c] = <<>>
    /\ IF pc[c] = "read" THEN Told(c) ELSE UNCHANGED restart_state
    /\ Returns(c)
    /\ asleep' = asleep \ {c}
    /\ UNCHANGED <<endpoints, next_xid, queues, quota, working, tx, channel, remote>>

(* The rest of msm_rpc_write_pkt, when there is room at last.              *)
msm_rpc_write_pkt(c) ==
    /\ pc[c] = "write"
    /\ IF restart_state[c] # {}
       THEN Told(c) /\ Returns(c) /\ UNCHANGED tx
       ELSE /\ Len(tx) < Room
            /\ tx' = Append(tx, [ept |-> c, xid |-> xid[c], confirm |-> confirm_rx[c]])
            /\ Goto(c, "begin")
            /\ confirm_rx' = [confirm_rx EXCEPT ![c] = FALSE]
            /\ UNCHANGED <<restart_state, xid>>
    /\ UNCHANGED <<endpoints, asleep, next_xid, queues, quota, working, channel, remote>>

msm_rpc_read(c) ==
    /\ pc[c] = "begin"
    /\ IF restart_state[c] # {} THEN Told(c) /\ Returns(c)
                                ELSE Goto(c, "read") /\ UNCHANGED <<restart_state, xid, confirm_rx>>
    /\ UNCHANGED <<endpoints, asleep, next_xid, queues, quota, working, tx, channel, remote>>

(* Its wait, and the call of msm_rpc_clear_netreset after it.  The timeout *)
(* may end the wait at any time.                                           *)
WaitsForReply(c) ==
    /\ pc[c] = "read"
    /\ \/ /\ read_q[c] # <<>>
          /\ Awake(c)
          /\ IF restart_state[c] # {} THEN Told(c) /\ Returns(c)
                                      ELSE Goto(c, "take") /\ UNCHANGED <<restart_state, xid, confirm_rx>>
          /\ UNCHANGED asleep
       \/ /\ read_q[c] = <<>>
          /\ Awake(c)
          /\ asleep' = asleep \cup {c}
          /\ UNCHANGED <<restart_state, pc, xid, confirm_rx>>
       \/ /\ read_q[c] = <<>>
          /\ c \in asleep
          /\ Told(c)
          /\ Returns(c)
          /\ asleep' = asleep \ {c}
    /\ UNCHANGED <<endpoints, next_xid, queues, quota, working, tx, channel, remote>>

wake_unlock(c) ==
    read_q_wake_lock' = IF Tail(read_q[c]) = <<>> THEN read_q_wake_lock \ {c} ELSE read_q_wake_lock

TakesReply(c) ==
    /\ pc[c] = "take"
    /\ IF read_q[c] = <<>>
       THEN Returns(c) /\ UNCHANGED queues
       ELSE /\ read_q' = [read_q EXCEPT ![c] = Tail(@)]
            /\ wake_unlock(c)
            /\ IF Head(read_q[c]) = xid[c]
               THEN Returns(c)
               ELSE Goto(c, "begin") /\ UNCHANGED <<xid, confirm_rx>>
    /\ UNCHANGED <<endpoints, asleep, next_xid, restart_state, quota, working, tx, channel, remote>>
-----------------------------------------------------------------------------
(* rr_read finds less than it needs and waits: the system may sleep.       *)
rr_read ==
    /\ worker = "read"
    /\ read_avail < Length[part]
    /\ need_len' = Length[part]
    /\ wakelock' = FALSE
    /\ worker' = "wait"
    /\ UNCHANGED <<clients, restart_state, queues, quota, part, packet, tx, channel, remote>>

(* Its wait_event, which looks before it sleeps, and does not mind whether *)
(* the interrupt has come.                                                 *)
wait_event ==
    /\ worker = "wait"
    /\ worker' = IF read_avail >= Length[part] THEN "read" ELSE "asleep"
    /\ UNCHANGED <<clients, restart_state, queues, quota, part, packet, need_len, wakelock, tx, channel,
                   remote>>

(* It finds what it needs.                                                 *)
Reads(what) ==
    /\ worker = "read"
    /\ part = what
    /\ read_avail >= Length[what]
    /\ read_avail' = read_avail - Length[what]

(* The first two rr_read of do_read_data.                                  *)
ReadsHeader ==
    /\ rx # <<>>
    /\ Reads("header")
    /\ packet' = Head(rx)
    /\ rx' = Tail(rx)
    /\ part' = IF IsControl(Head(rx)) THEN "control" ELSE "pacmark"
    /\ UNCHANGED <<clients, restart_state, queues, quota, worker, need_len, wakelock, tx, coming,
                   interrupt, remote>>

ReadsPacmark ==
    /\ Reads("pacmark")
    /\ part' = "data"
    /\ UNCHANGED <<clients, restart_state, queues, quota, worker, packet, need_len, wakelock, tx, rx,
                   coming, interrupt, remote>>

ReadsControl(message) ==
    /\ Reads("control")
    /\ packet = message
    /\ packet' = <<>>
    /\ part' = "header"
    /\ UNCHANGED <<need_len, wakelock, tx, rx, coming, interrupt, remote>>

(* Mutant: those who wait for quota are left asleep.                       *)
QuotaIsBack_silently == tx_quota_cntr' = 0 /\ UNCHANGED asleep
QuotaIsBack == tx_quota_cntr' = 0 /\ asleep' = asleep \ Waking(Clients, {"quota"})

(* RPCROUTER_CTRL_CMD_RESUME_TX                                            *)
ResumeTx ==
    /\ ReadsControl(RESUME_TX)
    /\ QuotaIsBack
    /\ UNCHANGED <<endpoints, pc, xid, confirm_rx, next_xid, restart_state, queues, quota_abort, worker>>

(* RPCROUTER_CTRL_CMD_NEW_SERVER for a server that is known and where it   *)
(* was: first its remote endpoint, if there is one, then the local ones    *)
(* that call its program.                                                  *)
handle_server_restart ==
    /\ ReadsControl(NEW_SERVER(server_cid))
    /\ worker' = "restart"
    /\ IF server_cid = Home /\ quota_abort
       THEN QuotaIsBack /\ quota_abort' = FALSE
       ELSE UNCHANGED <<quota, asleep>>
    /\ UNCHANGED <<endpoints, pc, xid, confirm_rx, next_xid, restart_state, queues>>

RestartsLocal ==
    /\ worker = "restart"
    /\ worker' = "read"
    /\ LET pending == {c \in local_endpoints : PEND_SVR \in restart_state[c]}
       IN  /\ restart_state' = [c \in Clients |-> restart_state[c] \ {PEND_SVR}]
           /\ asleep' = asleep \ Waking(pending, {"restart", "read"})
    /\ UNCHANGED <<endpoints, pc, xid, confirm_rx, next_xid, queues, quota, part, packet, need_len,
                   wakelock, tx, channel, remote>>

(* It is somewhere else: nobody is told.                                   *)
ServerMoves ==
    \E cid \in Addresses \ {server_cid} :
      /\ ReadsControl(NEW_SERVER(cid))
      /\ server_cid' = cid
      /\ UNCHANGED <<local_endpoints, dst_cid, pc, xid, asleep, confirm_rx, next_xid, restart_state,
                     queues, quota, worker>>

(* The third rr_read and what follows.  A packet for an endpoint that is   *)
(* gone is dropped, and confirmed.                                         *)
do_read_data ==
    /\ Reads("data")
    /\ part' = "header"
    /\ IF packet.ept \in local_endpoints
       THEN worker' = "complete" /\ UNCHANGED packet
       ELSE IF packet.confirm THEN worker' = "confirm" /\ UNCHANGED packet
                              ELSE packet' = <<>> /\ UNCHANGED worker
    /\ UNCHANGED <<clients, restart_state, queues, quota, need_len, wakelock, tx, rx, coming, interrupt,
                   remote>>

packet_complete ==
    /\ worker = "complete"
    /\ LET c == packet.ept
       IN  /\ read_q' = [read_q EXCEPT ![c] = Append(@, packet.xid)]
           /\ read_q_wake_lock' = read_q_wake_lock \cup {c}
           /\ asleep' = asleep \ Waking({c}, {"read"})
    /\ IF packet.confirm THEN worker' = "confirm" /\ UNCHANGED packet
                         ELSE worker' = "read" /\ packet' = <<>>
    /\ UNCHANGED <<endpoints, pc, xid, confirm_rx, next_xid, restart_state, quota, part, need_len,
                   wakelock, tx, channel, remote>>

rpcrouter_send_control_msg ==
    /\ worker = "confirm"
    /\ Len(tx) < Room
    /\ tx' = Append(tx, RESUME_TX)
    /\ worker' = "read"
    /\ packet' = <<>>
    /\ UNCHANGED <<clients, restart_state, queues, quota, part, need_len, wakelock, channel, remote>>

(* The interrupt.  Mutant: who needs all there is gets no wake lock.       *)
Enough_more == read_avail > need_len
Enough == read_avail >= need_len

msm_rpcrouter_xprt_notify ==
    /\ interrupt
    /\ interrupt' = FALSE
    /\ wakelock' = (wakelock \/ Enough)
    /\ worker' = IF worker = "asleep" THEN "wait" ELSE worker
    /\ UNCHANGED <<clients, restart_state, queues, quota, part, packet, need_len, tx, rx, read_avail,
                   coming, remote>>
-----------------------------------------------------------------------------
(* The modem puts its messages into the channel one after the other.       *)
Puts(message) ==
    /\ coming = 0
    /\ interrupt => MayOutrun
    /\ coming' = Size(message)
    /\ rx' = Append(rx, message)
    /\ UNCHANGED <<read_avail, interrupt>>

(* A piece of one is there.                                                *)
Arrives ==
    /\ \E rest \in {0} \cup MayLack :
         /\ rest < coming
         /\ coming' = rest
         /\ read_avail' = read_avail + (coming - rest)
    /\ interrupt' = TRUE
    /\ UNCHANGED <<clients, restart_state, queues, quota, working, tx, rx, remote>>

ModemReads ==
    /\ modem = "up"
    /\ tx # <<>>
    /\ tx' = Tail(tx)
    /\ IF IsControl(Head(tx))
       THEN unconfirmed' = 0 /\ UNCHANGED <<accepted, channel>>
       ELSE /\ accepted' = accepted \cup {<<Head(tx).ept, Head(tx).xid>>}
            /\ IF Head(tx).confirm THEN Puts(RESUME_TX) ELSE UNCHANGED channel
            /\ UNCHANGED unconfirmed
    /\ UNCHANGED <<clients, restart_state, queues, quota, working, modem, resets>>

ModemAnswers ==
    /\ modem = "up"
    /\ unconfirmed < Quota
    /\ unconfirmed' = unconfirmed + 1
    /\ \E call \in accepted :
         /\ accepted' = accepted \ {call}
         /\ Puts([ept |-> call[1], xid |-> call[2], confirm |-> unconfirmed + 1 = Quota])
    /\ UNCHANGED <<clients, restart_state, queues, quota, working, tx, modem, resets>>

(* What was in the channel is lost, save the rest of a message of which a  *)
(* part has been read: it is there, and is no announcement of the server.  *)
ModemResets ==
    /\ modem = "up"
    /\ resets < MaxResets
    /\ read_avail >= Rest
    /\ packet \notin Announcements
    /\ resets' = resets + 1
    /\ modem' = "local"
    /\ tx' = <<>> /\ rx' = <<>>
    /\ read_avail' = Rest
    /\ coming' = 0
    /\ accepted' = {}
    /\ unconfirmed' = 0
    /\ UNCHANGED <<clients, restart_state, queues, quota, working, interrupt>>

modem_reset_start_cleanup ==
    /\ modem = "local"
    /\ modem' = "remote"
    /\ read_q' = [c \in Clients |-> <<>>]
    /\ restart_state' = [c \in Clients |-> IF c \in local_endpoints THEN {PEND_SVR, PEND_NTFY}
                                                                    ELSE restart_state[c]]
    /\ asleep' = asleep \ Waking(local_endpoints, {"read"})
    /\ UNCHANGED <<endpoints, pc, xid, confirm_rx, next_xid, read_q_wake_lock, quota, working,
                   tx, channel, accepted, unconfirmed, resets>>

(* Its second part, under remote_endpoints_lock.                           *)
AbortsQuota ==
    /\ modem = "remote"
    /\ modem' = "down"
    /\ quota_abort' = TRUE
    /\ asleep' = asleep \ Waking(Clients, {"quota"})
    /\ UNCHANGED <<endpoints, pc, xid, confirm_rx, next_xid, restart_state, queues,
                   tx_quota_cntr, working, tx, channel, accepted, unconfirmed, resets>>

(* It takes seconds: who waited for quota has long been woken, what was    *)
(* left of a message read, and the worker has nothing it could do.         *)
ModemRestarts ==
    /\ modem = "down"
    /\ Waking(Clients, {"quota"}) \subseteq SlowWriters
    /\ worker \in {"asleep", "confirm"} /\ part = "header"
    /\ modem' = "up"
    /\ tx' = <<>>
    /\ \E cid \in Addresses : Puts(NEW_SERVER(cid))
    /\ UNCHANGED <<clients, restart_state, queues, quota, working, accepted, unconfirmed, resets>>
-----------------------------------------------------------------------------
CallGoesOn(c) ==
    \/ WaitsForRestart(c)
    \/ WaitsForQuota(c)
    \/ msm_rpc_write_pkt(c)
    \/ msm_rpc_read(c)
    \/ WaitsForReply(c)
    \/ TakesReply(c)

Worker ==
    \/ rr_read
    \/ wait_event
    \/ ReadsHeader
    \/ ReadsPacmark
    \/ ResumeTx
    \/ handle_server_restart
    \/ RestartsLocal
    \/ ServerMoves
    \/ do_read_data
    \/ packet_complete
    \/ rpcrouter_send_control_msg

Reset ==
    \/ modem_reset_start_cleanup
    \/ AbortsQuota
    \/ ModemRestarts

Next ==
    \/ \E c \in Clients :
         \/ msm_rpc_connect(c)
         \/ msm_rpcrouter_destroy_local_endpoint(c)
         \/ msm_rpc_clear_netreset(c)
         \/ msm_rpc_call_reply(c)
         \/ CallGoesOn(c)
         \/ Interrupted(c)
    \/ Worker
    \/ msm_rpcrouter_xprt_notify
    \/ Arrives
    \/ ModemReads
    \/ ModemAnswers
    \/ ModemResets
    \/ Reset

(* The machine does not stop while a thread can go on, the modem's work is  *)
(* to be done, or an interrupt is pending.                                 *)
Spec ==
    /\ Init /\ [][Next]_vars
    /\ WF_vars(\/ msm_rpcrouter_xprt_notify \/ Arrives
               \/ Worker \/ Reset \/ ModemReads
               \/ \E c \in Clients : CallGoesOn(c))
-----------------------------------------------------------------------------
(* Who has used up the quota can count on an answer: as long as the modem  *)
(* runs, the packet that asks for RESUME_TX, or RESUME_TX itself, is on    *)
(* its way.  It is not lost with a call that is given up.                  *)
QuotaConfirmed ==
    modem = "up" /\ ~quota_abort /\ tx_quota_cntr = Quota =>
      \/ \E c \in Clients : pc[c] = "write" /\ confirm_rx[c] /\ restart_state[c] = {}
      \/ \E i \in DOMAIN tx : ~IsControl(tx[i]) /\ tx[i].confirm
      \/ \E i \in DOMAIN rx : rx[i] = RESUME_TX
      \/ packet = RESUME_TX

(* The worker does not sleep with what it waits for in the channel, unless *)
(* an interrupt is to come or the wake lock is held, wherever need_len was *)
(* set between the look at the channel and the sleep, and whichever pieces *)
(* have had their interrupt; and a packet in a queue keeps the system      *)
(* awake until it is taken.                                                *)
AwakeForPacket ==
    /\ worker \in {"wait", "asleep"} /\ read_avail >= Length[part] => wakelock \/ interrupt
    /\ \A c \in Clients : read_q[c] # <<>> => c \in read_q_wake_lock

(* A call ends, whatever becomes of the modem in the meantime, unless it   *)
(* waits for the end of a restart, and its endpoint is yet to be told of   *)
(* that restart, or the server is no longer where it was.                  *)
CallEnds ==
    \A c \in Clients :
      []<>(\/ pc[c] = "idle"
           \/ pc[c] = "restart" /\ PEND_NTFY \in restart_state[c]
           \/ pc[c] = "restart" /\ PEND_SVR \in restart_state[c] /\ server_cid # Home)
=============================================================================
