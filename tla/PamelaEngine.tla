---------------------------- MODULE PamelaEngine ----------------------------
(***************************************************************************)
(* pamela.device: the clients that open the device and send it I/O         *)
(* requests, and the engine task that serves them with the channel library *)
(* (amiga/src/pamdev: pamela_dev.c, pamela_engine.c, pamela_req.c,         *)
(* pamela_sock.c; the clients after amiga/src/pamlib/pamlib.c).            *)
(*                                                                         *)
(* The engine is one task.  It waits for the device's event and for its    *)
(* request port, updates the library's channels and handles the sockets    *)
(* of the event mask one by one, and then takes one request from the port. *)
(* The clients and the firmware run between its steps.                     *)
(*                                                                         *)
(* Liberties says what the clients may do beyond what the passing runs     *)
(* need; nothing in the device forbids it.                                 *)
(***************************************************************************)
EXTENDS PamelaLib, Sequences, FiniteSets

CONSTANTS
  Clients,    \* who opens the device
  Pairs,      \* the clients that use a second request
  Nobody,     \* none of them, and none of their requests
  Liberties

(* "post_two":   post a request while another one is in the port           *)
(* "open_two":   open a channel while another open is not answered         *)
(* "reset_busy": reset a channel whose reads or writes are not answered    *)
(* "leave_open": close the device with a channel open                      *)
EngineLiberties == {"post_two", "open_two", "reset_busy", "leave_open"}

ASSUME EngineAssumption ==
  /\ Pairs \subseteq Clients /\ Liberties \subseteq EngineLiberties
  /\ Nobody \notin Clients \cup (Clients \X {"main", "side"})
  /\ Ports \subseteq Nat

(* A client uses its "main" request, which opened the device, for all      *)
(* commands; with a second one it can read and write at once.              *)
Requests  == (Clients \X {"main"}) \cup (Pairs \X {"side"})
NoChannel == -1

ClientOf(r) == r[1]
Main(cl)    == <<cl, "main">>

Commands == {"open", "close", "reset", "read", "write", "get_mtu", "set_mtu"}
Answers  == {"ok", "error"}

(* pamela_socket_t.  "client" is Nobody while "channel" is NULL; "last" is *)
(* the state of last_status.                                               *)
Socket ==
  [client: Clients \cup {Nobody}, read: Requests \cup {Nobody},
   write: Requests \cup {Nobody}, cmd: Requests \cup {Nobody}, last: States]

(* What a client has: the device, a channel (that an open was answered     *)
(* with), and, in the device, pamela_client_t's channel_mask.              *)
Client == [dev: BOOLEAN, chan: Channels \cup {NoChannel}, mask: SUBSET Channels]

(* IOPamReq.  "out": it belongs to the device, from PutMsg to ReplyMsg.    *)
(* "chan" is iopam_Channel, "res" io_Error.                                *)
Request == [out: BOOLEAN, cmd: Commands, arg: Nat,
            chan: Channels \cup {NoChannel}, res: Answers]

VARIABLES
  client, req,    \* the clients and their requests
  port, portSig,  \* req_port: its messages and its signal
  sock,           \* pamela_engine_t.sockets
  at,             \* where the engine's task is
  woken,          \* the other signals its Wait() returned with
  todo, passed,   \* the sockets still to handle, the directions the first one
                  \* has been through
  moving          \* in the block loop of that socket and the next direction

engineTask == <<port, portSig, at, woken, todo, passed, moving>>
engineVars == <<chn, halted, lib, pend, client, req, sock, engineTask>>

(* "off": there is no task.  "lost": it has read through a NULL channel.   *)
Places == {"off", "wait", "events", "port", "lost"}

(* A request that is back with its client: only its result is of interest. *)
Back(res) == [out |-> FALSE, cmd |-> "open", arg |-> 0, chan |-> NoChannel, res |-> res]

ClosedSocket == [client |-> Nobody, read |-> Nobody, write |-> Nobody,
                 cmd |-> Nobody, last |-> "INACTIVE"]

EngineInit ==
  /\ DeviceInit /\ LibInit
  /\ client = [cl \in Clients |-> [dev |-> FALSE, chan |-> NoChannel, mask |-> {}]]
  /\ req = [r \in Requests |-> Back("ok")]
  /\ port = <<>> /\ portSig = FALSE
  /\ sock = [c \in Channels |-> ClosedSocket]
  /\ at = "off" /\ woken = {} /\ todo = {} /\ passed = {} /\ moving = FALSE

----------------------------------------------------------------------------
(* Replies *)

(* ReplyMsg for the requests in S, with res as their result.  A client     *)
(* learns its channel from the answer to an open, and forgets it with the  *)
(* answer to a close.                                                      *)
Replied(S, res) ==
  [r \in Requests |-> IF r \in S THEN Back(res) ELSE req[r]]

Knows(clients, r, res) ==
  CASE req[r].cmd = "open" /\ res = "ok" -> [clients EXCEPT ![ClientOf(r)].chan = req[r].chan]
    [] req[r].cmd = "close" -> [clients EXCEPT ![ClientOf(r)].chan = NoChannel]
    [] OTHER -> clients

(* The answer to the command request of a socket.                          *)
ReplyCmd(c, res, clients, requests) ==
  LET r == sock[c].cmd
  IN  IF r = Nobody THEN client' = clients /\ req' = requests
      ELSE /\ client' = Knows(clients, r, res)
           /\ req' = [requests EXCEPT ![r] = Back(res)]

(* Mutant: writes are forgotten.                                           *)
HeldReads(c) == {sock[c].read} \ {Nobody}

(* The reads and writes that wait in a socket.                             *)
Held(c) == {sock[c].read, sock[c].write} \ {Nobody}

----------------------------------------------------------------------------
(* Clients *)

OutCmds(cl) == {req[r].cmd : r \in {q \in Requests : ClientOf(q) = cl /\ req[q].out}}

(* Which command a client sends with request r.                            *)
MaySend(r, cmd) ==
  LET cl    == ClientOf(r)
      quiet == OutCmds(cl) = {}
  IN  CASE cmd = "open" ->
             /\ r = Main(cl) /\ client[cl].chan = NoChannel /\ quiet
             /\ "open_two" \in Liberties \/ \A other \in Clients : "open" \notin OutCmds(other)
        [] cmd = "close" -> r = Main(cl) /\ client[cl].chan # NoChannel
        [] cmd = "reset" -> /\ r = Main(cl) /\ client[cl].chan # NoChannel
                            /\ quiet \/ "reset_busy" \in Liberties
        [] cmd = "set_mtu" -> r = Main(cl) /\ client[cl].chan # NoChannel /\ quiet
        [] cmd = "get_mtu" -> r = Main(cl) /\ client[cl].chan # NoChannel
        [] OTHER -> /\ client[cl].chan # NoChannel
                    /\ OutCmds(cl) \subseteq Dirs

(* DevBeginIO, pamela_engine_post_request *)
BeginIO(r, cmd, arg) ==
  /\ client[ClientOf(r)].dev /\ ~req[r].out
  /\ port = <<>> \/ "post_two" \in Liberties
  /\ MaySend(r, cmd)
  /\ req' = [req EXCEPT ![r] = [out |-> TRUE, cmd |-> cmd, arg |-> arg, res |-> "ok",
                                chan |-> client[ClientOf(r)].chan]]
  /\ port' = Append(port, r) /\ portSig' = TRUE
  /\ UNCHANGED <<deviceVars, libVars, client, sock, at, woken, todo, passed, moving>>

Args(cmd) ==
  CASE cmd = "open"    -> Ports
    [] cmd = "set_mtu" -> Mtus
    [] cmd \in Dirs    -> Sizes[cmd]
    [] OTHER           -> {0}

(* DevOpen.  The first client starts the engine, and the engine resets the *)
(* firmware (pamela_init, proto_dev_init).  A close that is under way has  *)
(* the device's semaphore.                                                 *)
Openers == {cl \in Clients : client[cl].dev}

OpenDevice(cl) ==
  /\ ~client[cl].dev
  /\ at = "off" \/ Openers # {}
  /\ client' = [client EXCEPT ![cl] = [dev |-> TRUE, chan |-> NoChannel, mask |-> {}]]
  /\ IF at = "off"
     THEN /\ at' = "wait"
          /\ chn' = FreshChannels /\ halted' = FALSE
          /\ lib' = FreshLib /\ pend' = {}
          /\ sock' = [c \in Channels |-> ClosedSocket]
     ELSE UNCHANGED <<deviceVars, libVars, sock, at>>
  /\ UNCHANGED <<req, port, portSig, woken, todo, passed, moving>>

(* DevClose, UserUnitClose, pamela_engine_exit_request: in the client's    *)
(* task, the channels of the client are closed and their sockets shut      *)
(* down (pamela_sock_shutdown_client).  The last client ends the engine.   *)
CloseDevice(cl) ==
  /\ client[cl].dev /\ OutCmds(cl) = {}
  /\ client[cl].chan = NoChannel \/ "leave_open" \in Liberties
  /\ client' = [client EXCEPT ![cl] = [dev |-> FALSE, chan |-> NoChannel, mask |-> {}]]
  /\ \/ client[cl].mask = {} /\ UNCHANGED <<deviceVars, lib, req, sock>>
     \/ \E c \in client[cl].mask :
          /\ LibClose(c)
          /\ sock' = [sock EXCEPT ![c].client = Nobody, ![c].read = Nobody,
                                  ![c].write = Nobody]
          /\ req' = Replied(Held(c), "error")
  /\ UNCHANGED <<pend, engineTask>>

----------------------------------------------------------------------------
(* The engine: events *)

(* pamela_engine_work: Wait() returns.  The events come first: their mask  *)
(* is read (pamela_sock_event, pamela_event_update).  An event may have    *)
(* happened without its interrupt having been served yet.                  *)
Signals == (IF portSig THEN {"port"} ELSE {}) \cup (IF Openers = {} THEN {"quit"} ELSE {})

AfterEvents == IF woken = {} THEN "wait" ELSE "port"

WakeForEvents ==
  /\ at = "wait" /\ EventMask # {}
  /\ at' = "events" /\ woken' = Signals /\ portSig' = FALSE
  /\ LibFetchEvents /\ todo' = EventMask
  /\ UNCHANGED <<client, req, sock, port, passed, moving>>

WakeForOthers ==
  /\ at = "wait" /\ Signals # {}
  /\ at' = "port" /\ woken' = Signals /\ portSig' = FALSE
  /\ UNCHANGED <<deviceVars, libVars, client, req, sock, port, todo, passed, moving>>

UpdateChannel(c) ==
  /\ at = "events"
  /\ LibUpdate(c)
  /\ UNCHANGED <<client, req, sock, engineTask>>

(* handle_socket_status is at channel c.                                   *)
Handles(c) ==
  /\ at = "events" /\ pend = {}
  /\ c \in todo /\ \A other \in todo : c <= other

(* A direction is handled if its request is ready and there is one here;   *)
(* reads come first.                                                       *)
Wants(c, d) ==
  "READY" \in lib[c].bits[d] /\ sock[c][d] # Nobody /\ d \notin passed

Turn(c, d) ==
  /\ Handles(c) /\ sock[c].client # Nobody
  /\ Wants(c, d) /\ (d = "write" => ~Wants(c, "read"))

(* handle_socket_read, handle_socket_write end.                            *)
EndTransfer(c, d, res) ==
  /\ req' = Replied({sock[c][d]}, res)
  /\ sock' = [sock EXCEPT ![c][d] = Nobody]
  /\ passed' = passed \cup {d} /\ moving' = FALSE
  /\ UNCHANGED <<pend, client, port, portSig, at, woken, todo>>

StartTransfer(c, d) ==
  /\ Turn(c, d) /\ ~moving
  /\ \/ ~MaySetup(c, d) /\ EndTransfer(c, d, "error") /\ UNCHANGED <<deviceVars, lib>>
     \/ LibSetup(c, d) /\ SetupSize(c, d) = 0 /\ EndTransfer(c, d, "ok")
     \/ /\ LibSetup(c, d) /\ SetupSize(c, d) # 0
        /\ moving' = TRUE
        /\ UNCHANGED <<pend, client, req, sock, port, portSig, at, woken, todo, passed>>

MoveBlock(c, d) ==
  /\ Turn(c, d) /\ moving
  /\ LibBlock(c, d)
  /\ IF LeftAfterBlock(c, d) = 0 THEN EndTransfer(c, d, "ok")
     ELSE UNCHANGED <<pend, client, req, sock, engineTask>>

(* pamela_sock_shutdown_socket, and cmd_req has been answered.             *)
Shutdown(c) ==
  [sock EXCEPT ![c] = [@ EXCEPT !.client = Nobody, !.read = Nobody,
                                !.write = Nobody, !.cmd = Nobody]]

(* The rest of handle_socket_status, by the new state of the channel.      *)
OnActive(c) ==
  /\ lib[c].view = "ACTIVE"
  /\ LibGetMtu(c)
  /\ ReplyCmd(c, "ok", client, req)
  /\ sock' = [sock EXCEPT ![c].cmd = Nobody, ![c].last = "ACTIVE"]

OnInactive(c) ==
  /\ lib[c].view = "INACTIVE"
  /\ ReplyCmd(c, req[sock[c].cmd].res,
              [client EXCEPT ![sock[c].client].mask = @ \ {c}],
              Replied(Held(c), "error"))
  /\ sock' = [Shutdown(c) EXCEPT ![c].last = "INACTIVE"]
  /\ UNCHANGED <<deviceVars, lib>>

(* Mutant: the socket is given up at once.                                 *)
OnOpenErrorAtOnce(c) ==
  /\ lib[c].view = "OPEN_ERROR"
  /\ ReplyCmd(c, "error", [client EXCEPT ![sock[c].client].mask = @ \ {c}], req)
  /\ sock' = [Shutdown(c) EXCEPT ![c].last = "OPEN_ERROR"]
  /\ UNCHANGED <<deviceVars, lib>>

OnOpenError(c) ==
  /\ lib[c].view = "OPEN_ERROR"
  /\ LibClose(c)
  /\ req' = [r \in Requests |->
               IF r = sock[c].cmd THEN [req[r] EXCEPT !.res = "error"] ELSE req[r]]
  /\ sock' = [sock EXCEPT ![c].last = "OPEN_ERROR"]
  /\ UNCHANGED client

(* Mutant: nobody is told.                                                 *)
OnErrorSilently(c) ==
  /\ lib[c].view = "ERROR"
  /\ sock' = [sock EXCEPT ![c].last = "ERROR"]
  /\ UNCHANGED <<deviceVars, lib, client, req>>

OnError(c) ==
  /\ lib[c].view = "ERROR"
  /\ LET failed == IF sock[c].last # "ERROR" THEN Held(c) ELSE {}
     IN  /\ req' = Replied(failed, "error")
         /\ sock' = [sock EXCEPT ![c].last  = "ERROR",
                                 ![c].read  = IF @ \in failed THEN Nobody ELSE @,
                                 ![c].write = IF @ \in failed THEN Nobody ELSE @]
  /\ UNCHANGED <<deviceVars, lib, client>>

OnOther(c) ==
  /\ lib[c].view \notin {"ACTIVE", "INACTIVE", "OPEN_ERROR", "ERROR"}
  /\ sock' = [sock EXCEPT ![c].last = lib[c].view]
  /\ UNCHANGED <<deviceVars, lib, client, req>>

(* A socket that has no channel: what pamela_status(NULL) reads is not     *)
(* followed any further.                                                   *)
HandleState(c) ==
  /\ Handles(c)
  /\ \A d \in Dirs : ~Wants(c, d)
  /\ IF sock[c].client = Nobody
     THEN at' = "lost" /\ UNCHANGED <<deviceVars, lib, client, req, sock, todo, passed>>
     ELSE /\ OnActive(c) \/ OnInactive(c) \/ OnOpenError(c) \/ OnError(c) \/ OnOther(c)
          /\ todo' = todo \ {c} /\ passed' = {}
          /\ at' = IF todo = {c} THEN AfterEvents ELSE "events"
  /\ UNCHANGED <<pend, port, portSig, woken, moving>>

----------------------------------------------------------------------------
(* The engine: requests *)

(* After the port: quit, or the next Wait().                               *)
AfterPort == IF "quit" \in woken THEN "off" ELSE "wait"

(* The request is answered by pamela_req_handle itself.                    *)
Refuse(r, res) ==
  req' = Replied({r}, res) /\ client' = Knows(client, r, res) /\ UNCHANGED sock

(* pamela_req_open *)
ReqOpen(r) ==
  IF \A c \in Channels : ~IsFreeChannel(c)
  THEN Refuse(r, "error") /\ UNCHANGED <<deviceVars, lib>>
  ELSE \E c \in Channels :
         /\ LibOpen(c, req[r].arg)
         /\ sock' = [sock EXCEPT ![c] = [ClosedSocket EXCEPT !.client = ClientOf(r), !.cmd = r]]
         /\ client' = [client EXCEPT ![ClientOf(r)].mask = @ \cup {c}]
         /\ req' = [req EXCEPT ![r].chan = c]

(* Mutant: the close is answered before the device has confirmed it.       *)
ReqCloseAtOnce(r, c) ==
  /\ LibClose(c)
  /\ sock' = Shutdown(c)
  /\ client' = [Knows(client, r, "ok") EXCEPT ![ClientOf(r)].mask = @ \ {c}]
  /\ req' = Replied(Held(c) \cup {r}, "ok")

(* pamela_req_close *)
ReqClose(r, c) ==
  /\ LibClose(c)
  /\ sock' = [sock EXCEPT ![c].cmd = r]
  /\ client' = [client EXCEPT ![ClientOf(r)].mask = @ \ {c}]
  /\ UNCHANGED req

(* pamela_req_reset, pamela_sock_cancel_read_write *)
ReqReset(r, c) ==
  IF IsActive(c)
  THEN /\ LibReset(c)
       /\ sock' = [sock EXCEPT ![c] = [@ EXCEPT !.cmd = r, !.read = Nobody, !.write = Nobody]]
       /\ req' = Replied(Held(c), "error")
       /\ UNCHANGED client
  ELSE Refuse(r, "error") /\ UNCHANGED <<deviceVars, lib>>

(* pamela_req_read, pamela_req_write *)
ReqMove(r, c, d) ==
  IF sock[c][d] = Nobody /\ MayRequest(c, d)
  THEN /\ LibRequest(c, d, req[r].arg)
       /\ sock' = [sock EXCEPT ![c][d] = r]
       /\ UNCHANGED <<client, req>>
  ELSE Refuse(r, "error") /\ UNCHANGED <<deviceVars, lib>>

(* pamela_req_get_mtu, pamela_req_set_mtu.  An MTU that the firmware       *)
(* changed is set and reported as an error.                                *)
ReqGetMtu(r, c) ==
  IF IsActive(c) THEN LibGetMtu(c) /\ Refuse(r, "ok")
  ELSE Refuse(r, "error") /\ UNCHANGED <<deviceVars, lib>>

ReqSetMtu(r, c) ==
  IF IsActive(c)
  THEN /\ LibSetMtu(c, req[r].arg)
       /\ Refuse(r, IF lib'[c].mtu = req[r].arg THEN "ok" ELSE "error")
  ELSE Refuse(r, "error") /\ UNCHANGED <<deviceVars, lib>>

(* pamela_req_handle, for a request on the channel its client has.         *)
HandleRequest(r) ==
  LET c == req[r].chan
  IN  \/ req[r].cmd = "open"    /\ ReqOpen(r)
      \/ req[r].cmd = "close"   /\ ReqClose(r, c)
      \/ req[r].cmd = "reset"   /\ ReqReset(r, c)
      \/ req[r].cmd \in Dirs    /\ ReqMove(r, c, req[r].cmd)
      \/ req[r].cmd = "get_mtu" /\ ReqGetMtu(r, c)
      \/ req[r].cmd = "set_mtu" /\ ReqSetMtu(r, c)

(* One GetMsg per wakeup.  A request for a channel without a socket goes   *)
(* through its NULL channel.                                               *)
OneMessage == Tail(port)

TakeRequest ==
  /\ at = "port" /\ "port" \in woken /\ port # <<>>
  /\ LET r == Head(port)
     IN  IF req[r].cmd # "open" /\ sock[req[r].chan].client = Nobody
         THEN at' = "lost" /\ UNCHANGED <<deviceVars, lib, client, req, sock>>
         ELSE at' = AfterPort /\ HandleRequest(r)
  /\ port' = OneMessage /\ woken' = {}
  /\ UNCHANGED <<pend, portSig, todo, passed, moving>>

TakeNothing ==
  /\ at = "port" /\ ("port" \in woken => port = <<>>)
  /\ at' = AfterPort /\ woken' = {}
  /\ UNCHANGED <<deviceVars, libVars, client, req, sock, port, portSig, todo, passed, moving>>

----------------------------------------------------------------------------
EngineStep ==
  \/ WakeForEvents \/ WakeForOthers
  \/ \E c \in Channels : \/ UpdateChannel(c) \/ HandleState(c)
                         \/ \E d \in Dirs : StartTransfer(c, d) \/ MoveBlock(c, d)
  \/ TakeRequest \/ TakeNothing

ClientStep ==
  \/ \E cl \in Clients : OpenDevice(cl) \/ CloseDevice(cl)
  \/ \E r \in Requests, cmd \in Commands : \E arg \in Args(cmd) : BeginIO(r, cmd, arg)

EngineWork(c) == Work(c) /\ UNCHANGED <<libVars, client, req, sock, engineTask>>

EngineNext == EngineStep \/ ClientStep \/ \E c \in Channels : EngineWork(c)

EngineSpec == EngineInit /\ [][EngineNext]_engineVars

(* The engine's task runs, the event's interrupt is served, the firmware's *)
(* loop goes round and no handler polls for ever.  Clients need not do     *)
(* anything.                                                               *)
Finishes(c, s) == EngineWork(c) /\ chn[c].state = s /\ chn'[c].state # s

Progress(c, d, bit) ==
  EngineWork(c) /\ bit \in chn[c].bits[d] /\ bit \notin chn'[c].bits[d]

EngineFairness ==
  /\ WF_engineVars(EngineStep) /\ SF_engineVars(WakeForEvents)
  /\ \A c \in Channels :
       /\ \A s \in {"OPENING", "CLOSING", "RESETTING"} : WF_engineVars(Finishes(c, s))
       /\ \A d \in Dirs, bit \in {"PRE", "POST"} : WF_engineVars(Progress(c, d, bit))

FairEngineSpec == EngineSpec /\ EngineFairness

----------------------------------------------------------------------------
(* Properties *)

(* Every variable has the type the declarations give it.                   *)
EngineTypeOK ==
  /\ TypeOK /\ LibTypeOK
  /\ client \in [Clients -> Client] /\ req \in [Requests -> Request]
  /\ sock \in [Channels -> Socket]
  /\ at \in Places /\ woken \subseteq {"port", "quit"}
  /\ todo \subseteq Channels /\ passed \subseteq Dirs
  /\ portSig \in BOOLEAN /\ moving \in BOOLEAN

(* In how many places the device keeps request r.                          *)
Copies(r) ==
  Cardinality({i \in DOMAIN port : port[i] = r})
    + Cardinality({p \in Channels \X {"read", "write", "cmd"} : sock[p[1]][p[2]] = r})

(* A request that is out is in exactly one place, from where it will be    *)
(* replied; one that is back with its client is in none, so that it is     *)
(* never replied twice.                                                    *)
RequestsInOnePlace ==
  at # "off" => \A r \in Requests : Copies(r) = IF req[r].out THEN 1 ELSE 0

(* Events find their socket: the engine never handles an event, or a       *)
(* request, of a channel whose socket has been shut down.                  *)
SocketsAlive == at # "lost"

(* No channel of the firmware is without a socket that will close it.      *)
NoOrphans ==
  at # "off" => \A c \in Channels : chn[c].state # "INACTIVE" => sock[c].client # Nobody

(* A channel that a client was given stays its own until its close is      *)
(* answered: no other client's requests reach it.                          *)
ChannelsOwned ==
  at # "off" => \A cl \in Clients :
    client[cl].chan # NoChannel => sock[client[cl].chan].client = cl

(* Every request is answered.                                              *)
RequestsAnswered == \A r \in Requests : req[r].out ~> ~req[r].out
=============================================================================
