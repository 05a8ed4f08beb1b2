-------------------------- MODULE PamelaEngine_proofs --------------------------
(***************************************************************************)
(* For any number of clients, channels and handlers: every I/O request has *)
(* one place until it is replied, the engine finds a socket for every      *)
(* event and every request, a channel of the firmware never outlives its   *)
(* socket, and a client's channel stays its own.                           *)
(***************************************************************************)
EXTENDS PamelaEngine, PamelaDevice_proofs, FiniteSetTheorems

(* What the engine relies on: handlers that close at once, and clients     *)
(* that open one channel at a time and close it before they leave.  They   *)
(* may post requests while others wait in the port, and reset a channel    *)
(* that is busy.                                                           *)
Orderly ==
  /\ \A srv \in Services : HandlerOf(srv).close = {"ok"}
  /\ Liberties \subseteq {"post_two", "reset_busy"}

(* Where in its socket a request waits, and whether it is still in the     *)
(* port.                                                                   *)
Slot(cmd) == IF cmd \in Dirs THEN cmd ELSE "cmd"
SlotNames == {"read", "write", "cmd"}
InPort(r) == \E i \in DOMAIN port : port[i] = r

Alive(c) == sock[c].client # Nobody

(* The socket's command is an open, or one that ends with the channel.     *)
Opening(c) == sock[c].cmd # Nobody /\ req[sock[c].cmd].cmd = "open"
Ending(c) ==
  /\ sock[c].cmd # Nobody
  /\ \/ req[sock[c].cmd].cmd = "close"
     \/ req[sock[c].cmd].cmd = "open" /\ req[sock[c].cmd].res = "error"

(* The copy of the status was read in this round of events.                *)
Fresh(c) == c \in todo /\ c \notin pend

----------------------------------------------------------------------------
(* The inductive invariant *)

(* Where the engine's task can be.                                         *)
TaskInv ==
  /\ at # "lost" /\ pend \subseteq todo
  /\ at # "events" => todo = {}
  /\ at \in {"off", "wait"} => woken = {}
  /\ at = "off" \/ "quit" \in woken => Openers = {}

(* A channel, its copy and its socket.                                     *)
ChannelInv(c) ==
  LET k == chn[c]
      v == lib[c].view
  IN  /\ k.state # "CLOSING"
      /\ k.state = "INACTIVE" => ~Bound(c)
      /\ k.state # "INACTIVE" \/ k.event \/ c \in todo => Alive(c)
      /\ Alive(c) /\ k.state = "INACTIVE" => Ending(c)
      /\ Ending(c) => k.state = "INACTIVE" \/ halted
      /\ k.state \in {"OPENING", "OPEN_ERROR"} => Opening(c)
      /\ v = "INACTIVE" /\ Alive(c) => Opening(c) \/ Fresh(c)
      /\ c \in todo /\ k.state = "INACTIVE" => ~k.event
      /\ Fresh(c) => /\ v = "INACTIVE" => k.state = "INACTIVE"
                     /\ v = "ACTIVE" => k.state \notin {"OPENING", "OPEN_ERROR"}
                     /\ v = "OPEN_ERROR" => Opening(c)
                     /\ Ending(c) => v = "INACTIVE" \/ halted

(* A request that is out is in the port or in its slot.  The first command *)
(* of a client is an open; the others are for the channel it was given.    *)
RequestInv(r) ==
  LET cl == ClientOf(r)
  IN  /\ InPort(r) => req[r].out /\ req[r].res = "ok"
      /\ req[r].out =>
           /\ client[cl].dev
           /\ req[r].cmd \notin Dirs => r = Main(cl)
           /\ IF req[r].cmd = "open" THEN client[cl].chan = NoChannel
              ELSE req[r].chan = client[cl].chan /\ req[r].chan \in Channels
           /\ ~InPort(r) => /\ req[r].chan \in Channels
                            /\ sock[req[r].chan][Slot(req[r].cmd)] = r

(* One open at a time.                                                     *)
OpensInv ==
  \A r, q \in Requests :
    /\ req[r].out /\ req[r].cmd = "open" /\ req[q].out
    /\ req[q].cmd = "open" \/ ClientOf(q) = ClientOf(r)
    => q = r

(* What waits in a socket is a request of its client for this channel.     *)
SocketInv(c) ==
  /\ \A p \in SlotNames, r \in Requests : sock[c][p] = r =>
       /\ req[r].out /\ ~InPort(r) /\ req[r].chan = c /\ Slot(req[r].cmd) = p
       /\ ClientOf(r) = sock[c].client
  /\ Alive(c) => client[sock[c].client].chan = c \/ Opening(c)

ClientInv(cl) ==
  /\ client[cl].chan # NoChannel => client[cl].dev /\ sock[client[cl].chan].client = cl
  /\ \A c \in client[cl].mask : sock[c].client = cl

(* No request is in the port twice, and none behind a close of its client. *)
PortInv ==
  /\ \A i, j \in DOMAIN port : i # j => port[i] # port[j]
  /\ \A i, j \in DOMAIN port : i < j /\ req[port[i]].cmd = "close"
       => ClientOf(port[j]) # ClientOf(port[i])
  /\ \A r \in Requests : req[r].out /\ req[r].cmd = "close" /\ ~InPort(r)
       => \A i \in DOMAIN port : ClientOf(port[i]) # ClientOf(r)

DeskInv ==
  /\ \A r \in Requests : RequestInv(r)
  /\ \A c \in Channels : SocketInv(c)
  /\ \A cl \in Clients : ClientInv(cl)
  /\ OpensInv /\ PortInv

EngineTypes == EngineTypeOK /\ port \in Seq(Requests)

EngineInv ==
  /\ DeviceInv /\ EngineTypes /\ TaskInv
  /\ \A c \in Channels : ChannelInv(c)
  /\ DeskInv

----------------------------------------------------------------------------
(* What the firmware makes of a channel between an open and a close *)

Nears(k, k2) == k2.state \in {k.state, "ERROR"}

(* An inactive channel stays as it is, no other becomes inactive, and none *)
(* opens again.                                                            *)
Runs(k, k2) ==
  /\ k.state = "INACTIVE" => k2 = k
  /\ k.state # "INACTIVE" => k2.state \notin {"INACTIVE", "CLOSING"}
  /\ k2.state \in {"OPENING", "OPEN_ERROR"} => k.state \in {"OPENING", "OPEN_ERROR"}

LEMMA DoneState ==
  ASSUME NEW k \in Channel, NEW d \in Dirs PROVE Done(k, d).state = k.state
<1>1. Done(k, d) = [k EXCEPT !.bits = [k.bits EXCEPT ![d] = {}],
                             !.buf = [k.buf EXCEPT ![d] = [k.buf[d] EXCEPT !.size = 0]],
                             !.event = TRUE]
  BY DEF Done, Notify, Channel
<1>2. QED
  BY <1>1 DEF Channel

LEMMA ErrorState ==
  ASSUME NEW k \in Channel PROVE SetError(k, 3) \in Channel /\ SetError(k, 3).state = "ERROR"
<1>1. SetError(k, 3) \in Channel
  BY SetErrorKeeps DEF Keeps, Errors
<1>2. QED
  BY <1>1 DEF SetError, Channel

LEMMA PreWorkNears ==
  ASSUME NEW k \in Channel, NEW d \in Dirs, NEW k2 \in PreWork(k, d)
  PROVE  Nears(k, k2)
<1> DEFINE h == HandlerOf(k.service)
<1>0. PICK r \in h.pre[d], n \in {k.buf[d].size} \cup {m \in h.cuts[d] : m < k.buf[d].size} :
        k2 = Pre(k, d, r, n)
  BY DEF PreWork
<1>1. k2 = Pre(k, d, r, n) /\ r \in Results
  <2>1. h \in HandlerRec
    BY HandlerType
  <2>2. QED
    BY <1>0, <2>1 DEF HandlerRec
<1>2. CASE r = "ok"
  <2>1. k2 = Reply(k, d, n)
    BY <1>1, <1>2 DEF Pre
  <2>2. Reply(k, d, n).state = k.state
    BY DEF Reply, Notify, Channel
  <2>3. QED
    BY <2>1, <2>2 DEF Nears
<1>3. CASE r = "poll"
  BY <1>1, <1>3 DEF Pre, Nears
<1>4. CASE r = "err"
  <2>1. k2 = Done(SetError(k, 3), d)
    BY <1>1, <1>4 DEF Pre
  <2>2. QED
    BY <2>1, ErrorState, DoneState DEF Nears
<1>5. QED
  BY <1>1, <1>2, <1>3, <1>4 DEF Results

LEMMA PostWorkNears ==
  ASSUME NEW k \in Channel, NEW d \in Dirs, NEW k2 \in PostWork(k, d)
  PROVE  Nears(k, k2)
<1> DEFINE h == HandlerOf(k.service)
<1>0. PICK r \in h.post[d], t \in TaskStarts(h, d) : k2 = Post(k, d, r, t)
  BY DEF PostWork
<1>1. k2 = Post(k, d, r, t) /\ r \in Results /\ t \in BOOLEAN
  <2>1. h \in HandlerRec
    BY HandlerType
  <2>2. QED
    BY <1>0, <2>1 DEF HandlerRec, TaskStarts
<1>2. CASE r = "ok"
  <2> DEFINE k1 == [k EXCEPT !.task = @ \/ t]
  <2>1. k2 = Done(k1, d)
    BY <1>1, <1>2 DEF Post
  <2>2. k1 \in Channel /\ k1.state = k.state
    BY <1>1 DEF Channel
  <2>3. QED
    BY <2>1, <2>2, DoneState DEF Nears
<1>3. CASE r = "poll"
  BY <1>1, <1>3 DEF Post, Nears
<1>4. CASE r = "err"
  <2>1. k2 = Done(SetError(k, 3), d)
    BY <1>1, <1>4 DEF Post
  <2>2. QED
    BY <2>1, ErrorState, DoneState DEF Nears
<1>5. QED
  BY <1>1, <1>2, <1>3, <1>4 DEF Results

LEMMA BlkDoneNears ==
  ASSUME NEW k \in Channel, NEW d \in Dirs, NEW k2 \in BlkDone(k, d)
  PROVE  Nears(k, k2)
<1> DEFINE k1 == [k EXCEPT !.bits[d] = @ \cup {"POST"}]
<1>1. k1 \in Channel /\ k1.state = k.state
  BY DEF Channel, Bits
<1>2. CASE k.buf[d].blk = 0
  <2>1. k2 \in PostWork(k1, d)
    BY <1>2 DEF BlkDone
  <2> HIDE DEF k1
  <2>2. QED
    BY <1>1, <2>1, PostWorkNears DEF Nears
<1>3. CASE k.buf[d].blk # 0
  BY <1>3 DEF BlkDone, Nears
<1>4. QED
  BY <1>2, <1>3

(* One stage of a pass.                                                    *)
LEMMA StageNears ==
  ASSUME NEW k, NEW S, \A k1 \in S : k1 \in Channel /\ Nears(k, k1),
         NEW d \in Dirs, NEW bit
  PROVE  \A k2 \in Stage(S, d, bit) : k2 \in Channel /\ Nears(k, k2)
<1> SUFFICES ASSUME NEW k2 \in Stage(S, d, bit) PROVE k2 \in Channel /\ Nears(k, k2)
  OBVIOUS
<1>1. PICK k1 \in S : k2 \in (IF bit \notin k1.bits[d] THEN {k1}
                              ELSE IF bit = "PRE" THEN PreWork(k1, d) ELSE PostWork(k1, d))
  BY DEF Stage
<1>2. k1 \in Channel /\ Nears(k, k1)
  OBVIOUS
<1>3. k2 = k1 \/ k2 \in PreWork(k1, d) \/ k2 \in PostWork(k1, d)
  BY <1>1
<1>4. k2 \in Channel /\ Nears(k1, k2)
  BY <1>2, <1>3, PreWorkNears, PostWorkNears, PreWorkKeeps, PostWorkKeeps DEF Keeps, Nears
<1>5. QED
  BY <1>2, <1>4 DEF Nears

LEMMA NearsRuns ==
  ASSUME NEW k, NEW k2, Nears(k, k2), k.state \notin {"INACTIVE", "CLOSING"}
  PROVE  Runs(k, k2)
  BY DEF Nears, Runs

(* What a step of channel c does to it and to the others.                  *)
DeviceRuns(c) ==
  /\ DeviceInv' /\ Runs(chn[c], chn'[c]) /\ (halted => halted')
  /\ \A o \in Channels : o # c => chn'[o] = chn[o]

(* Whatever uses the service of a channel does nothing to one that is      *)
(* inactive.                                                               *)
LEMMA BoundRuns ==
  ASSUME DeviceInv, NEW c \in Channels, chn[c].state # "CLOSING",
         chn[c].state = "INACTIVE" => ~Bound(c), ~halted,
         OneChange(c) \/ KeepsAll, NEW S,
         \A k2 \in S : chn[c].state # "INACTIVE" => Runs(chn[c], k2),
         (Bound(c) /\ Becomes(c, S)) \/ UNCHANGED chn
  PROVE  DeviceRuns(c)
<1>1. DeviceInv' /\ \A o \in Channels : o # c => chn'[o] = chn[o]
  BY DeviceStep
<1>2. CASE Bound(c) /\ Becomes(c, S)
  <2>1. chn'[c] \in S /\ chn[c].state # "INACTIVE"
    BY <1>2, BecomesOne
  <2>2. QED
    BY <1>1, <2>1 DEF DeviceRuns
<1>3. CASE UNCHANGED chn
  BY <1>1, <1>3 DEF DeviceRuns, Runs
<1>4. QED
  BY <1>2, <1>3

(* A channel before a step of the engine or of the firmware.               *)
Ready(c) ==
  /\ DeviceInv /\ chn[c] \in Channel /\ chn[c].state # "CLOSING"
  /\ chn[c].state = "INACTIVE" => ~Bound(c)

LEMMA ReqRuns ==
  ASSUME NEW c \in Channels, Ready(c), NEW d \in Dirs, NEW size \in Nat, CmdReq(c, d, size)
  PROVE  DeviceRuns(c)
<1> DEFINE k  == chn[c]
           k1 == [k EXCEPT !.bits[d] = @ \cup {"PRE"},
                           !.buf[d] = [org |-> size, size |-> size, blk |-> 0, off |-> 0]]
<1>1. k1 \in Channel /\ k1.state = k.state
  <2>1. "PRE" \in Bits /\ [org |-> size, size |-> size, blk |-> 0, off |-> 0] \in Buf
    BY DEF Bits, Buf
  <2>2. QED
    BY <2>1 DEF Ready, Channel
<1>2. ~halted /\ ((Bound(c) /\ Becomes(c, PreWork(k1, d))) \/ UNCHANGED chn)
  BY DEF CmdReq, Hang
<1> HIDE DEF k1
<1>3. \A k2 \in PreWork(k1, d) : Nears(k, k2)
  BY <1>1, PreWorkNears DEF Nears
<1>4. OneChange(c) \/ KeepsAll
  BY CmdReqLegit DEF Ready
<1>5. \A k2 \in PreWork(k1, d) : k.state # "INACTIVE" => Runs(k, k2)
  BY <1>3, NearsRuns DEF Ready
<1>6. QED
  BY <1>2, <1>4, <1>5, BoundRuns DEF Ready

LEMMA ResRuns ==
  ASSUME NEW c \in Channels, Ready(c), NEW d \in Dirs, CmdRes(c, d)
  PROVE  DeviceRuns(c)
<1>1. ~halted /\ ((Bound(c) /\ Becomes(c, BlkDone(chn[c], d))) \/ UNCHANGED chn)
  BY DEF CmdRes, Hang, deviceVars
<1>2. \A k2 \in BlkDone(chn[c], d) : chn[c].state # "INACTIVE" => Runs(chn[c], k2)
  BY BlkDoneNears, NearsRuns DEF Ready
<1>3. OneChange(c) \/ KeepsAll
  BY CmdResLegit DEF Ready
<1>4. QED
  BY <1>1, <1>2, <1>3, BoundRuns DEF Ready

LEMMA BlkRuns ==
  ASSUME NEW c \in Channels, Ready(c), NEW d \in Dirs, CmdBlk(c, d)
  PROVE  DeviceRuns(c)
<1> DEFINE k  == chn[c]
           b  == NextBlk(k.buf[d], k.mtu)
           k1 == [k EXCEPT !.buf[d] = NextBlk(@, k.mtu)]
<1>1. k1 \in Channel /\ k1.state = k.state
  <2>1. b \in Buf
    BY NextBlkType DEF Ready, Channel
  <2>2. k1 = [k EXCEPT !.buf[d] = b]
    BY DEF Ready, Channel
  <2> HIDE DEF b, k1
  <2>3. QED
    BY <2>1, <2>2 DEF Ready, Channel
<1>2. ~halted /\ ((Bound(c) /\ Becomes(c, BlkDone(k1, d))) \/ UNCHANGED chn)
  BY DEF CmdBlk, Hang
<1> HIDE DEF k1
<1>3. \A k2 \in BlkDone(k1, d) : Nears(k, k2)
  BY <1>1, BlkDoneNears DEF Nears
<1>4. \A k2 \in BlkDone(k1, d) : k.state # "INACTIVE" => Runs(k, k2)
  BY <1>3, NearsRuns DEF Ready
<1>5. OneChange(c) \/ KeepsAll
  BY CmdBlkLegit DEF Ready
<1>6. QED
  BY <1>2, <1>4, <1>5, BoundRuns DEF Ready

LEMMA SetMtuRuns ==
  ASSUME NEW c \in Channels, Ready(c), NEW mtu \in Nat, CmdSetMtu(c, mtu)
  PROVE  DeviceRuns(c)
<1> DEFINE S == {[chn[c] EXCEPT !.mtu = m] : m \in MtuAnswers(HandlerOf(chn[c].service), mtu)}
<1>1. ~halted /\ ((Bound(c) /\ Becomes(c, S)) \/ UNCHANGED chn)
  BY DEF CmdSetMtu, Hang
<1>2. \A k2 \in S : Nears(chn[c], k2)
  BY DEF Nears, Ready, Channel
<1> HIDE DEF S
<1>3. \A k2 \in S : chn[c].state # "INACTIVE" => Runs(chn[c], k2)
  BY <1>2, NearsRuns DEF Ready
<1>4. OneChange(c) \/ KeepsAll
  BY CmdSetMtuLegit DEF Ready
<1>5. QED
  BY <1>1, <1>3, <1>4, BoundRuns DEF Ready

LEMMA ResetWorkRuns ==
  ASSUME NEW k \in Channel, NEW k2 \in ResetWork(k) PROVE k2.state \in {"ACTIVE", "RESETTING"}
<1>1. k2 \in {Notify(SetState(k, "ACTIVE")), SetState(k, "RESETTING")}
  BY DEF ResetWork, Reset
<1>2. QED
  BY <1>1 DEF Notify, SetState, Channel

LEMMA ResetRuns ==
  ASSUME NEW c \in Channels, Ready(c), CmdReset(c)
  PROVE  DeviceRuns(c)
<1>1. ~halted /\ ((Bound(c) /\ Becomes(c, ResetWork(chn[c]))) \/ UNCHANGED chn)
  BY DEF CmdReset, Hang
<1>2. \A k2 \in ResetWork(chn[c]) : chn[c].state # "INACTIVE" => Runs(chn[c], k2)
  BY ResetWorkRuns DEF Ready, Runs
<1>3. OneChange(c) \/ KeepsAll
  BY CmdResetLegit DEF Ready
<1>4. QED
  BY <1>1, <1>2, <1>3, BoundRuns DEF Ready

LEMMA OpenWorkState ==
  ASSUME NEW k \in Channel, NEW k2 \in OpenWork(k)
  PROVE  k2.state \in {"ACTIVE", "OPENING", "OPEN_ERROR"}
<1>1. PICK r \in HandlerOf(k.service).open : k2 = Open(k, r)
  BY DEF OpenWork
<1>2. r \in Results
  BY HandlerType DEF HandlerRec
<1>3. QED
  BY <1>1, <1>2 DEF Open, Results, Notify, SetState, SetOpenError, Channel

(* The work of a pass, where nothing is closing.                           *)
LEMMA WorkRuns ==
  ASSUME NEW c \in Channels, Ready(c), Work(c)
  PROVE  DeviceRuns(c)
<1> DEFINE k == chn[c]
<1>1. ~halted /\ k \in Channel /\ DeviceInv
  BY DEF Ready, Work, OpeningWork, ClosingWork, ResettingWork, ActiveWork, ChannelTask
<1>2. OneChange(c) \/ KeepsAll
  BY <1>1, WorkLegit
<1>3. k.state \in ActiveStates => Bound(c)
  BY <1>1 DEF DeviceInv, ActiveIsBound
<1>4. CASE OpeningWork(c)
  <2>1. k.state = "OPENING" /\ Becomes(c, OpenWork(k)) /\ Bound(c)
    BY <1>3, <1>4 DEF OpeningWork, ActiveStates
  <2>2. \A k2 \in OpenWork(k) : k.state # "INACTIVE" => Runs(k, k2)
    BY <1>1, <2>1, OpenWorkState DEF Runs
  <2>3. QED
    BY <1>1, <1>2, <2>1, <2>2, BoundRuns DEF Ready
<1>5. CASE ResettingWork(c)
  <2>1. Becomes(c, ResetWork(k)) /\ Bound(c)
    BY <1>3, <1>5 DEF ResettingWork, ActiveStates
  <2>2. \A k2 \in ResetWork(k) : k.state # "INACTIVE" => Runs(k, k2)
    BY <1>1, ResetWorkRuns DEF Runs
  <2>3. QED
    BY <1>1, <1>2, <2>1, <2>2, BoundRuns DEF Ready
<1>6. CASE ActiveWork(c)
  <2> DEFINE S0 == {k}
             S1 == Stage(S0, "read", "PRE")
             S2 == Stage(S1, "read", "POST")
             S3 == Stage(S2, "write", "PRE")
             S4 == Stage(S3, "write", "POST")
  <2>1. Bound(c) /\ Becomes(c, S4) /\ k.state = "ACTIVE"
    BY <1>3, <1>6 DEF ActiveWork, ActiveStates
  <2>2. \A k1 \in S0 : k1 \in Channel /\ Nears(k, k1)
    BY <1>1 DEF Nears
  <2> "read" \in Dirs /\ "write" \in Dirs
    BY DEF Dirs
  <2> HIDE DEF S0
  <2>3. \A k1 \in S1 : k1 \in Channel /\ Nears(k, k1)
    BY <2>2, StageNears
  <2> HIDE DEF S1
  <2>4. \A k1 \in S2 : k1 \in Channel /\ Nears(k, k1)
    BY <2>3, StageNears
  <2> HIDE DEF S2
  <2>5. \A k1 \in S3 : k1 \in Channel /\ Nears(k, k1)
    BY <2>4, StageNears
  <2> HIDE DEF S3
  <2>6. \A k1 \in S4 : k1 \in Channel /\ Nears(k, k1)
    BY <2>5, StageNears
  <2> HIDE DEF S4
  <2>7. \A k2 \in S4 : k.state # "INACTIVE" => Runs(k, k2)
    BY <2>1, <2>6, NearsRuns
  <2>8. QED
    BY <1>1, <1>2, <2>1, <2>7, BoundRuns DEF Ready
<1>7. CASE ChannelTask(c)
  <2> DEFINE off == [k EXCEPT !.task = FALSE]
             S   == {k, off, EndStream(off, 0), EndStream(off, 3)}
  <2>1. (Bound(c) /\ Becomes(c, S)) \/ UNCHANGED chn
    BY <1>7 DEF ChannelTask, Hang
  <2>2. off \in Channel /\ off.state = k.state
    BY <1>1 DEF Channel
  <2> HIDE DEF off
  <2>3. \A k2 \in S : k2.state \in {k.state, "EOS", "ERROR"}
    BY <2>2 DEF EndStream, Notify, SetState, SetError, Channel
  <2> HIDE DEF S
  <2>4. \A k2 \in S : k.state # "INACTIVE" => Runs(k, k2)
    BY <2>3 DEF Runs, Ready
  <2>5. QED
    BY <1>1, <1>2, <2>1, <2>4, BoundRuns DEF Ready
<1>8. QED
  BY <1>4, <1>5, <1>6, <1>7 DEF Work, ClosingWork, Ready

----------------------------------------------------------------------------
(* Requests and their places *)

LEMMA Names ==
  /\ \A r \in Requests : r # Nobody /\ ClientOf(r) \in Clients
  /\ Nobody \notin Clients /\ NoChannel \notin Channels
  /\ \A cl \in Clients : Main(cl) \in Requests /\ ClientOf(Main(cl)) = cl
<1>1. \A r \in Requests : r \in Clients \X {"main", "side"}
  BY EngineAssumption DEF Requests
<1>2. \A r \in Requests : r # Nobody /\ ClientOf(r) \in Clients
  BY <1>1, EngineAssumption DEF ClientOf
<1>3. \A cl \in Clients : Main(cl) \in Requests /\ ClientOf(Main(cl)) = cl
  BY DEF Requests, Main, ClientOf
<1>4. NoChannel \notin Channels
  BY DeviceAssumption DEF NoChannel, Channels
<1>5. QED
  BY <1>2, <1>3, <1>4, EngineAssumption

LEMMA Slots == \A cmd : Slot(cmd) \in SlotNames /\ (Slot(cmd) \in Dirs <=> cmd \in Dirs)
  BY DEF Slot, SlotNames, Dirs

LEMMA DeskTypes ==
  ASSUME EngineTypes, NEW c \in Channels
  PROVE  /\ sock[c].client \in Clients \cup {Nobody}
         /\ \A p \in SlotNames : sock[c][p] \in Requests \cup {Nobody}
<1>1. sock[c] \in Socket
  BY DEF EngineTypes, EngineTypeOK
<1>2. QED
  BY <1>1 DEF Socket, SlotNames

(* No two slots hold the same request, and none one that is in the port.   *)
LEMMA Apart ==
  ASSUME EngineTypes, DeskInv, NEW c \in Channels, NEW o \in Channels,
         NEW p \in SlotNames, NEW q \in SlotNames,
         sock[c][p] # Nobody, sock[o][q] = sock[c][p]
  PROVE  c = o /\ p = q /\ req[sock[c][p]].out /\ ~InPort(sock[c][p])
<1>1. sock[c][p] \in Requests
  BY DeskTypes
<1>2. QED
  BY <1>1 DEF DeskInv, SocketInv

(* A socket that is shut down holds nothing.                               *)
LEMMA DeadHoldsNothing ==
  ASSUME EngineTypes, DeskInv, NEW c \in Channels, ~Alive(c)
  PROVE  \A p \in SlotNames : sock[c][p] = Nobody
<1> SUFFICES ASSUME NEW p \in SlotNames, sock[c][p] # Nobody PROVE FALSE
  OBVIOUS
<1>1. sock[c][p] \in Requests
  BY DeskTypes
<1>2. ClientOf(sock[c][p]) = Nobody
  BY <1>1 DEF DeskInv, SocketInv, Alive
<1>3. QED
  BY <1>1, <1>2, Names

(* A request in the port has no slot; its client has no other command in   *)
(* one.                                                                    *)
LEMMA PortFacts ==
  ASSUME EngineTypes, DeskInv, NEW r \in Requests, InPort(r), req[r].cmd # "open"
  PROVE  LET c == req[r].chan
         IN  /\ c \in Channels /\ Alive(c) /\ sock[c].client = ClientOf(r)
             /\ client[ClientOf(r)].chan = c
             /\ req[r].cmd \notin Dirs => sock[c].cmd = Nobody
             /\ ~Opening(c)
<1> DEFINE c  == req[r].chan
           cl == ClientOf(r)
<1>1. c \in Channels /\ client[cl].chan = c /\ (req[r].cmd \notin Dirs => r = Main(cl))
  BY DEF DeskInv, RequestInv
<1>2. cl \in Clients /\ c # NoChannel
  BY <1>1, Names
<1>3. sock[c].client = cl /\ Alive(c)
  BY <1>1, <1>2, Names DEF DeskInv, ClientInv, Alive
<1>4. ASSUME sock[c].cmd # Nobody
      PROVE  LET q == sock[c].cmd
             IN  q \in Requests /\ req[q].out /\ ~InPort(q) /\ ClientOf(q) = cl
                   /\ req[q].cmd \notin Dirs /\ q = Main(cl)
  <2> DEFINE q == sock[c].cmd
  <2>1. q \in Requests
    BY <1>1, <1>4, DeskTypes DEF SlotNames
  <2>2. req[q].out /\ ~InPort(q) /\ Slot(req[q].cmd) = "cmd" /\ ClientOf(q) = cl
    BY <1>1, <1>3, <2>1 DEF DeskInv, SocketInv, SlotNames
  <2>3. req[q].cmd \notin Dirs
    BY <2>2, Slots DEF Dirs
  <2>4. QED
    BY <2>1, <2>2, <2>3 DEF DeskInv, RequestInv
<1>5. req[r].cmd \notin Dirs => sock[c].cmd = Nobody
  BY <1>1, <1>4
<1>6. ~Opening(c)
  <2> SUFFICES ASSUME Opening(c) PROVE FALSE
    OBVIOUS
  <2>1. client[cl].chan = NoChannel
    BY <1>4 DEF Opening, DeskInv, RequestInv
  <2>2. QED
    BY <1>1, <1>2, <2>1
<1>7. QED
  BY <1>1, <1>3, <1>5, <1>6

----------------------------------------------------------------------------
(* The steps of the desk: clients, requests, port and sockets *)

(* What the channel c can tell of its socket stays.                        *)
Steady(c) ==
  /\ Alive(c)' <=> Alive(c)
  /\ Opening(c)' <=> Opening(c)
  /\ Ending(c)' <=> Ending(c)

LEMMA OpensKept ==
  ASSUME OpensInv,
         \A q \in Requests : req'[q].out => req[q].out /\ req'[q].cmd = req[q].cmd
  PROVE  OpensInv'
  BY DEF OpensInv

LEMMA PortKept ==
  ASSUME PortInv, port' = port,
         \A q \in Requests : req'[q].out => req[q].out /\ req'[q].cmd = req[q].cmd,
         \A i \in DOMAIN port : req'[port[i]].cmd = req[port[i]].cmd
  PROVE  PortInv' /\ \A q : InPort(q)' <=> InPort(q)
<1>1. \A q : InPort(q)' <=> InPort(q)
  BY DEF InPort
<1>2. \A i, j \in DOMAIN port' : i # j => port'[i] # port'[j]
  BY DEF PortInv
<1>3. \A i, j \in DOMAIN port' : i < j /\ req'[port'[i]].cmd = "close"
        => ClientOf(port'[j]) # ClientOf(port'[i])
  BY DEF PortInv
<1>4. \A r \in Requests : req'[r].out /\ req'[r].cmd = "close" /\ ~InPort(r)'
        => \A i \in DOMAIN port' : ClientOf(port'[i]) # ClientOf(r)
  BY <1>1 DEF PortInv
<1>5. QED
  BY <1>1, <1>2, <1>3, <1>4 DEF PortInv

(* Some reads and writes of a socket are answered.                         *)
LEMMA CancelDesk ==
  ASSUME EngineTypes, DeskInv, NEW c \in Channels, NEW S \in SUBSET Held(c),
         \A q \in Requests : IF q \in S THEN ~req'[q].out ELSE req'[q] = req[q],
         \A o \in Channels : sock'[o].client = sock[o].client,
         \A o \in Channels, p \in SlotNames :
           sock'[o][p] = IF o = c /\ sock[o][p] \in S THEN Nobody ELSE sock[o][p],
         client' = client, port' = port
  PROVE  DeskInv' /\ \A o \in Channels : Steady(o)
<1>1. \A q \in S : /\ q \in Requests /\ ~InPort(q) /\ q # Nobody
                   /\ \E d \in Dirs : sock[c][d] = q
  <2> SUFFICES ASSUME NEW q \in S
               PROVE  /\ q \in Requests /\ ~InPort(q) /\ q # Nobody
                      /\ \E d \in Dirs : sock[c][d] = q
    OBVIOUS
  <2>1. PICK d \in Dirs : sock[c][d] = q /\ q # Nobody
    BY DEF Held, Dirs
  <2>2. d \in SlotNames
    BY DEF Dirs, SlotNames
  <2>3. q \in Requests
    BY <2>1, <2>2, DeskTypes
  <2>4. ~InPort(q)
    BY <2>1, <2>2, Apart
  <2>5. QED
    BY <2>1, <2>3, <2>4
<1>2. \A i \in DOMAIN port : port[i] \in Requests /\ port[i] \notin S
  BY <1>1 DEF EngineTypes, InPort
<1>3. OpensInv' /\ PortInv' /\ \A q : InPort(q)' <=> InPort(q)
  <2>1. OpensInv'
    BY OpensKept DEF DeskInv
  <2>2. \A i \in DOMAIN port : req'[port[i]].cmd = req[port[i]].cmd
    BY <1>2
  <2>3. QED
    BY <2>1, <2>2, PortKept DEF DeskInv
<1>4. ASSUME NEW q \in Requests, q \notin S PROVE RequestInv(q)'
  <2>1. RequestInv(q)
    BY DEF DeskInv
  <2>2. req'[q] = req[q] /\ (InPort(q)' <=> InPort(q))
    BY <1>3, <1>4
  <2>3. ASSUME req[q].out, ~InPort(q) 
        PROVE  LET o == req[q].chan
                   p == Slot(req[q].cmd)
               IN  o \in Channels /\ sock'[o][p] = q
    <3>1. req[q].chan \in Channels /\ sock[req[q].chan][Slot(req[q].cmd)] = q
      BY <2>1, <2>3 DEF RequestInv
    <3>2. QED
      BY <1>4, <3>1, Slots
  <2>4. QED
    BY <2>1, <2>2, <2>3 DEF RequestInv
<1>5. ASSUME NEW q \in S PROVE RequestInv(q)'
  BY <1>1, <1>3 DEF RequestInv
<1>6. ASSUME NEW o \in Channels PROVE SocketInv(o)' /\ Steady(o)
  <2>1. SocketInv(o)
    BY DEF DeskInv
  <2>2. ASSUME NEW p \in SlotNames, sock'[o][p] # Nobody
        PROVE  /\ sock'[o][p] = sock[o][p] /\ sock[o][p] \in Requests \ S
               /\ req'[sock[o][p]] = req[sock[o][p]]
    <3>1. sock'[o][p] = sock[o][p] /\ sock[o][p] \in Requests
      BY <2>2, DeskTypes
    <3>2. sock[o][p] \notin S
      <4> SUFFICES ASSUME sock[o][p] \in S PROVE FALSE
        OBVIOUS
      <4>1. PICK d \in Dirs : sock[c][d] = sock[o][p]
        BY <1>1
      <4>2. o = c
        BY <2>2, <3>1, <4>1, Apart DEF Dirs, SlotNames
      <4>3. QED
        BY <2>2, <4>2
    <3>3. QED
      BY <3>1, <3>2
  <2>3. sock'[o].cmd = sock[o].cmd
    <3>1. sock[o].cmd \notin S
      <4> SUFFICES ASSUME sock[o].cmd \in S PROVE FALSE
        OBVIOUS
      <4>1. PICK d \in Dirs : sock[c][d] = sock[o].cmd
        BY <1>1
      <4>2. d \in SlotNames /\ d # "cmd" /\ "cmd" \in SlotNames /\ sock[c][d] # Nobody
        BY <1>1, <4>1 DEF Dirs, SlotNames
      <4>3. QED
        BY <4>1, <4>2, Apart
    <3>2. QED
      BY <3>1 DEF SlotNames
  <2>4. Steady(o)
    <3>1. sock[o].cmd # Nobody => req'[sock[o].cmd] = req[sock[o].cmd]
      BY <2>2, <2>3 DEF SlotNames
    <3>2. QED
      BY <2>3, <3>1 DEF Steady, Alive, Opening, Ending
  <2>5. ASSUME NEW p \in SlotNames, NEW r \in Requests, sock'[o][p] = r
        PROVE  /\ req'[r].out /\ ~InPort(r)' /\ req'[r].chan = o /\ Slot(req'[r].cmd) = p
               /\ ClientOf(r) = sock'[o].client
    <3>1. sock[o][p] = r /\ req'[r] = req[r]
      BY <2>2, <2>5, Names
    <3>2. QED
      BY <1>3, <2>1, <3>1 DEF SocketInv
  <2>6. Alive(o)' => client'[sock'[o].client].chan = o \/ Opening(o)'
    BY <2>1, <2>4 DEF SocketInv, Steady
  <2>7. QED
    BY <2>4, <2>5, <2>6 DEF SocketInv
<1>7. ASSUME NEW cl \in Clients PROVE ClientInv(cl)'
  <2>1. ClientInv(cl)
    BY DEF DeskInv
  <2>2. client[cl].chan # NoChannel => client[cl].chan \in Channels
    BY DEF EngineTypes, EngineTypeOK, Client
  <2>3. client[cl].mask \subseteq Channels
    BY DEF EngineTypes, EngineTypeOK, Client
  <2>4. QED
    BY <2>1, <2>2, <2>3 DEF ClientInv
<1>8. QED
  BY <1>3, <1>4, <1>5, <1>6, <1>7 DEF DeskInv

(* GetMsg: the first message leaves the port.                              *)
LEMMA HeadOfPort ==
  ASSUME EngineTypes, port # <<>>
  PROVE  Head(port) \in Requests /\ InPort(Head(port))
<1>1. port \in Seq(Requests)
  BY DEF EngineTypes
<1>2. 1 \in DOMAIN port /\ Head(port) = port[1]
  BY <1>1
<1>3. QED
  BY <1>1, <1>2 DEF InPort

LEMMA PortTaken ==
  ASSUME EngineTypes, PortInv, port # <<>>, port' = Tail(port),
         NEW r, r = Head(port),
         \A q \in Requests : req'[q].out => req[q].out \/ q = r,
         \A q \in Requests : req'[q].out => req'[q].cmd = req[q].cmd,
         \A q \in Requests : InPort(q) /\ q # r => req'[q].cmd = req[q].cmd
  PROVE  PortInv' /\ \A q : InPort(q)' <=> InPort(q) /\ q # r
<1>1. /\ port \in Seq(Requests) /\ Len(port) \in Nat \ {0}
      /\ DOMAIN port = 1 .. Len(port) /\ port[1] = r
  BY DEF EngineTypes
<1>2. /\ port' \in Seq(Requests) /\ DOMAIN port' = 1 .. (Len(port) - 1)
      /\ \A i \in DOMAIN port' : port'[i] = port[i + 1]
  BY <1>1
<1>3. \A i \in DOMAIN port' : i + 1 \in DOMAIN port /\ i + 1 # 1
  BY <1>1, <1>2
<1>4. \A q : InPort(q)' <=> InPort(q) /\ q # r
  <2>1. ASSUME NEW q, InPort(q)' PROVE InPort(q) /\ q # r
    <3>1. PICK i \in DOMAIN port' : port'[i] = q
      BY <2>1 DEF InPort
    <3>2. i + 1 \in DOMAIN port /\ port[i + 1] = q /\ i + 1 # 1 /\ 1 \in DOMAIN port
      BY <1>1, <1>2, <1>3, <3>1
    <3>3. QED
      BY <1>1, <3>2 DEF InPort, PortInv
  <2>2. ASSUME NEW q, InPort(q), q # r PROVE InPort(q)'
    <3>1. PICK i \in DOMAIN port : port[i] = q
      BY <2>2 DEF InPort
    <3>2. i # 1 /\ i - 1 \in DOMAIN port' /\ (i - 1) + 1 = i
      BY <1>1, <1>2, <2>2, <3>1
    <3>3. port'[i - 1] = q
      BY <1>2, <3>1, <3>2
    <3>4. QED
      BY <3>2, <3>3 DEF InPort
  <2>3. QED
    BY <2>1, <2>2
<1>5. \A i \in DOMAIN port' : /\ port'[i] \in Requests /\ port'[i] # r
                              /\ req'[port'[i]].cmd = req[port'[i]].cmd
  <2> SUFFICES ASSUME NEW i \in DOMAIN port'
               PROVE  /\ port'[i] \in Requests /\ port'[i] # r
                      /\ req'[port'[i]].cmd = req[port'[i]].cmd
    OBVIOUS
  <2>1. port'[i] \in Requests /\ InPort(port[i + 1]) /\ port[i + 1] # r
    <3>1. i + 1 \in DOMAIN port /\ 1 \in DOMAIN port /\ i + 1 # 1
      BY <1>1, <1>3
    <3>2. port[i + 1] # r
      BY <1>1, <3>1 DEF PortInv
    <3>3. QED
      BY <1>1, <1>2, <3>1, <3>2 DEF InPort
  <2>2. QED
    BY <1>2, <2>1
<1>6. \A i, j \in DOMAIN port' : i # j => port'[i] # port'[j]
  <2>1. \A i, j \in DOMAIN port' : i # j => i + 1 # j + 1
    BY <1>2
  <2>2. QED
    BY <1>2, <1>3, <2>1 DEF PortInv
<1>7. \A i, j \in DOMAIN port' : i < j /\ req'[port'[i]].cmd = "close"
        => ClientOf(port'[j]) # ClientOf(port'[i])
  <2>1. \A i, j \in DOMAIN port' : i < j => i + 1 < j + 1
    BY <1>2
  <2>2. QED
    BY <1>2, <1>3, <1>5, <2>1 DEF PortInv
<1>8. ASSUME NEW q \in Requests, req'[q].out, req'[q].cmd = "close", ~InPort(q)',
             NEW i \in DOMAIN port'
      PROVE  ClientOf(port'[i]) # ClientOf(q)
  <2>1. i + 1 \in DOMAIN port /\ port'[i] = port[i + 1] /\ req[q].cmd = "close"
    BY <1>2, <1>3, <1>8
  <2>2. CASE q = r
    <3>1. 1 \in DOMAIN port /\ 1 < i + 1
      BY <1>1, <1>2
    <3>2. QED
      BY <1>1, <2>1, <2>2, <3>1 DEF PortInv
  <2>3. CASE q # r
    <3>1. ~InPort(q) /\ req[q].out
      BY <1>4, <1>8, <2>3
    <3>2. QED
      BY <2>1, <3>1 DEF PortInv
  <2>4. QED
    BY <2>2, <2>3
<1>9. QED
  BY <1>4, <1>6, <1>7, <1>8 DEF PortInv

(* pamela_req_handle answers the request itself.                           *)
LEMMA RefuseDesk ==
  ASSUME EngineTypes, DeskInv, port # <<>>, port' = Tail(port),
         NEW r, r = Head(port),
         \A q \in Requests : IF q = r THEN ~req'[q].out ELSE req'[q] = req[q],
         client' = client, sock' = sock
  PROVE  DeskInv' /\ \A o \in Channels : Steady(o)
<1>1. r \in Requests /\ InPort(r)
  BY HeadOfPort
<1>2. PortInv' /\ \A q : InPort(q)' <=> InPort(q) /\ q # r
  BY PortTaken DEF DeskInv
<1>3. OpensInv'
  BY OpensKept DEF DeskInv
<1>4. ASSUME NEW q \in Requests PROVE RequestInv(q)'
  <2>1. RequestInv(q)
    BY DEF DeskInv
  <2>2. CASE q = r
    BY <1>2, <2>2 DEF RequestInv
  <2>3. CASE q # r
    BY <1>2, <2>1, <2>3 DEF RequestInv
  <2>4. QED
    BY <2>2, <2>3
<1>5. \A o \in Channels, p \in SlotNames : sock[o][p] # r
  BY <1>1 DEF DeskInv, SocketInv
<1>6. ASSUME NEW o \in Channels PROVE SocketInv(o)' /\ Steady(o)
  <2>1. SocketInv(o)
    BY DEF DeskInv
  <2>2. sock[o].cmd # Nobody => req'[sock[o].cmd] = req[sock[o].cmd]
    BY <1>5, DeskTypes DEF SlotNames
  <2>3. Steady(o)
    BY <2>2 DEF Steady, Alive, Opening, Ending
  <2>4. ASSUME NEW p \in SlotNames, NEW q \in Requests, sock'[o][p] = q
        PROVE  /\ req'[q].out /\ ~InPort(q)' /\ req'[q].chan = o /\ Slot(req'[q].cmd) = p
               /\ ClientOf(q) = sock'[o].client
    BY <1>2, <1>5, <2>1, <2>4 DEF SocketInv
  <2>5. Alive(o)' => client'[sock'[o].client].chan = o \/ Opening(o)'
    BY <2>1, <2>3 DEF SocketInv, Steady
  <2>6. QED
    BY <2>3, <2>4, <2>5 DEF SocketInv
<1>7. ASSUME NEW cl \in Clients PROVE ClientInv(cl)'
  BY DEF DeskInv, ClientInv
<1>8. QED
  BY <1>2, <1>3, <1>4, <1>6, <1>7 DEF DeskInv

MasksShrink == \A cl \in Clients : client'[cl].mask \subseteq client[cl].mask

(* A request moves from the port to its slot, and the others in S, which   *)
(* the socket holds, are answered.                                         *)
Files(r, c, S) ==
  /\ S \subseteq Held(c)
  /\ \A q \in Requests : IF q \in S THEN ~req'[q].out ELSE req'[q] = req[q]
  /\ \A o \in Channels : sock'[o].client = sock[o].client
  /\ \A o \in Channels, p \in SlotNames :
       sock'[o][p] = IF o = c /\ p = Slot(req[r].cmd) THEN r
                     ELSE IF o = c /\ sock[o][p] \in S THEN Nobody ELSE sock[o][p]
  /\ \A cl \in Clients : client'[cl].dev = client[cl].dev /\ client'[cl].chan = client[cl].chan
  /\ MasksShrink

LEMMA FileDesk ==
  ASSUME EngineTypes, DeskInv, port # <<>>, port' = Tail(port),
         NEW r, r = Head(port), req[r].cmd # "open",
         NEW c, c = req[r].chan, sock[c][Slot(req[r].cmd)] = Nobody,
         NEW S, Files(r, c, S)
  PROVE  /\ DeskInv' /\ \A o \in Channels : o # c => Steady(o)
         /\ Alive(c)' /\ Alive(c) /\ ~Opening(c)' /\ req'[r] = req[r]
         /\ req[r].cmd \in Dirs => Steady(c)
<1> /\ S \in SUBSET Held(c)
    /\ \A q \in Requests : IF q \in S THEN ~req'[q].out ELSE req'[q] = req[q]
    /\ \A o \in Channels : sock'[o].client = sock[o].client
    /\ \A o \in Channels, p \in SlotNames :
         sock'[o][p] = IF o = c /\ p = Slot(req[r].cmd) THEN r
                       ELSE IF o = c /\ sock[o][p] \in S THEN Nobody ELSE sock[o][p]
    /\ \A cl \in Clients : /\ client'[cl].dev = client[cl].dev
                           /\ client'[cl].chan = client[cl].chan
    /\ MasksShrink
  BY DEF Files
<1>1. r \in Requests /\ InPort(r)
  BY HeadOfPort
<1>2. RequestInv(r)
  BY <1>1 DEF DeskInv
<1>3. c \in Channels /\ Alive(c) /\ sock[c].client = ClientOf(r) /\ ~Opening(c)
  BY <1>1, PortFacts
<1>4. \A q \in S : q \in Requests /\ ~InPort(q) /\ \E d \in Dirs : sock[c][d] = q
  <2> SUFFICES ASSUME NEW q \in S
               PROVE  q \in Requests /\ ~InPort(q) /\ \E d \in Dirs : sock[c][d] = q
    OBVIOUS
  <2>1. PICK d \in Dirs : sock[c][d] = q /\ q # Nobody
    BY DEF Held, Dirs
  <2>2. d \in SlotNames
    BY DEF Dirs, SlotNames
  <2>3. q \in Requests
    BY <1>3, <2>1, <2>2, DeskTypes
  <2>4. ~InPort(q)
    BY <1>3, <2>1, <2>2, Apart
  <2>5. QED
    BY <2>1, <2>3, <2>4
<1>5. r \notin S /\ req'[r] = req[r] /\ req[r].out
  BY <1>1, <1>2, <1>4 DEF RequestInv
<1>6. /\ PortInv' /\ \A q : InPort(q)' <=> InPort(q) /\ q # r
  <2>1. \A q \in Requests : InPort(q) => req'[q].cmd = req[q].cmd
    BY <1>4
  <2>2. \A q \in Requests : req'[q].out => req[q].out /\ req'[q].cmd = req[q].cmd
    OBVIOUS
  <2>3. QED
    BY <2>1, <2>2, PortTaken DEF DeskInv
<1>7. OpensInv'
  BY OpensKept DEF DeskInv
<1>8. \A cl \in Clients : client'[cl].dev = client[cl].dev /\ client'[cl].chan = client[cl].chan
  OBVIOUS
<1>9. ASSUME NEW q \in Requests PROVE RequestInv(q)'
  <2>1. RequestInv(q) /\ ClientOf(q) \in Clients
    BY Names DEF DeskInv
  <2>2. CASE q \in S
    BY <1>4, <1>6, <2>2 DEF RequestInv
  <2>3. CASE q = r
    <3>1. ~InPort(q)' /\ req'[q] = req[q]
      BY <1>5, <1>6, <2>3
    <3>2. sock'[c][Slot(req[r].cmd)] = r
      BY <1>3, Slots
    <3>3. QED
      BY <1>3, <1>8, <2>1, <2>3, <3>1, <3>2 DEF RequestInv
  <2>4. CASE q # r /\ q \notin S
    <3>1. req'[q] = req[q] /\ (InPort(q)' <=> InPort(q))
      BY <1>6, <2>4
    <3>2. ASSUME req[q].out, ~InPort(q)
          PROVE  req[q].chan \in Channels /\ sock'[req[q].chan][Slot(req[q].cmd)] = q
      <4>1. req[q].chan \in Channels /\ sock[req[q].chan][Slot(req[q].cmd)] = q
        BY <2>1, <3>2 DEF RequestInv
      <4>2. q # Nobody /\ Slot(req[q].cmd) \in SlotNames
        BY Names, Slots
      <4>3. ~(req[q].chan = c /\ Slot(req[q].cmd) = Slot(req[r].cmd))
        BY <4>1, <4>2
      <4>4. QED
        BY <2>4, <4>1, <4>2, <4>3
    <3>3. QED
      BY <1>8, <2>1, <3>1, <3>2 DEF RequestInv
  <2>5. QED
    BY <2>2, <2>3, <2>4
<1>10. ASSUME NEW o \in Channels, NEW p \in SlotNames,
              ~(o = c /\ p = Slot(req[r].cmd)), sock'[o][p] # Nobody
       PROVE  /\ sock'[o][p] = sock[o][p] /\ sock[o][p] \in Requests \ S
              /\ req'[sock[o][p]] = req[sock[o][p]]
  <2>1. sock'[o][p] = sock[o][p] /\ sock[o][p] \in Requests
    BY <1>10, DeskTypes
  <2>2. sock[o][p] \notin S
    <3> SUFFICES ASSUME sock[o][p] \in S PROVE FALSE
      OBVIOUS
    <3>1. PICK d \in Dirs : sock[c][d] = sock[o][p]
      BY <1>4
    <3>2. o = c
      BY <1>3, <1>10, <2>1, <3>1, Apart DEF Dirs, SlotNames
    <3>3. QED
      BY <1>10, <3>2
  <2>3. QED
    BY <2>1, <2>2
<1>11. ASSUME NEW o \in Channels, o # c \/ Slot(req[r].cmd) # "cmd"
       PROVE  Steady(o) /\ sock'[o].cmd = sock[o].cmd
  <2>1. sock'[o].cmd = sock[o].cmd
    <3>1. sock[o].cmd \notin S
      <4> SUFFICES ASSUME sock[o].cmd \in S PROVE FALSE
        OBVIOUS
      <4>1. PICK d \in Dirs : sock[c][d] = sock[o].cmd /\ d \in SlotNames /\ d # "cmd"
        BY <1>4 DEF Dirs, SlotNames
      <4>2. "cmd" \in SlotNames /\ sock[c][d] # Nobody
        BY <1>4, <4>1, Names DEF SlotNames
      <4>3. QED
        BY <1>3, <4>1, <4>2, Apart
    <3>2. QED
      BY <1>11, <3>1 DEF SlotNames
  <2>2. sock[o].cmd # Nobody => req'[sock[o].cmd] = req[sock[o].cmd]
    BY <1>10, <1>11, <2>1 DEF SlotNames
  <2>3. QED
    BY <2>1, <2>2 DEF Steady, Alive, Opening, Ending
<1>12. Alive(c)' /\ ~Opening(c)'
  <2>1. CASE Slot(req[r].cmd) = "cmd"
    <3>1. sock'[c].cmd = r
      BY <1>3, <2>1 DEF SlotNames
    <3>2. QED
      BY <1>3, <1>5, <3>1 DEF Opening, Alive
  <2>2. CASE Slot(req[r].cmd) # "cmd"
    BY <1>3, <1>11, <2>2 DEF Steady
  <2>3. QED
    BY <2>1, <2>2
<1>13. ASSUME NEW o \in Channels PROVE SocketInv(o)'
  <2>1. SocketInv(o)
    BY DEF DeskInv
  <2>2. ASSUME NEW p \in SlotNames, NEW q \in Requests, sock'[o][p] = q
        PROVE  /\ req'[q].out /\ ~InPort(q)' /\ req'[q].chan = o /\ Slot(req'[q].cmd) = p
               /\ ClientOf(q) = sock'[o].client
    <3>1. CASE o = c /\ p = Slot(req[r].cmd)
      <4>1. q = r
        BY <2>2, <3>1
      <4>2. QED
        BY <1>3, <1>5, <1>6, <3>1, <4>1
    <3>2. CASE ~(o = c /\ p = Slot(req[r].cmd))
      <4>1. sock[o][p] = q /\ req'[q] = req[q]
        BY <1>10, <2>2, <3>2, Names
      <4>2. QED
        BY <1>6, <2>1, <4>1 DEF SocketInv
    <3>3. QED
      BY <3>1, <3>2
  <2>3. ASSUME Alive(o)' PROVE client'[sock'[o].client].chan = o \/ Opening(o)'
    <3>1. Alive(o) /\ sock'[o].client = sock[o].client /\ sock[o].client \in Clients
      BY <2>3, DeskTypes DEF Alive
    <3>2. client'[sock'[o].client].chan = client[sock[o].client].chan
      BY <1>8, <3>1
    <3>3. Opening(o) => Opening(o)'
      BY <1>3, <1>11 DEF Steady
    <3>4. QED
      BY <2>1, <3>1, <3>2, <3>3 DEF SocketInv
  <2>4. QED
    BY <2>2, <2>3 DEF SocketInv
<1>14. ASSUME NEW cl \in Clients PROVE ClientInv(cl)'
  <2>1. ClientInv(cl)
    BY DEF DeskInv
  <2>2. /\ client[cl].chan # NoChannel => client[cl].chan \in Channels
        /\ client[cl].mask \subseteq Channels
    BY DEF EngineTypes, EngineTypeOK, Client
  <2>3. QED
    BY <2>1, <2>2 DEF ClientInv, MasksShrink
<1>15. req[r].cmd \in Dirs => Steady(c)
  BY <1>3, <1>11, Slots DEF Dirs
<1>16. DeskInv'
  BY <1>6, <1>7, <1>9, <1>13, <1>14 DEF DeskInv
<1>17. \A o \in Channels : o # c => Steady(o)
  BY <1>11
<1>18. QED
  BY <1>3, <1>5, <1>12, <1>15, <1>16, <1>17

(* DevBeginIO: the request goes to the end of the port.                    *)
LEMMA AddedToPort ==
  ASSUME EngineTypes, NEW r \in Requests, port' = Append(port, r)
  PROVE  /\ port' \in Seq(Requests) /\ \A q : InPort(q)' <=> InPort(q) \/ q = r
         /\ DOMAIN port = 1 .. Len(port) /\ Len(port) \in Nat
         /\ DOMAIN port' = 1 .. (Len(port) + 1)
         /\ \A i \in DOMAIN port : port'[i] = port[i]
         /\ port'[Len(port) + 1] = r
<1>1. port \in Seq(Requests) /\ Len(port) \in Nat /\ DOMAIN port = 1 .. Len(port)
  BY DEF EngineTypes
<1>2. /\ port' \in Seq(Requests) /\ DOMAIN port' = 1 .. (Len(port) + 1)
      /\ \A i \in 1 .. Len(port) : port'[i] = port[i]
      /\ port'[Len(port) + 1] = r
  BY <1>1
<1>3. \A q : InPort(q)' <=> InPort(q) \/ q = r
  <2>1. ASSUME NEW q, InPort(q)' PROVE InPort(q) \/ q = r
    <3>1. PICK i \in DOMAIN port' : port'[i] = q
      BY <2>1 DEF InPort
    <3>2. i \in 1 .. Len(port) \/ i = Len(port) + 1
      BY <1>1, <1>2
    <3>3. QED
      BY <1>1, <1>2, <3>1, <3>2 DEF InPort
  <2>2. ASSUME NEW q, InPort(q) PROVE InPort(q)'
    <3>1. PICK i \in DOMAIN port : port[i] = q
      BY <2>2 DEF InPort
    <3>2. i \in DOMAIN port' /\ port'[i] = q
      BY <1>1, <1>2, <3>1
    <3>3. QED
      BY <3>2 DEF InPort
  <2>3. InPort(r)'
    <3>1. Len(port) + 1 \in DOMAIN port'
      BY <1>1, <1>2
    <3>2. QED
      BY <1>2, <3>1 DEF InPort
  <2>4. QED
    BY <2>1, <2>2, <2>3
<1>4. QED
  BY <1>1, <1>2, <1>3

LEMMA PostDesk ==
  ASSUME Orderly, EngineTypes, DeskInv, NEW r \in Requests, NEW cmd \in Commands, NEW arg,
         BeginIO(r, cmd, arg)
  PROVE  DeskInv' /\ \A o \in Channels : Steady(o)
<1> DEFINE cl == ClientOf(r)
<1>1. /\ req' = [req EXCEPT ![r] = [out |-> TRUE, cmd |-> cmd, arg |-> arg, res |-> "ok",
                                    chan |-> client[cl].chan]]
      /\ client[cl].dev /\ ~req[r].out /\ MaySend(r, cmd)
      /\ port' = Append(port, r) /\ client' = client /\ sock' = sock
  BY DEF BeginIO
<1>2. /\ req'[r].out /\ req'[r].cmd = cmd /\ req'[r].res = "ok"
      /\ req'[r].chan = client[cl].chan
      /\ \A q \in Requests : q # r => req'[q] = req[q]
  <2>1. req \in [Requests -> Request]
    BY DEF EngineTypes, EngineTypeOK
  <2>2. QED
    BY <1>1, <2>1
<1>3. cl \in Clients /\ r # Nobody
  BY Names
<1>4. /\ \A q : InPort(q)' <=> InPort(q) \/ q = r
      /\ DOMAIN port = 1 .. Len(port) /\ Len(port) \in Nat
      /\ DOMAIN port' = 1 .. (Len(port) + 1)
      /\ \A i \in DOMAIN port : port'[i] = port[i]
      /\ port'[Len(port) + 1] = r
  BY <1>1, AddedToPort
<1>5. ~InPort(r) /\ \A o \in Channels, p \in SlotNames : sock[o][p] # r
  BY <1>1 DEF DeskInv, RequestInv, SocketInv
<1>6. \A q \in Requests : ClientOf(q) = cl /\ req[q].out => req[q].cmd \in OutCmds(cl)
  BY DEF OutCmds
(* What the client has out already.                                        *)
<1>7. cmd \notin Dirs => r = Main(cl)
  BY <1>1 DEF MaySend, Commands, Dirs
<1>8. cmd # "open" => client[cl].chan \in Channels
  <2>1. cmd # "open" => client[cl].chan # NoChannel
    BY <1>1 DEF MaySend, Commands
  <2>2. client[cl].chan \in Channels \cup {NoChannel}
    BY <1>3 DEF EngineTypes, EngineTypeOK, Client
  <2>3. QED
    BY <2>1, <2>2
<1>9. cmd = "open" => /\ client[cl].chan = NoChannel /\ OutCmds(cl) = {}
                      /\ \A other \in Clients : "open" \notin OutCmds(other)
  BY <1>1 DEF MaySend, Orderly
<1>10. ASSUME NEW q \in Requests, req[q].out, req[q].cmd = "close" PROVE ClientOf(q) # cl
  <2> SUFFICES ASSUME ClientOf(q) = cl PROVE FALSE
    OBVIOUS
  <2>1. q = Main(cl)
    BY <1>10 DEF DeskInv, RequestInv, Dirs
  <2>2. cmd \in Dirs
    BY <1>1, <1>7, <1>10, <2>1
  <2>3. OutCmds(cl) \subseteq Dirs
    BY <1>1, <2>2 DEF MaySend, Dirs
  <2>4. QED
    BY <1>6, <1>10, <2>3 DEF Dirs
<1>11. ASSUME NEW q \in Requests PROVE RequestInv(q)'
  <2>1. CASE q = r
    BY <1>1, <1>2, <1>4, <1>7, <1>8, <1>9, <2>1 DEF RequestInv
  <2>2. CASE q # r
    <3>1. RequestInv(q) /\ (InPort(q)' <=> InPort(q)) /\ req'[q] = req[q]
      BY <1>2, <1>4, <2>2 DEF DeskInv
    <3>2. QED
      BY <1>1, <3>1 DEF RequestInv
  <2>3. QED
    BY <2>1, <2>2
<1>12. ASSUME NEW o \in Channels PROVE SocketInv(o)' /\ Steady(o)
  <2>1. SocketInv(o)
    BY DEF DeskInv
  <2>2. sock[o].cmd # Nobody => req'[sock[o].cmd] = req[sock[o].cmd]
    BY <1>2, <1>5, DeskTypes DEF SlotNames
  <2>3. Steady(o)
    BY <1>1, <2>2 DEF Steady, Alive, Opening, Ending
  <2>4. ASSUME NEW p \in SlotNames, NEW q \in Requests, sock'[o][p] = q
        PROVE  /\ req'[q].out /\ ~InPort(q)' /\ req'[q].chan = o /\ Slot(req'[q].cmd) = p
               /\ ClientOf(q) = sock'[o].client
    <3>1. sock[o][p] = q /\ q # r
      BY <1>1, <1>5, <2>4
    <3>2. req'[q] = req[q] /\ (InPort(q)' <=> InPort(q))
      BY <1>2, <1>4, <3>1
    <3>3. QED
      BY <1>1, <2>1, <3>1, <3>2 DEF SocketInv
  <2>5. Alive(o)' => client'[sock'[o].client].chan = o \/ Opening(o)'
    BY <1>1, <2>1, <2>3 DEF SocketInv, Steady
  <2>6. QED
    BY <2>3, <2>4, <2>5 DEF SocketInv
<1>13. ASSUME NEW k \in Clients PROVE ClientInv(k)'
  BY <1>1 DEF DeskInv, ClientInv
<1>14. OpensInv'
  <2> SUFFICES ASSUME NEW a \in Requests, NEW b \in Requests,
                      req'[a].out, req'[a].cmd = "open", req'[b].out,
                      req'[b].cmd = "open" \/ ClientOf(b) = ClientOf(a)
               PROVE  b = a
    BY DEF OpensInv
  <2>1. CASE a # r /\ b # r
    <3>1. req'[a] = req[a] /\ req'[b] = req[b]
      BY <1>2, <2>1
    <3>2. QED
      BY <3>1 DEF DeskInv, OpensInv
  <2>2. CASE a = r /\ b # r
    <3>1. req[b].out /\ (req[b].cmd = "open" \/ ClientOf(b) = cl) /\ cmd = "open"
      BY <1>2, <2>2
    <3>2. ClientOf(b) \in Clients /\ req[b].cmd \in OutCmds(ClientOf(b))
      BY <3>1, Names DEF OutCmds
    <3>3. QED
      BY <1>9, <3>1, <3>2
  <2>3. CASE a # r /\ b = r
    <3>1. req[a].out /\ req[a].cmd = "open" /\ (cmd = "open" \/ ClientOf(a) = cl)
      BY <1>2, <2>3
    <3>2. ClientOf(a) \in Clients /\ "open" \in OutCmds(ClientOf(a))
      BY <3>1, Names DEF OutCmds
    <3>3. client[ClientOf(a)].chan = NoChannel
      BY <3>1 DEF DeskInv, RequestInv
    <3>4. QED
      BY <1>8, <1>9, <3>1, <3>2, <3>3, Names
  <2>4. QED
    BY <2>1, <2>2, <2>3
<1>15. \A i \in DOMAIN port : /\ port[i] \in Requests /\ port[i] # r /\ req[port[i]].out
                              /\ req'[port[i]] = req[port[i]] /\ i \in DOMAIN port'
  <2> SUFFICES ASSUME NEW i \in DOMAIN port
               PROVE  /\ port[i] \in Requests /\ port[i] # r /\ req[port[i]].out
                      /\ req'[port[i]] = req[port[i]] /\ i \in DOMAIN port'
    OBVIOUS
  <2>1. port[i] \in Requests /\ InPort(port[i])
    BY DEF EngineTypes, InPort
  <2>2. port[i] # r /\ req[port[i]].out
    BY <1>5, <2>1 DEF DeskInv, RequestInv
  <2>3. QED
    BY <1>2, <1>4, <2>1, <2>2
<1>16. \A i \in DOMAIN port' : i \in DOMAIN port \/ i = Len(port) + 1
  BY <1>4
<1>17. PortInv'
  <2>1. \A i, j \in DOMAIN port' : i # j => port'[i] # port'[j]
    BY <1>4, <1>15, <1>16 DEF DeskInv, PortInv
  <2>2. ASSUME NEW i \in DOMAIN port', NEW j \in DOMAIN port', i < j,
               req'[port'[i]].cmd = "close"
        PROVE  ClientOf(port'[j]) # ClientOf(port'[i])
    <3>1. i \in DOMAIN port /\ port'[i] = port[i]
      BY <1>4, <2>2
    <3>2. req[port[i]].cmd = "close" /\ req[port[i]].out /\ port[i] \in Requests
      BY <1>15, <2>2, <3>1
    <3>3. CASE j \in DOMAIN port
      BY <1>4, <2>2, <3>1, <3>2, <3>3 DEF DeskInv, PortInv
    <3>4. CASE j = Len(port) + 1
      BY <1>4, <1>10, <3>1, <3>2, <3>4
    <3>5. QED
      BY <1>16, <3>3, <3>4
  <2>3. ASSUME NEW q \in Requests, req'[q].out, req'[q].cmd = "close", ~InPort(q)',
               NEW i \in DOMAIN port'
        PROVE  ClientOf(port'[i]) # ClientOf(q)
    <3>1. q # r /\ ~InPort(q) /\ req[q].out /\ req[q].cmd = "close"
      BY <1>2, <1>4, <2>3
    <3>2. CASE i \in DOMAIN port
      BY <1>4, <3>1, <3>2 DEF DeskInv, PortInv
    <3>3. CASE i = Len(port) + 1
      BY <1>4, <1>10, <3>1, <3>3
    <3>4. QED
      BY <1>16, <3>2, <3>3
  <2>4. QED
    BY <2>1, <2>2, <2>3 DEF PortInv
<1>18. QED
  BY <1>11, <1>12, <1>13, <1>14, <1>17 DEF DeskInv

(* The result of an open becomes an error, and nothing else changes.       *)
LEMMA FailDesk ==
  ASSUME EngineTypes, DeskInv, client' = client, port' = port,
         \A o \in Channels : sock'[o].client = sock[o].client,
         \A o \in Channels, p \in SlotNames : sock'[o][p] = sock[o][p],
         \A q \in Requests : /\ req'[q].out = req[q].out /\ req'[q].cmd = req[q].cmd
                             /\ req'[q].chan = req[q].chan
                             /\ InPort(q) => req'[q].res = req[q].res
  PROVE  /\ DeskInv'
         /\ \A o \in Channels : (Alive(o)' <=> Alive(o)) /\ (Opening(o)' <=> Opening(o))
<1>1. \A i \in DOMAIN port : port[i] \in Requests
  BY DEF EngineTypes
<1>2. OpensInv' /\ PortInv' /\ \A q : InPort(q)' <=> InPort(q)
  <2>1. OpensInv'
    BY OpensKept DEF DeskInv
  <2>2. QED
    BY <1>1, <2>1, PortKept DEF DeskInv
<1>3. ASSUME NEW q \in Requests PROVE RequestInv(q)'
  <2>1. RequestInv(q) /\ Slot(req[q].cmd) \in SlotNames
    BY Slots DEF DeskInv
  <2>2. QED
    BY <1>2, <2>1 DEF RequestInv
<1>4. ASSUME NEW o \in Channels
      PROVE  /\ SocketInv(o)'
             /\ (Alive(o)' <=> Alive(o)) /\ (Opening(o)' <=> Opening(o))
  <2>1. SocketInv(o)
    BY DEF DeskInv
  <2>2. sock'[o].cmd = sock[o].cmd /\ sock[o].cmd \in Requests \cup {Nobody}
    BY DeskTypes DEF SlotNames
  <2>3. (Alive(o)' <=> Alive(o)) /\ (Opening(o)' <=> Opening(o))
    BY <2>2 DEF Alive, Opening
  <2>4. ASSUME NEW p \in SlotNames, NEW q \in Requests, sock'[o][p] = q
        PROVE  /\ req'[q].out /\ ~InPort(q)' /\ req'[q].chan = o /\ Slot(req'[q].cmd) = p
               /\ ClientOf(q) = sock'[o].client
    BY <1>2, <2>1, <2>4 DEF SocketInv
  <2>5. Alive(o)' => client'[sock'[o].client].chan = o \/ Opening(o)'
    BY <2>1, <2>3 DEF SocketInv
  <2>6. QED
    BY <2>3, <2>4, <2>5 DEF SocketInv
<1>5. ASSUME NEW cl \in Clients PROVE ClientInv(cl)'
  <2>1. ClientInv(cl)
    BY DEF DeskInv
  <2>2. /\ client[cl].chan # NoChannel => client[cl].chan \in Channels
        /\ client[cl].mask \subseteq Channels
    BY DEF EngineTypes, EngineTypeOK, Client
  <2>3. QED
    BY <2>1, <2>2 DEF ClientInv
<1>6. QED
  BY <1>2, <1>3, <1>4, <1>5 DEF DeskInv

(* The command of a socket: a request of its client for this channel.      *)
LEMMA CmdFacts ==
  ASSUME EngineTypes, DeskInv, NEW c \in Channels, sock[c].cmd # Nobody
  PROVE  LET r == sock[c].cmd
         IN  /\ r \in Requests /\ req[r].out /\ ~InPort(r) /\ req[r].chan = c
             /\ req[r].cmd \notin Dirs /\ r = Main(sock[c].client)
             /\ ClientOf(r) = sock[c].client /\ sock[c].client \in Clients /\ Alive(c)
<1> DEFINE r == sock[c].cmd
<1>1. "cmd" \in SlotNames /\ r \in Requests
  BY DeskTypes DEF SlotNames
<1>2. /\ req[r].out /\ ~InPort(r) /\ req[r].chan = c /\ Slot(req[r].cmd) = "cmd"
      /\ ClientOf(r) = sock[c].client
  BY <1>1 DEF DeskInv, SocketInv
<1>3. req[r].cmd \notin Dirs
  BY <1>2, Slots DEF Dirs
<1>4. r = Main(sock[c].client)
  BY <1>1, <1>2, <1>3 DEF DeskInv, RequestInv
<1>5. QED
  BY <1>1, <1>2, <1>3, <1>4, Names DEF Alive

(* The command of a channel that is now active is answered.                *)
LEMMA ActiveDesk ==
  ASSUME EngineTypes, DeskInv, NEW c \in Channels, NEW r, r = sock[c].cmd,
         r # Nobody, ~Ending(c), port' = port,
         \A q \in Requests : IF q = r THEN ~req'[q].out ELSE req'[q] = req[q],
         \A o \in Channels : sock'[o].client = sock[o].client,
         \A o \in Channels, p \in SlotNames :
           sock'[o][p] = IF o = c /\ p = "cmd" THEN Nobody ELSE sock[o][p],
         \A cl \in Clients :
           /\ client'[cl].dev = client[cl].dev /\ client'[cl].mask = client[cl].mask
           /\ client'[cl].chan = IF cl = ClientOf(r) /\ req[r].cmd = "open" THEN c
                                 ELSE client[cl].chan
  PROVE  /\ DeskInv' /\ \A o \in Channels : o # c => Steady(o)
         /\ Alive(c)' /\ Alive(c) /\ ~Opening(c)' /\ ~Ending(c)'
<1> DEFINE cl == ClientOf(r)
<1>1. /\ r \in Requests /\ req[r].out /\ ~InPort(r) /\ req[r].chan = c
      /\ cl = sock[c].client /\ cl \in Clients /\ Alive(c)
  BY CmdFacts
<1>2. "cmd" \in SlotNames
  BY DEF SlotNames
<1>3. \A i \in DOMAIN port : port[i] \in Requests /\ port[i] # r
  BY <1>1 DEF EngineTypes, InPort
<1>4. OpensInv' /\ PortInv' /\ \A q : InPort(q)' <=> InPort(q)
  <2>1. OpensInv'
    BY OpensKept DEF DeskInv
  <2>2. \A i \in DOMAIN port : req'[port[i]].cmd = req[port[i]].cmd
    BY <1>3
  <2>3. QED
    BY <2>1, <2>2, PortKept DEF DeskInv
<1>5. \A q \in Requests : req[q].out /\ q # r /\ req[r].cmd = "open" => ClientOf(q) # cl
  BY <1>1 DEF DeskInv, OpensInv
<1>6. ASSUME NEW q \in Requests PROVE RequestInv(q)'
  <2>1. RequestInv(q) /\ ClientOf(q) \in Clients /\ q # Nobody /\ Slot(req[q].cmd) \in SlotNames
    BY Names, Slots DEF DeskInv
  <2>2. CASE q = r
    BY <1>1, <1>4, <2>2 DEF RequestInv
  <2>3. CASE q # r
    <3>1. req'[q] = req[q] /\ (InPort(q)' <=> InPort(q))
      BY <1>4, <2>3
    <3>2. req[q].out => client'[ClientOf(q)].chan = client[ClientOf(q)].chan
      BY <1>5, <2>1, <2>3
    <3>3. ASSUME req[q].out, ~InPort(q)
          PROVE  req[q].chan \in Channels /\ sock'[req[q].chan][Slot(req[q].cmd)] = q
      <4>1. req[q].chan \in Channels /\ sock[req[q].chan][Slot(req[q].cmd)] = q
        BY <2>1, <3>3 DEF RequestInv
      <4>2. QED
        BY <2>1, <2>3, <4>1
    <3>4. QED
      BY <2>1, <3>1, <3>2, <3>3 DEF RequestInv
  <2>4. QED
    BY <2>2, <2>3
<1>7. ASSUME NEW o \in Channels, NEW p \in SlotNames, NEW q \in Requests, sock'[o][p] = q
      PROVE  sock[o][p] = q /\ q # r /\ req'[q] = req[q]
  <2>1. sock[o][p] = q /\ ~(o = c /\ p = "cmd") /\ q # Nobody
    BY <1>7, Names
  <2>2. q # r
    BY <1>2, <2>1, Apart
  <2>3. QED
    BY <2>1, <2>2
<1>8. ASSUME NEW o \in Channels, o # c PROVE Steady(o)
  <2>1. sock'[o].cmd = sock[o].cmd
    BY <1>2, <1>8
  <2>2. sock[o].cmd # Nobody => req'[sock[o].cmd] = req[sock[o].cmd]
    BY <1>2, <1>7, <2>1, DeskTypes
  <2>3. QED
    BY <2>1, <2>2 DEF Steady, Alive, Opening, Ending
<1>9. Alive(c)' /\ sock'[c].cmd = Nobody
  BY <1>1, <1>2 DEF Alive
<1>10. ASSUME NEW o \in Channels PROVE SocketInv(o)'
  <2>1. SocketInv(o)
    BY DEF DeskInv
  <2>2. ASSUME NEW p \in SlotNames, NEW q \in Requests, sock'[o][p] = q
        PROVE  /\ req'[q].out /\ ~InPort(q)' /\ req'[q].chan = o /\ Slot(req'[q].cmd) = p
               /\ ClientOf(q) = sock'[o].client
    <3>1. sock[o][p] = q /\ req'[q] = req[q]
      BY <1>7, <2>2
    <3>2. QED
      BY <1>4, <2>1, <3>1 DEF SocketInv
  <2>3. ASSUME Alive(o)' PROVE client'[sock'[o].client].chan = o \/ Opening(o)'
    <3> DEFINE k == sock[o].client
    <3>1. Alive(o) /\ sock'[o].client = k /\ k \in Clients
      BY <2>3, DeskTypes DEF Alive
    <3>2. client[k].chan = o \/ Opening(o)
      BY <2>1, <3>1 DEF SocketInv
    <3>3. CASE o = c
      <4>1. req[r].cmd = "open" => client'[k].chan = c
        BY <1>1, <3>1, <3>3
      <4>2. req[r].cmd # "open" => client[k].chan = c /\ client'[k].chan = c
        BY <1>1, <3>1, <3>2, <3>3 DEF Opening
      <4>3. QED
        BY <3>1, <3>3, <4>1, <4>2
    <3>4. CASE o # c
      <4>1. Opening(o) => Opening(o)'
        BY <1>8, <3>4 DEF Steady
      <4>2. CASE ~Opening(o)
        <5>1. client[k].chan = o /\ o # NoChannel
          BY <3>2, <4>2, Names
        <5>2. ~(k = cl /\ req[r].cmd = "open")
          BY <1>1, <5>1 DEF DeskInv, RequestInv
        <5>3. QED
          BY <3>1, <5>1, <5>2
      <4>3. QED
        BY <4>1, <4>2
    <3>5. QED
      BY <3>3, <3>4
  <2>4. QED
    BY <2>2, <2>3 DEF SocketInv
<1>11. ASSUME NEW k \in Clients PROVE ClientInv(k)'
  <2>1. ClientInv(k)
    BY DEF DeskInv
  <2>2. /\ client[k].chan # NoChannel => client[k].chan \in Channels
        /\ client[k].mask \subseteq Channels
    BY DEF EngineTypes, EngineTypeOK, Client
  <2>3. CASE k = cl /\ req[r].cmd = "open"
    BY <1>1, <2>1, <2>2, <2>3 DEF ClientInv, DeskInv, RequestInv
  <2>4. CASE ~(k = cl /\ req[r].cmd = "open")
    BY <2>1, <2>2, <2>4 DEF ClientInv
  <2>5. QED
    BY <2>3, <2>4
<1>12. ~Opening(c)' /\ ~Ending(c)'
  BY <1>9 DEF Opening, Ending
<1>13. DeskInv'
  BY <1>4, <1>6, <1>10, <1>11 DEF DeskInv
<1>14. QED
  BY <1>1, <1>8, <1>9, <1>12, <1>13

(* The mask of a client without the channel c.                             *)
MaskWithout(c, cl) ==
  IF cl = sock[c].client THEN client[cl].mask \ {c} ELSE client[cl].mask

(* A channel that is now inactive: its socket is shut down, and with it go *)
(* all requests of its client.                                             *)
LEMMA InactiveDesk ==
  ASSUME EngineTypes, DeskInv, NEW c \in Channels, NEW r, r = sock[c].cmd,
         Ending(c), port' = port,
         \A q \in Requests : IF q \in Held(c) \/ q = r THEN ~req'[q].out ELSE req'[q] = req[q],
         sock'[c].client = Nobody, \A p \in SlotNames : sock'[c][p] = Nobody,
         \A o \in Channels : o # c => sock'[o] = sock[o],
         \A cl \in Clients :
           /\ client'[cl].dev = client[cl].dev
           /\ client'[cl].mask = MaskWithout(c, cl)
           /\ client'[cl].chan = IF cl = ClientOf(r) /\ req[r].cmd = "close" THEN NoChannel
                                 ELSE client[cl].chan
  PROVE  /\ DeskInv' /\ \A o \in Channels : o # c => Steady(o)
         /\ ~Alive(c)' /\ ~Opening(c)' /\ ~Ending(c)'
<1> DEFINE cl == sock[c].client
           S  == Held(c) \cup {r}
<1>0. \A q \in Requests : IF q \in S THEN ~req'[q].out ELSE req'[q] = req[q]
  OBVIOUS
<1>1. /\ r \in Requests /\ req[r].out /\ ~InPort(r) /\ req[r].chan = c /\ r # Nobody
      /\ ClientOf(r) = cl /\ cl \in Clients /\ Alive(c) /\ req[r].cmd \notin Dirs
      /\ req[r].cmd \in {"close", "open"}
  BY CmdFacts DEF Ending
<1>2. \A q : q \in S <=> q # Nobody /\ \E p \in SlotNames : sock[c][p] = q
  BY <1>1 DEF Held, SlotNames
<1>3. \A q \in S : q \in Requests /\ ~InPort(q) /\ ClientOf(q) = cl
  <2> SUFFICES ASSUME NEW q \in S PROVE q \in Requests /\ ~InPort(q) /\ ClientOf(q) = cl
    OBVIOUS
  <2>1. PICK p \in SlotNames : sock[c][p] = q
    BY <1>2
  <2>2. q \in Requests
    BY <1>2, <2>1, DeskTypes
  <2>3. QED
    BY <2>1, <2>2 DEF DeskInv, SocketInv
<1>4. OpensInv' /\ PortInv' /\ \A q : InPort(q)' <=> InPort(q)
  <2>1. OpensInv'
    BY OpensKept DEF DeskInv
  <2>2. \A i \in DOMAIN port : req'[port[i]].cmd = req[port[i]].cmd
    <3>1. \A i \in DOMAIN port : port[i] \in Requests /\ InPort(port[i])
      BY DEF EngineTypes, InPort
    <3>2. QED
      BY <1>3, <3>1
  <2>3. QED
    BY <2>1, <2>2, PortKept DEF DeskInv
(* The channel's client has nothing out but what its socket held.          *)
<1>5. ASSUME NEW q \in Requests, req[q].out, ClientOf(q) = cl PROVE q \in S
  <2>1. CASE req[r].cmd = "open"
    BY <1>1, <1>2, <1>5, <2>1 DEF DeskInv, OpensInv
  <2>2. CASE req[r].cmd = "close"
    <3>1. client[cl].chan = c /\ c # NoChannel
      BY <1>1, <2>2, Names DEF DeskInv, RequestInv
    <3>2. req[q].cmd # "open" /\ req[q].chan = c
      BY <1>5, <3>1 DEF DeskInv, RequestInv
    <3>3. ~InPort(q)
      <4>1. \A i \in DOMAIN port : ClientOf(port[i]) # cl
        BY <1>1, <2>2 DEF DeskInv, PortInv
      <4>2. QED
        BY <1>5, <4>1 DEF InPort
    <3>4. sock[c][Slot(req[q].cmd)] = q /\ Slot(req[q].cmd) \in SlotNames
      BY <1>5, <3>2, <3>3, Slots DEF DeskInv, RequestInv
    <3>5. QED
      BY <1>2, <3>4, Names
  <2>3. QED
    BY <1>1, <2>1, <2>2
<1>6. client'[cl].chan = NoChannel /\ client'[cl].mask = client[cl].mask \ {c}
  <2>1. req[r].cmd = "open" => client[cl].chan = NoChannel
    BY <1>1 DEF DeskInv, RequestInv
  <2>2. client'[cl].chan = IF req[r].cmd = "close" THEN NoChannel ELSE client[cl].chan
    BY <1>1
  <2>3. client'[cl].chan = NoChannel
    BY <1>1, <2>1, <2>2
  <2>4. client'[cl].mask = MaskWithout(c, cl)
    BY <1>1
  <2>5. MaskWithout(c, cl) = client[cl].mask \ {c}
    BY DEF MaskWithout
  <2>6. QED
    BY <2>3, <2>4, <2>5
<1>7. \A k \in Clients : k # cl => /\ client'[k].dev = client[k].dev
                                   /\ client'[k].chan = client[k].chan
                                   /\ client'[k].mask = client[k].mask
  BY <1>1 DEF MaskWithout
<1>8. ASSUME NEW o \in Channels, NEW p \in SlotNames, NEW q \in Requests, sock'[o][p] = q
      PROVE  o # c /\ sock[o][p] = q /\ q \notin S /\ req'[q] = req[q]
  <2>1. o # c /\ sock[o][p] = q
    BY <1>8, Names
  <2>2. q \notin S
    <3> SUFFICES ASSUME q \in S PROVE FALSE
      OBVIOUS
    <3>1. PICK p2 \in SlotNames : sock[c][p2] = q /\ q # Nobody
      BY <1>2
    <3>2. QED
      BY <2>1, <3>1, Apart
  <2>3. QED
    BY <2>1, <2>2
<1>9. ASSUME NEW q \in Requests PROVE RequestInv(q)'
  <2>1. CASE q \in S
    BY <1>3, <1>4, <2>1 DEF RequestInv
  <2>2. CASE q \notin S
    <3>1. RequestInv(q) /\ ClientOf(q) \in Clients /\ Slot(req[q].cmd) \in SlotNames
      BY Names, Slots DEF DeskInv
    <3>2. req'[q] = req[q] /\ (InPort(q)' <=> InPort(q))
      BY <1>4, <2>2
    <3>3. req[q].out => client'[ClientOf(q)].chan = client[ClientOf(q)].chan
      BY <1>5, <1>7, <2>2, <3>1
    <3>4. ASSUME req[q].out, ~InPort(q)
          PROVE  req[q].chan \in Channels /\ sock'[req[q].chan][Slot(req[q].cmd)] = q
      <4>1. req[q].chan \in Channels /\ sock[req[q].chan][Slot(req[q].cmd)] = q
        BY <3>1, <3>4 DEF RequestInv
      <4>2. req[q].chan # c
        BY <1>2, <2>2, <3>1, <4>1, Names
      <4>3. QED
        BY <4>1, <4>2
    <3>5. QED
      BY <3>1, <3>2, <3>3, <3>4 DEF RequestInv
  <2>3. QED
    BY <2>1, <2>2
<1>10. ASSUME NEW o \in Channels, o # c PROVE Steady(o)
  <2>1. sock'[o] = sock[o]
    BY <1>10
  <2>2. sock[o].cmd # Nobody => req'[sock[o].cmd] = req[sock[o].cmd]
    BY <1>8, <2>1, DeskTypes DEF SlotNames
  <2>3. QED
    BY <2>1, <2>2 DEF Steady, Alive, Opening, Ending
<1>11. ~Alive(c)' /\ ~Opening(c)' /\ ~Ending(c)'
  BY DEF Alive, Opening, Ending, SlotNames
<1>12. ASSUME NEW o \in Channels PROVE SocketInv(o)'
  <2>1. SocketInv(o)
    BY DEF DeskInv
  <2>2. ASSUME NEW p \in SlotNames, NEW q \in Requests, sock'[o][p] = q
        PROVE  /\ req'[q].out /\ ~InPort(q)' /\ req'[q].chan = o /\ Slot(req'[q].cmd) = p
               /\ ClientOf(q) = sock'[o].client
    <3>1. o # c /\ sock[o][p] = q /\ req'[q] = req[q]
      BY <1>8, <2>2
    <3>2. QED
      BY <1>4, <2>1, <3>1 DEF SocketInv
  <2>3. ASSUME Alive(o)' PROVE client'[sock'[o].client].chan = o \/ Opening(o)'
    <3> DEFINE k == sock[o].client
    <3>1. o # c
      BY <1>11, <2>3
    <3>2. Alive(o) /\ sock'[o].client = k /\ k \in Clients
      BY <2>3, <3>1, DeskTypes DEF Alive
    <3>3. client[k].chan = o \/ Opening(o)
      BY <2>1, <3>2 DEF SocketInv
    <3>4. CASE Opening(o)
      BY <1>10, <3>1, <3>4 DEF Steady
    <3>5. CASE client[k].chan = o
      <4>1. req[r].cmd = "close" => client[cl].chan = c
        BY <1>1 DEF DeskInv, RequestInv
      <4>2. req[r].cmd = "open" => client[cl].chan = NoChannel
        BY <1>1 DEF DeskInv, RequestInv
      <4>3. k # cl
        BY <1>1, <3>1, <3>5, <4>1, <4>2, Names
      <4>4. QED
        BY <1>7, <3>2, <3>5, <4>3
    <3>6. QED
      BY <3>3, <3>4, <3>5
  <2>4. QED
    BY <2>2, <2>3 DEF SocketInv
<1>13. ASSUME NEW k \in Clients PROVE ClientInv(k)'
  <2>1. ClientInv(k)
    BY DEF DeskInv
  <2>2. /\ client[k].chan # NoChannel => client[k].chan \in Channels
        /\ client[k].mask \subseteq Channels
    BY DEF EngineTypes, EngineTypeOK, Client
  <2>3. CASE k = cl
    <3>1. \A o \in client'[k].mask : o \in client[k].mask /\ o # c
      BY <1>6, <2>3
    <3>2. \A o \in client'[k].mask : sock'[o].client = k
      BY <2>1, <2>2, <3>1 DEF ClientInv
    <3>3. QED
      BY <1>6, <2>3, <3>2 DEF ClientInv
  <2>4. CASE k # cl
    <3>1. client[k].chan # c /\ c \notin client[k].mask
      BY <2>1, <2>4, <1>1, Names DEF ClientInv
    <3>2. \A o \in client[k].mask : sock'[o].client = k
      BY <2>1, <2>2, <3>1 DEF ClientInv
    <3>3. client[k].chan # NoChannel => client[k].dev /\ sock'[client[k].chan].client = k
      BY <2>1, <2>2, <3>1 DEF ClientInv
    <3>4. QED
      BY <1>7, <2>4, <3>2, <3>3 DEF ClientInv
  <2>5. QED
    BY <2>3, <2>4
<1>14. DeskInv'
  BY <1>4, <1>9, <1>12, <1>13 DEF DeskInv
<1>15. QED
  BY <1>10, <1>11, <1>14

MasksAdd(c, owner) ==
  \A cl \in Clients :
    client'[cl].mask \subseteq client[cl].mask \cup (IF cl = owner THEN {c} ELSE {})

(* A free channel gets a socket, and the open waits in it.                 *)
LEMMA OpenDesk ==
  ASSUME EngineTypes, DeskInv, port # <<>>, port' = Tail(port),
         NEW r, r = Head(port), req[r].cmd = "open", NEW c \in Channels, ~Alive(c),
         /\ req'[r].out /\ req'[r].cmd = "open" /\ req'[r].res = req[r].res /\ req'[r].chan = c,
         \A q \in Requests : q # r => req'[q] = req[q],
         sock'[c].client = ClientOf(r),
         \A p \in SlotNames : sock'[c][p] = IF p = "cmd" THEN r ELSE Nobody,
         \A o \in Channels : o # c => sock'[o] = sock[o],
         \A cl \in Clients :
           client'[cl].dev = client[cl].dev /\ client'[cl].chan = client[cl].chan,
         MasksAdd(c, ClientOf(r))
  PROVE  /\ DeskInv' /\ \A o \in Channels : o # c => Steady(o)
         /\ Alive(c)' /\ Opening(c)' /\ ~Ending(c)'
<1> DEFINE cl == ClientOf(r)
<1>1. /\ r \in Requests /\ InPort(r) /\ cl \in Clients /\ r # Nobody
      /\ req[r].out /\ req[r].res = "ok"
  BY HeadOfPort, Names DEF DeskInv, RequestInv
<1>2. PortInv' /\ \A q : InPort(q)' <=> InPort(q) /\ q # r
  <2>1. \A q \in Requests : req'[q].out => req[q].out /\ req'[q].cmd = req[q].cmd
    BY <1>1
  <2>2. QED
    BY <2>1, PortTaken DEF DeskInv
<1>3. OpensInv'
  <2>1. \A q \in Requests : req'[q].out => req[q].out /\ req'[q].cmd = req[q].cmd
    BY <1>1
  <2>2. QED
    BY <2>1, OpensKept DEF DeskInv
<1>4. \A p \in SlotNames : sock[c][p] = Nobody
  BY DeadHoldsNothing
<1>5. \A o \in Channels, p \in SlotNames : sock[o][p] # r
  BY <1>1 DEF DeskInv, SocketInv
<1>6. ASSUME NEW q \in Requests PROVE RequestInv(q)'
  <2>1. RequestInv(q) /\ ClientOf(q) \in Clients /\ q # Nobody /\ Slot(req[q].cmd) \in SlotNames
    BY Names, Slots DEF DeskInv
  <2>2. CASE q = r
    <3>1. ~InPort(q)' /\ Slot("open") = "cmd" /\ "cmd" \in SlotNames /\ "open" \notin Dirs
      BY <1>2, <2>2 DEF Slot, Dirs, SlotNames
    <3>2. QED
      BY <1>1, <2>1, <2>2, <3>1 DEF RequestInv
  <2>3. CASE q # r
    <3>1. req'[q] = req[q] /\ (InPort(q)' <=> InPort(q))
      BY <1>2, <2>3
    <3>2. ASSUME req[q].out, ~InPort(q)
          PROVE  req[q].chan \in Channels /\ sock'[req[q].chan][Slot(req[q].cmd)] = q
      <4>1. req[q].chan \in Channels /\ sock[req[q].chan][Slot(req[q].cmd)] = q
        BY <2>1, <3>2 DEF RequestInv
      <4>2. req[q].chan # c
        BY <1>4, <2>1, <4>1
      <4>3. QED
        BY <4>1, <4>2
    <3>3. QED
      BY <2>1, <3>1, <3>2 DEF RequestInv
  <2>4. QED
    BY <2>2, <2>3
<1>7. ASSUME NEW o \in Channels, o # c PROVE Steady(o)
  <2>1. sock'[o] = sock[o]
    BY <1>7
  <2>2. sock[o].cmd # Nobody => req'[sock[o].cmd] = req[sock[o].cmd]
    BY <1>5, DeskTypes DEF SlotNames
  <2>3. QED
    BY <2>1, <2>2 DEF Steady, Alive, Opening, Ending
<1>8. Alive(c)' /\ Opening(c)' /\ ~Ending(c)'
  <2>1. sock'[c].cmd = r
    BY DEF SlotNames
  <2>2. QED
    BY <1>1, <2>1, Names DEF Alive, Opening, Ending
<1>9. ASSUME NEW o \in Channels PROVE SocketInv(o)'
  <2>1. SocketInv(o)
    BY DEF DeskInv
  <2>2. ASSUME NEW p \in SlotNames, NEW q \in Requests, sock'[o][p] = q
        PROVE  /\ req'[q].out /\ ~InPort(q)' /\ req'[q].chan = o /\ Slot(req'[q].cmd) = p
               /\ ClientOf(q) = sock'[o].client
    <3>1. CASE o = c
      <4>1. q = r /\ p = "cmd"
        BY <2>2, <3>1, Names
      <4>2. QED
        BY <1>1, <1>2, <3>1, <4>1 DEF Slot, Dirs
    <3>2. CASE o # c
      <4>1. sock[o][p] = q /\ q # r /\ sock'[o] = sock[o] /\ req'[q] = req[q]
        BY <1>5, <2>2, <3>2
      <4>2. QED
        BY <1>2, <2>1, <4>1 DEF SocketInv
    <3>3. QED
      BY <3>1, <3>2
  <2>3. ASSUME Alive(o)' PROVE client'[sock'[o].client].chan = o \/ Opening(o)'
    <3>1. CASE o = c
      BY <1>8, <3>1
    <3>2. CASE o # c
      <4>1. Alive(o) /\ sock'[o].client = sock[o].client /\ sock[o].client \in Clients
        BY <2>3, <3>2, DeskTypes DEF Alive
      <4>2. QED
        BY <1>7, <2>1, <3>2, <4>1 DEF SocketInv, Steady
    <3>3. QED
      BY <3>1, <3>2
  <2>4. QED
    BY <2>2, <2>3 DEF SocketInv
<1>10. ASSUME NEW k \in Clients PROVE ClientInv(k)'
  <2>1. ClientInv(k)
    BY DEF DeskInv
  <2>2. /\ client[k].chan # NoChannel => client[k].chan \in Channels
        /\ client[k].mask \subseteq Channels
    BY DEF EngineTypes, EngineTypeOK, Client
  <2>3. client[k].chan # c
    BY <2>1, Names DEF ClientInv, Alive
  <2>4. c \notin client[k].mask
    BY <2>1, Names DEF ClientInv, Alive
  <2>5. \A o \in client'[k].mask : sock'[o].client = k
    BY <2>1, <2>2, <2>4 DEF ClientInv, MasksAdd
  <2>6. QED
    BY <2>1, <2>2, <2>3, <2>5 DEF ClientInv
<1>11. DeskInv'
  BY <1>2, <1>3, <1>6, <1>9, <1>10 DEF DeskInv
<1>12. QED
  BY <1>7, <1>8, <1>11

----------------------------------------------------------------------------
(* The steps of a channel, its copy and its socket *)

LEMMA OpenOutcome ==
  ASSUME DeviceInv, NEW c \in Channels, NEW number, CmdOpen(c, number)
  PROVE  /\ DeviceInv' /\ halted' = halted
         /\ chn'[c].state \in {"ACTIVE", "OPENING", "OPEN_ERROR"}
         /\ \A o \in Channels : o # c => chn'[o] = chn[o]
<1> DEFINE k == chn[c]
<1>1. k \in Channel
  BY DEF DeviceInv, TypeOK
<1>2. OneChange(c) /\ halted' = halted
  BY CmdOpenLegit DEF OneChange
<1>3. DeviceInv' /\ \A o \in Channels : o # c => chn'[o] = chn[o]
  BY <1>2, DeviceStep
<1>4. ASSUME NEW e, Becomes(c, {Notify(SetOpenError(k, e))})
      PROVE  chn'[c].state = "OPEN_ERROR"
  <2>1. chn'[c] = Notify(SetOpenError(k, e))
    BY <1>4, BecomesOne
  <2>2. QED
    BY <1>1, <2>1 DEF Notify, SetOpenError, Channel
<1>5. ASSUME NEW srv \in Services, NEW sl \in FreeSlots(srv),
             Becomes(c, OpenWork([k EXCEPT !.service = srv, !.slot = sl,
                                           !.mtu = HandlerOf(srv).defMtu]))
      PROVE  chn'[c].state \in {"ACTIVE", "OPENING", "OPEN_ERROR"}
  <2> DEFINE m  == HandlerOf(srv).defMtu
             k1 == [k EXCEPT !.service = srv, !.slot = sl, !.mtu = m]
  <2>1. m \in Nat
    BY HandlerType DEF HandlerRec
  <2>2. sl \in 0 .. EmptySlot
    BY SlotNumbers
  <2>3. chn'[c] \in OpenWork(k1)
    BY <1>5, BecomesOne
  <2> HIDE DEF m
  <2>4. k1 \in Channel
    BY <1>1, <2>1, <2>2 DEF Channel
  <2> HIDE DEF k1
  <2>5. QED
    BY <2>3, <2>4, OpenWorkState
<1>6. \/ chn'[c].state = "OPEN_ERROR"
      \/ chn'[c].state \in {"ACTIVE", "OPENING", "OPEN_ERROR"}
  BY <1>4, <1>5 DEF CmdOpen
<1>7. QED
  BY <1>2, <1>3, <1>6

LEMMA CloseDoneState ==
  ASSUME NEW k \in Channel
  PROVE  CloseDone(k).state = "INACTIVE" /\ CloseDone(k).service = NoService
<1> DEFINE bits == [d \in Dirs |-> {}]
<1>1. CloseDone(k) = Notify([k EXCEPT !.state = "INACTIVE", !.bits = bits,
                                      !.service = NoService, !.slot = EmptySlot])
  BY DEF CloseDone
<1> HIDE DEF bits
<1>2. QED
  BY <1>1 DEF Notify, Channel

(* What a close leads to: the channel is free, or the firmware hangs.      *)
Closes(c) ==
  \/ chn'[c].state = "INACTIVE" /\ chn'[c].service = NoService
  \/ chn'[c] = chn[c] /\ halted'

LEMMA CloseOutcome ==
  ASSUME Orderly, DeviceInv, NEW c \in Channels, CmdClose(c)
  PROVE  /\ DeviceInv' /\ ~halted /\ Closes(c)
         /\ \A o \in Channels : o # c => chn'[o] = chn[o]
<1> DEFINE k == chn[c]
<1>1. k \in Channel
  BY DEF DeviceInv, TypeOK
<1>2. OneChange(c) \/ KeepsAll
  BY CmdCloseLegit
<1>3. DeviceInv' /\ \A o \in Channels : o # c => chn'[o] = chn[o]
  BY <1>2, DeviceStep
<1>4. ASSUME Bound(c), Becomes(c, CloseWork(k)) PROVE Closes(c)
  <2>1. chn'[c] \in CloseWork(k)
    BY <1>4, BecomesOne
  <2>2. k.service \in Services
    BY <1>1, <1>4 DEF Channel, Bound
  <2>3. HandlerOf(k.service).close = {"ok"}
    BY <2>2 DEF Orderly
  <2>4. chn'[c] = CloseDone([k EXCEPT !.session = "none"])
    BY <2>1, <2>3 DEF CloseWork, Close
  <2>5. [k EXCEPT !.session = "none"] \in Channel
    BY <1>1 DEF Channel
  <2>6. QED
    BY <2>4, <2>5, CloseDoneState DEF Closes
<1>5. ASSUME Becomes(c, {CloseDone(k)}) PROVE Closes(c)
  <2>1. chn'[c] = CloseDone(k)
    BY <1>5, BecomesOne
  <2>2. QED
    BY <1>1, <2>1, CloseDoneState DEF Closes
<1>6. Hang => Closes(c)
  BY DEF Hang, Closes
<1>7. ~halted /\ Closes(c)
  BY <1>4, <1>5, <1>6 DEF CmdClose
<1>8. QED
  BY <1>3, <1>7

(* A channel whose socket, copy and turn stay as they are, while the       *)
(* firmware runs.                                                          *)
LEMMA ChannelKept ==
  ASSUME NEW c \in Channels, ChannelInv(c), Steady(c),
         chn'[c] = chn[c] \/ Runs(chn[c], chn'[c]), halted => halted',
         lib'[c].view = lib[c].view,
         c \in todo' <=> c \in todo, c \in pend' <=> c \in pend
  PROVE  ChannelInv(c)'
<1> DEFINE k  == chn[c]
           k2 == chn'[c]
<1>1. /\ k.state # "CLOSING"
      /\ k.state = "INACTIVE" => ~Bound(c)
      /\ k.state # "INACTIVE" \/ k.event \/ c \in todo => Alive(c)
      /\ Alive(c) /\ k.state = "INACTIVE" => Ending(c)
      /\ Ending(c) => k.state = "INACTIVE" \/ halted
      /\ k.state \in {"OPENING", "OPEN_ERROR"} => Opening(c)
      /\ c \in todo /\ k.state = "INACTIVE" => ~k.event
  BY DEF ChannelInv
<1>2. /\ lib[c].view = "INACTIVE" /\ Alive(c) => Opening(c) \/ Fresh(c)
      /\ Fresh(c) => /\ lib[c].view = "INACTIVE" => k.state = "INACTIVE"
                     /\ lib[c].view = "ACTIVE" => k.state \notin {"OPENING", "OPEN_ERROR"}
                     /\ lib[c].view = "OPEN_ERROR" => Opening(c)
                     /\ Ending(c) => lib[c].view = "INACTIVE" \/ halted
  BY DEF ChannelInv
<1>3. /\ Alive(c)' <=> Alive(c)
      /\ Opening(c)' <=> Opening(c)
      /\ Ending(c)' <=> Ending(c)
      /\ Fresh(c)' <=> Fresh(c)
  BY DEF Steady, Fresh
<1>4. /\ k2.state = "INACTIVE" <=> k.state = "INACTIVE"
      /\ k.state = "INACTIVE" => k2 = k
      /\ k2.state # "CLOSING"
      /\ k2.state \in {"OPENING", "OPEN_ERROR"} => k.state \in {"OPENING", "OPEN_ERROR"}
  BY <1>1 DEF Runs
<1>5. k2.state = "INACTIVE" => ~Bound(c)'
  BY <1>1, <1>4 DEF Bound
<1>6. /\ k2.state # "INACTIVE" \/ k2.event \/ c \in todo' => Alive(c)'
      /\ Alive(c)' /\ k2.state = "INACTIVE" => Ending(c)'
      /\ Ending(c)' => k2.state = "INACTIVE" \/ halted'
      /\ k2.state \in {"OPENING", "OPEN_ERROR"} => Opening(c)'
      /\ c \in todo' /\ k2.state = "INACTIVE" => ~k2.event
  <2> HIDE DEF k, k2
  <2>1. QED
    BY <1>1, <1>3, <1>4
<1>7. /\ lib'[c].view = "INACTIVE" /\ Alive(c)' => Opening(c)' \/ Fresh(c)'
      /\ Fresh(c)' => /\ lib'[c].view = "INACTIVE" => k2.state = "INACTIVE"
                      /\ lib'[c].view = "ACTIVE" => k2.state \notin {"OPENING", "OPEN_ERROR"}
                      /\ lib'[c].view = "OPEN_ERROR" => Opening(c)'
                      /\ Ending(c)' => lib'[c].view = "INACTIVE" \/ halted'
  <2> HIDE DEF k, k2
  <2>1. QED
    BY <1>2, <1>3, <1>4
<1>8. QED
  BY <1>4, <1>5, <1>6, <1>7 DEF ChannelInv

(* The event mask is read.                                                 *)
LEMMA ChannelMasked ==
  ASSUME DeviceInv, NEW c \in Channels, ChannelInv(c), Steady(c), LibFetchEvents,
         todo = {}, todo' = EventMask
  PROVE  ChannelInv(c)'
<1> DEFINE k  == chn[c]
           k2 == chn'[c]
<1>1. k2 = [k EXCEPT !.event = FALSE] /\ halted' = halted /\ k \in Channel
  BY DEF LibFetchEvents, CmdEventMask, DeviceInv, TypeOK
<1>2. k2.state = k.state /\ k2.service = k.service /\ ~k2.event
  BY <1>1 DEF Channel
<1>3. pend' = todo' /\ lib' = lib /\ (c \in todo' => k.event)
  BY DEF LibFetchEvents, EventMask
<1>4. ~Fresh(c)' /\ ~Fresh(c)
  BY <1>3 DEF Fresh
<1>5. /\ Alive(c)' <=> Alive(c)
      /\ Opening(c)' <=> Opening(c)
      /\ Ending(c)' <=> Ending(c)
  BY DEF Steady
<1>6. k2.state = "INACTIVE" => ~Bound(c)'
  BY <1>2 DEF ChannelInv, Bound
<1>7. QED
  BY <1>1, <1>2, <1>3, <1>4, <1>5, <1>6 DEF ChannelInv

(* pamela_update: the copy of the status is refreshed.                     *)
LEMMA ChannelUpdated ==
  ASSUME NEW c \in Channels, ChannelInv(c), Steady(c), c \in todo, c \notin pend',
         chn' = chn, halted' = halted, todo' = todo, lib'[c].view = chn[c].state
  PROVE  ChannelInv(c)'
<1>1. /\ Alive(c)' <=> Alive(c)
      /\ Opening(c)' <=> Opening(c)
      /\ Ending(c)' <=> Ending(c)
      /\ Bound(c)' <=> Bound(c)
      /\ Fresh(c)'
  BY DEF Steady, Fresh, Bound
<1>2. QED
  BY <1>1 DEF ChannelInv

(* handle_socket_status of a channel that is active or inactive now, or in *)
(* any other state but OPEN_ERROR.                                         *)
LEMMA ChannelHandled ==
  ASSUME NEW c \in Channels, ChannelInv(c), Alive(c), Fresh(c), chn'[c] = chn[c],
         halted' = halted, lib'[c].view = lib[c].view, c \notin todo',
         \/ lib[c].view = "ACTIVE" /\ ~halted /\ Alive(c)' /\ ~Opening(c)' /\ ~Ending(c)'
         \/ lib[c].view = "INACTIVE" /\ ~Alive(c)' /\ ~Opening(c)' /\ ~Ending(c)'
         \/ lib[c].view # "INACTIVE" /\ Steady(c)
  PROVE  ChannelInv(c)'
<1>1. ~Fresh(c)' /\ (Bound(c)' <=> Bound(c))
  BY DEF Fresh, Bound
<1>2. CASE lib[c].view = "ACTIVE" /\ ~halted /\ Alive(c)' /\ ~Opening(c)' /\ ~Ending(c)'
  BY <1>1, <1>2 DEF ChannelInv
<1>3. CASE lib[c].view = "INACTIVE" /\ ~Alive(c)' /\ ~Opening(c)' /\ ~Ending(c)'
  <2>1. chn[c].state = "INACTIVE" /\ ~chn[c].event
    BY <1>3 DEF ChannelInv, Fresh
  <2>2. QED
    BY <1>1, <1>3, <2>1 DEF ChannelInv
<1>4. CASE lib[c].view # "INACTIVE" /\ Steady(c)
  <2>1. /\ Alive(c)' <=> Alive(c)
        /\ Opening(c)' <=> Opening(c)
        /\ Ending(c)' <=> Ending(c)
    BY <1>4 DEF Steady
  <2>2. QED
    BY <1>1, <1>4, <2>1 DEF ChannelInv
<1>5. QED
  BY <1>2, <1>3, <1>4

(* A close, of a client's channel or of one that could not be opened.      *)
LEMMA ChannelClosed ==
  ASSUME NEW c \in Channels, ChannelInv(c), Closes(c), Alive(c)', Ending(c)',
         \/ Opening(c)'
         \/ chn[c].state \notin {"OPENING", "OPEN_ERROR"} /\ lib[c].view # "INACTIVE",
         lib'[c].view = lib[c].view, lib[c].view # "INACTIVE", c \notin todo'
  PROVE  ChannelInv(c)'
<1>1. ~Fresh(c)'
  BY DEF Fresh
<1>2. CASE chn'[c].state = "INACTIVE" /\ chn'[c].service = NoService
  <2>1. ~Bound(c)'
    BY <1>2 DEF Bound
  <2>2. QED
    BY <1>1, <1>2, <2>1 DEF ChannelInv
<1>3. CASE chn'[c] = chn[c] /\ halted'
  <2>1. Bound(c)' <=> Bound(c)
    BY <1>3 DEF Bound
  <2>2. QED
    BY <1>1, <1>3, <2>1 DEF ChannelInv
<1>4. QED
  BY <1>2, <1>3 DEF Closes

(* A free channel is opened.                                               *)
LEMMA ChannelOpened ==
  ASSUME NEW c \in Channels, Alive(c)', Opening(c)', ~Ending(c)', c \notin todo',
         chn'[c].state \in {"ACTIVE", "OPENING", "OPEN_ERROR"}
  PROVE  ChannelInv(c)'
<1>1. ~Fresh(c)'
  BY DEF Fresh
<1>2. QED
  BY <1>1 DEF ChannelInv

----------------------------------------------------------------------------
(* The library's records *)

(* A call of the library changes no copy of a state.                       *)
LibKeeps ==
  /\ LibTypeOK' /\ \A c \in Channels : lib'[c].view = lib[c].view

LEMMA LibStays == ASSUME LibTypeOK, lib' = lib, pend' = pend PROVE LibKeeps
  BY DEF LibKeeps, LibTypeOK

LEMMA LibMtu ==
  ASSUME LibTypeOK, NEW c \in Channels, NEW m \in Nat,
         lib' = [lib EXCEPT ![c].mtu = m], pend' = pend
  PROVE  LibKeeps
<1> DEFINE l == [lib[c] EXCEPT !.mtu = m]
<1>1. lib' = [lib EXCEPT ![c] = l]
  BY DEF LibTypeOK
<1>2. l \in LibChannel /\ l.view = lib[c].view
  BY DEF LibTypeOK, LibChannel
<1> HIDE DEF l
<1>3. QED
  BY <1>1, <1>2 DEF LibKeeps, LibTypeOK

LEMMA LibTransfer ==
  ASSUME LibTypeOK, NEW c \in Channels, NEW d \in Dirs, NEW n \in Nat, NEW S \in SUBSET Bits,
         lib' = [lib EXCEPT ![c].left[d] = n, ![c].bits[d] = S], pend' = pend
  PROVE  LibKeeps
<1> DEFINE l0 == [lib[c] EXCEPT !.left = [lib[c].left EXCEPT ![d] = n]]
           l  == [l0 EXCEPT !.bits = [lib[c].bits EXCEPT ![d] = S]]
<1>1. lib[c] \in LibChannel
  BY DEF LibTypeOK
<1>2. lib' = [lib EXCEPT ![c] = l]
  BY <1>1 DEF LibTypeOK, LibChannel
<1>3. [lib[c].left EXCEPT ![d] = n] \in [Dirs -> Nat]
  BY <1>1 DEF LibChannel
<1>4. l0 \in LibChannel /\ l0.view = lib[c].view
  BY <1>1, <1>3 DEF LibChannel
<1>5. [lib[c].bits EXCEPT ![d] = S] \in [Dirs -> SUBSET Bits]
  BY <1>1 DEF LibChannel
<1> HIDE DEF l0
<1>6. l \in LibChannel /\ l.view = lib[c].view
  BY <1>4, <1>5 DEF LibChannel
<1> HIDE DEF l
<1>7. QED
  BY <1>2, <1>6 DEF LibKeeps, LibTypeOK

LEMMA LibTypes ==
  ASSUME LibTypeOK, NEW c \in Channels, NEW d \in Dirs
  PROVE  /\ lib[c] \in LibChannel /\ lib[c].left[d] \in Nat /\ lib[c].mtu \in Nat
         /\ lib[c].bits[d] \subseteq Bits
  BY DEF LibTypeOK, LibChannel

LEMMA LibRequestKeeps ==
  ASSUME LibTypeOK, NEW c \in Channels, NEW d \in Dirs, NEW size \in Nat,
         LibRequest(c, d, size), pend' = pend
  PROVE  LibKeeps
<1> DEFINE S == lib[c].bits[d] \cup {"PRE"}
<1>1. S \in SUBSET Bits
  BY LibTypes DEF Bits
<1>2. lib' = [lib EXCEPT ![c].left[d] = size, ![c].bits[d] = S]
  BY DEF LibRequest, LibTypeOK, LibChannel
<1> HIDE DEF S
<1>3. QED
  BY <1>1, <1>2, LibTransfer

LEMMA LibSetupKeeps ==
  ASSUME LibTypeOK, DeviceInv, NEW c \in Channels, NEW d \in Dirs, LibSetup(c, d), pend' = pend
  PROVE  LibKeeps
<1> DEFINE n == SetupSize(c, d)
           S == IF n = 0 THEN {} ELSE lib[c].bits[d]
<1>1. n \in Nat
  <2>1. chn[c].buf[d].size \in Nat
    BY DEF DeviceInv, TypeOK, Channel, Buf
  <2>2. QED
    BY <2>1, LibTypes DEF SetupSize
<1>2. S \in SUBSET Bits
  BY LibTypes
<1>3. lib' = [lib EXCEPT ![c].left[d] = n, ![c].bits[d] = S]
  BY DEF LibSetup, LibTypeOK, LibChannel
<1> HIDE DEF n, S
<1>4. QED
  BY <1>1, <1>2, <1>3, LibTransfer

LEMMA LibBlockKeeps ==
  ASSUME LibTypeOK, NEW c \in Channels, NEW d \in Dirs, LibBlock(c, d), pend' = pend
  PROVE  LibKeeps
<1> DEFINE n == LeftAfterBlock(c, d)
           S == IF n = 0 THEN {} ELSE lib[c].bits[d]
<1>1. n \in Nat
  BY LibTypes DEF LeftAfterBlock, BlockSize, Smaller
<1>2. S \in SUBSET Bits
  BY LibTypes
<1>3. lib' = [lib EXCEPT ![c].left[d] = n, ![c].bits[d] = S]
  BY DEF LibBlock, LibTypeOK, LibChannel
<1> HIDE DEF n, S
<1>4. QED
  BY <1>1, <1>2, <1>3, LibTransfer

----------------------------------------------------------------------------
(* The invariant holds at first *)

LEMMA FreshChannelsInv ==
  ASSUME DeviceInv, NEW c \in Channels, chn = FreshChannels, lib = FreshLib,
         sock[c] = ClosedSocket, c \notin todo
  PROVE  ChannelInv(c)
<1>1. ~Alive(c) /\ ~Opening(c) /\ ~Ending(c) /\ ~Fresh(c)
  BY DEF Alive, Opening, Ending, Fresh, ClosedSocket
<1>2. chn[c].state = "INACTIVE" /\ ~chn[c].event /\ ~Bound(c)
  BY DEF FreshChannels, Bound
<1>3. QED
  BY <1>1, <1>2 DEF ChannelInv

LEMMA FreshTypes ==
  /\ FreshLib \in [Channels -> LibChannel]
  /\ ClosedSocket \in Socket /\ [c \in Channels |-> ClosedSocket] \in [Channels -> Socket]
  /\ \A res \in Answers : Back(res) \in Request
<1>1. [d \in Dirs |-> {}] \in [Dirs -> SUBSET Bits] /\ [d \in Dirs |-> 0] \in [Dirs -> Nat]
  OBVIOUS
<1>2. FreshLib \in [Channels -> LibChannel]
  BY <1>1 DEF FreshLib, LibChannel, States, PassiveStates
<1>3. ClosedSocket \in Socket
  BY DEF ClosedSocket, Socket, States, PassiveStates
<1>4. \A res \in Answers : Back(res) \in Request
  BY DEF Back, Request, Commands
<1>5. QED
  BY <1>2, <1>3, <1>4

(* Nobody has anything out, and no socket is open.                         *)
LEMMA EmptyDesk ==
  ASSUME \A r \in Requests : ~req[r].out, port = <<>>,
         \A c \in Channels : sock[c] = ClosedSocket,
         \A cl \in Clients : client[cl].chan = NoChannel /\ client[cl].mask = {}
  PROVE  DeskInv
<1>1. \A q : ~InPort(q)
  BY DEF InPort
<1>2. \A r \in Requests : RequestInv(r)
  BY <1>1 DEF RequestInv
<1>3. ASSUME NEW c \in Channels PROVE SocketInv(c)
  <2>1. \A p \in SlotNames : sock[c][p] = Nobody
    BY DEF ClosedSocket, SlotNames
  <2>2. ~Alive(c)
    BY DEF Alive, ClosedSocket
  <2>3. QED
    BY <2>1, <2>2, Names DEF SocketInv
<1>4. \A cl \in Clients : ClientInv(cl)
  BY DEF ClientInv
<1>5. OpensInv /\ PortInv
  BY DEF OpensInv, PortInv
<1>6. QED
  BY <1>2, <1>3, <1>4, <1>5 DEF DeskInv

LEMMA EngineInitInv == EngineInit => EngineInv
<1> SUFFICES ASSUME EngineInit PROVE EngineInv
  OBVIOUS
<1>1. DeviceInv
  BY InitInv DEF EngineInit
<1>2. /\ lib = FreshLib /\ pend = {} /\ todo = {} /\ port = <<>>
      /\ chn = FreshChannels
      /\ client = [cl \in Clients |-> [dev |-> FALSE, chan |-> NoChannel, mask |-> {}]]
      /\ req = [r \in Requests |-> Back("ok")]
      /\ sock = [c \in Channels |-> ClosedSocket]
      /\ at = "off" /\ woken = {} /\ passed = {} /\ portSig = FALSE /\ moving = FALSE
  BY DEF EngineInit, LibInit, DeviceInit
<1>3. EngineTypes
  <2>1. LibTypeOK
    BY <1>2, FreshTypes DEF LibTypeOK
  <2>2. client \in [Clients -> Client]
    BY <1>2 DEF Client
  <2>3. req \in [Requests -> Request]
    BY <1>2, FreshTypes DEF Answers
  <2>4. sock \in [Channels -> Socket]
    BY <1>2, FreshTypes
  <2>5. port \in Seq(Requests)
    BY <1>2
  <2>6. /\ at \in Places /\ woken \subseteq {"port", "quit"} /\ todo \subseteq Channels
        /\ passed \subseteq Dirs /\ portSig \in BOOLEAN /\ moving \in BOOLEAN
    BY <1>2 DEF Places
  <2>7. QED
    BY <1>1, <2>1, <2>2, <2>3, <2>4, <2>5, <2>6 DEF EngineTypes, EngineTypeOK, DeviceInv
<1>4. TaskInv
  BY <1>2 DEF TaskInv, Openers
<1>5. \A c \in Channels : ChannelInv(c)
  BY <1>1, <1>2, FreshChannelsInv
<1>6. DeskInv
  <2>1. \A r \in Requests : ~req[r].out
    BY <1>2 DEF Back
  <2>2. QED
    BY <1>2, <2>1, EmptyDesk
<1>7. QED
  BY <1>1, <1>3, <1>4, <1>5, <1>6 DEF EngineInv

----------------------------------------------------------------------------
(* The engine's steps: events *)

LEMMA ReadyAll == ASSUME EngineInv, NEW c \in Channels PROVE Ready(c)
  BY DEF EngineInv, Ready, ChannelInv, DeviceInv, TypeOK

LEMMA SameDesk ==
  ASSUME EngineTypes, DeskInv, UNCHANGED <<client, req, port, sock>>
  PROVE  DeskInv' /\ \A o \in Channels : Steady(o)
<1>1. DeskInv'
  BY FailDesk
<1>2. \A o \in Channels : Steady(o)
  BY DEF Steady, Alive, Opening, Ending
<1>3. QED
  BY <1>1, <1>2

(* Nor when nothing changes in the sockets but the state they remember.    *)
LEMMA SameSlots ==
  ASSUME EngineTypes, DeskInv, UNCHANGED <<client, req, port>>,
         \A o \in Channels : sock'[o].client = sock[o].client,
         \A o \in Channels, p \in SlotNames : sock'[o][p] = sock[o][p]
  PROVE  DeskInv' /\ \A o \in Channels : Steady(o)
<1>1. DeskInv'
  BY FailDesk
<1>2. ASSUME NEW o \in Channels PROVE Steady(o)
  <2>1. sock'[o].cmd = sock[o].cmd /\ sock'[o].client = sock[o].client
    BY DEF SlotNames
  <2>2. QED
    BY <2>1 DEF Steady, Alive, Opening, Ending
<1>3. QED
  BY <1>1, <1>2

LEMMA DeviceStays == ASSUME DeviceInv, UNCHANGED deviceVars PROVE DeviceInv'
  BY StaysPreserves DEF deviceVars, KeepsAll, DeviceInv, TypeOK

(* A channel whose socket and turn stay as they are, in a step of any      *)
(* channel.                                                                *)
LEMMA RunsOn ==
  ASSUME EngineInv, NEW c \in Channels, DeviceRuns(c) \/ UNCHANGED deviceVars,
         LibKeeps, NEW o \in Channels, Steady(o),
         o \in todo' <=> o \in todo, o \in pend' <=> o \in pend
  PROVE  DeviceInv' /\ ChannelInv(o)'
<1>1. DeviceInv'
  BY DeviceStays DEF DeviceRuns, EngineInv
<1>2. chn'[o] = chn[o] \/ Runs(chn[o], chn'[o])
  BY DEF DeviceRuns, deviceVars
<1>3. halted => halted'
  BY DEF DeviceRuns, deviceVars
<1>4. ChannelInv(o) /\ lib'[o].view = lib[o].view
  BY DEF EngineInv, LibKeeps
<1>5. QED
  BY <1>1, <1>2, <1>3, <1>4, ChannelKept

(* The types of what the engine's task keeps to itself.                    *)
LEMMA TypesFollow ==
  ASSUME EngineTypes, DeviceInv', LibTypeOK',
         client' \in [Clients -> Client], req' \in [Requests -> Request],
         sock' \in [Channels -> Socket], port' \in Seq(Requests),
         at' \in Places, woken' \subseteq {"port", "quit"}, todo' \subseteq Channels,
         passed' \subseteq Dirs, portSig' \in BOOLEAN, moving' \in BOOLEAN
  PROVE  EngineTypes'
  BY DEF EngineTypes, EngineTypeOK, DeviceInv

LEMMA SignalsType == Signals \subseteq {"port", "quit"}
  BY DEF Signals

LEMMA WakeForEventsStep == ASSUME EngineInv, WakeForEvents PROVE EngineInv'
<1>1. /\ at = "wait" /\ at' = "events" /\ woken' = Signals /\ portSig' = FALSE
      /\ CmdEventMask /\ LibFetchEvents /\ pend' = EventMask /\ lib' = lib
      /\ todo' = EventMask /\ passed' = passed /\ moving' = moving
      /\ client' = client /\ req' = req /\ sock' = sock /\ port' = port
  BY DEF WakeForEvents, LibFetchEvents
<1>2. DeviceInv'
  BY <1>1, EventMaskPreserves DEF EngineInv
<1>3. DeskInv' /\ \A o \in Channels : Steady(o)
  BY <1>1, SameDesk DEF EngineInv
<1>4. \A o \in Channels : ChannelInv(o)'
  <2>1. todo = {}
    BY <1>1 DEF EngineInv, TaskInv
  <2>2. QED
    BY <1>1, <1>3, <2>1, ChannelMasked DEF EngineInv
<1>5. TaskInv'
  <2>1. "quit" \in Signals => Openers = {}
    BY DEF Signals
  <2>2. Openers' = Openers
    BY <1>1 DEF Openers
  <2>3. QED
    BY <1>1, <2>1, <2>2 DEF TaskInv
<1>6. EngineTypes'
  <2>1. EventMask \subseteq Channels
    BY DEF EventMask
  <2>2. LibTypeOK'
    BY <1>1, <2>1 DEF EngineInv, EngineTypes, EngineTypeOK, LibTypeOK
  <2>3. QED
    BY <1>1, <1>2, <2>1, <2>2, SignalsType, TypesFollow
       DEF EngineInv, EngineTypes, EngineTypeOK, Places
<1>7. QED
  BY <1>2, <1>3, <1>4, <1>5, <1>6 DEF EngineInv

(* A step that leaves the desk alone and the engine's task where it was,   *)
(* or moves it between wait and port.                                      *)
LEMMA QuietStep ==
  ASSUME EngineInv, UNCHANGED <<client, req, port, sock, todo, pend, passed>>,
         NEW c \in Channels, DeviceRuns(c) \/ UNCHANGED deviceVars, LibKeeps, TaskInv',
         at' \in Places, woken' \subseteq {"port", "quit"},
         portSig' \in BOOLEAN, moving' \in BOOLEAN
  PROVE  EngineInv'
<1>1. DeskInv' /\ \A o \in Channels : Steady(o)
  BY SameDesk DEF EngineInv
<1>2. DeviceInv' /\ \A o \in Channels : ChannelInv(o)'
  BY <1>1, RunsOn
<1>3. EngineTypes'
  BY <1>2, TypesFollow DEF EngineInv, EngineTypes, EngineTypeOK, LibKeeps
<1>4. QED
  BY <1>1, <1>2, <1>3 DEF EngineInv

LEMMA ZeroIsChannel == 0 \in Channels
  BY DeviceAssumption DEF Channels

LEMMA WakeForOthersStep == ASSUME EngineInv, WakeForOthers PROVE EngineInv'
<1>1. /\ at = "wait" /\ at' = "port" /\ woken' = Signals /\ portSig' = FALSE
      /\ UNCHANGED <<deviceVars, lib, pend, client, req, sock, port, todo, passed, moving>>
  BY DEF WakeForOthers, libVars
<1>2. LibKeeps
  BY <1>1, LibStays DEF EngineInv, EngineTypes, EngineTypeOK
<1>3. TaskInv'
  <2>1. "quit" \in Signals => Openers = {}
    BY DEF Signals
  <2>2. Openers' = Openers
    BY <1>1 DEF Openers
  <2>3. QED
    BY <1>1, <2>1, <2>2 DEF EngineInv, TaskInv
<1>4. QED
  BY <1>1, <1>2, <1>3, QuietStep, SignalsType, ZeroIsChannel
     DEF Places, EngineInv, EngineTypes, EngineTypeOK

LEMMA TakeNothingStep == ASSUME EngineInv, TakeNothing PROVE EngineInv'
<1>1. /\ at = "port" /\ at' = AfterPort /\ woken' = {}
      /\ UNCHANGED <<deviceVars, lib, pend, client, req, sock, port, portSig, todo, passed, moving>>
  BY DEF TakeNothing, libVars
<1>2. LibKeeps
  BY <1>1, LibStays DEF EngineInv, EngineTypes, EngineTypeOK
<1>3. at' \in {"off", "wait"} /\ (at' = "off" => "quit" \in woken)
  BY <1>1 DEF AfterPort
<1>4. TaskInv'
  <2>1. Openers' = Openers
    BY <1>1 DEF Openers
  <2>2. QED
    BY <1>1, <1>3, <2>1 DEF EngineInv, TaskInv
<1>5. QED
  BY <1>1, <1>2, <1>3, <1>4, QuietStep, ZeroIsChannel
     DEF Places, EngineInv, EngineTypes, EngineTypeOK

LEMMA EngineWorkStep ==
  ASSUME EngineInv, NEW c \in Channels, EngineWork(c) PROVE EngineInv'
<1>1. /\ Work(c)
      /\ UNCHANGED <<lib, pend, client, req, sock, port, portSig, at, woken, todo, passed, moving>>
  BY DEF EngineWork, libVars, engineTask
<1>2. DeviceRuns(c)
  BY <1>1, ReadyAll, WorkRuns
<1>3. LibKeeps
  BY <1>1, LibStays DEF EngineInv, EngineTypes, EngineTypeOK
<1>4. TaskInv'
  BY <1>1 DEF EngineInv, TaskInv, Openers
<1>5. QED
  BY <1>1, <1>2, <1>3, <1>4, QuietStep DEF EngineInv, EngineTypes, EngineTypeOK

LEMMA UpdateChannelStep ==
  ASSUME EngineInv, NEW c \in Channels, UpdateChannel(c) PROVE EngineInv'
<1> DEFINE l == [lib[c] EXCEPT !.view = chn[c].state, !.bits = chn[c].bits]
<1>1. /\ at = "events" /\ c \in pend /\ pend' = pend \ {c} /\ UNCHANGED deviceVars
      /\ lib' = [lib EXCEPT ![c].view = chn[c].state, ![c].bits = chn[c].bits]
      /\ UNCHANGED <<client, req, sock, port, portSig, at, woken, todo, passed, moving>>
  BY DEF UpdateChannel, LibUpdate, engineTask
<1>2. DeviceInv' /\ chn' = chn /\ halted' = halted
  BY <1>1, DeviceStays DEF EngineInv, deviceVars
<1>3. /\ lib \in [Channels -> LibChannel] /\ lib' = [lib EXCEPT ![c] = l]
      /\ l \in LibChannel /\ l.view = chn[c].state
  <2>1. lib \in [Channels -> LibChannel] /\ lib[c] \in LibChannel
    BY DEF EngineInv, EngineTypes, EngineTypeOK, LibTypeOK
  <2>2. chn[c].state \in States /\ chn[c].bits \in [Dirs -> SUBSET Bits]
    BY DEF EngineInv, DeviceInv, TypeOK, Channel
  <2>3. QED
    BY <1>1, <2>1, <2>2 DEF LibChannel
<1> HIDE DEF l
<1>4. /\ lib'[c].view = chn[c].state
      /\ \A o \in Channels : o # c => lib'[o] = lib[o]
      /\ LibTypeOK'
  BY <1>1, <1>3 DEF EngineInv, EngineTypes, EngineTypeOK, LibTypeOK
<1>5. DeskInv' /\ \A o \in Channels : Steady(o)
  BY <1>1, SameDesk DEF EngineInv
<1>6. ASSUME NEW o \in Channels PROVE ChannelInv(o)'
  <2>1. ChannelInv(o) /\ Steady(o) /\ pend \subseteq todo
    BY <1>5 DEF EngineInv, TaskInv
  <2>2. CASE o = c
    <3>1. c \in todo /\ c \notin pend' /\ todo' = todo
      BY <1>1, <2>1
    <3>2. QED
      BY <1>2, <1>4, <2>1, <2>2, <3>1, ChannelUpdated
  <2>3. CASE o # c
    <3>1. (o \in todo' <=> o \in todo) /\ (o \in pend' <=> o \in pend)
      BY <1>1, <2>3
    <3>2. QED
      BY <1>2, <1>4, <2>1, <2>3, <3>1, ChannelKept
  <2>4. QED
    BY <2>2, <2>3
<1>7. TaskInv'
  BY <1>1 DEF EngineInv, TaskInv, Openers
<1>8. EngineTypes'
  BY <1>1, <1>2, <1>4, TypesFollow DEF EngineInv, EngineTypes, EngineTypeOK
<1>9. QED
  BY <1>2, <1>5, <1>6, <1>7, <1>8 DEF EngineInv

(* Replies, and a new occupant of a slot.                                  *)
LEMMA RepliedTo ==
  ASSUME EngineTypes, NEW S, NEW res \in Answers
  PROVE  /\ Replied(S, res) \in [Requests -> Request]
         /\ \A q \in Requests : Replied(S, res)[q] = IF q \in S THEN Back(res) ELSE req[q]
         /\ ~Back(res).out
<1>1. req \in [Requests -> Request] /\ Back(res) \in Request
  BY FreshTypes DEF EngineTypes, EngineTypeOK
<1>2. ~Back(res).out
  BY DEF Back
<1>3. QED
  BY <1>1, <1>2 DEF Replied

WithSlot(c, d, x) == [sock EXCEPT ![c][d] = x]

LEMMA SlotSet ==
  ASSUME EngineTypes, NEW c \in Channels, NEW d \in SlotNames, NEW x \in Requests \cup {Nobody}
  PROVE  /\ WithSlot(c, d, x) \in [Channels -> Socket]
         /\ \A o \in Channels : WithSlot(c, d, x)[o].client = sock[o].client
         /\ \A o \in Channels, p \in SlotNames :
              WithSlot(c, d, x)[o][p] = IF o = c /\ p = d THEN x ELSE sock[o][p]
<1> DEFINE s == [sock[c] EXCEPT ![d] = x]
<1>1. sock \in [Channels -> Socket] /\ sock[c] \in Socket
  BY DEF EngineTypes, EngineTypeOK
<1>2. /\ s \in Socket /\ s.client = sock[c].client
      /\ \A p \in SlotNames : s[p] = IF p = d THEN x ELSE sock[c][p]
  <2>1. CASE d = "read"
    BY <1>1, <2>1 DEF Socket, SlotNames
  <2>2. CASE d = "write"
    BY <1>1, <2>2 DEF Socket, SlotNames
  <2>3. CASE d = "cmd"
    BY <1>1, <2>3 DEF Socket, SlotNames
  <2>4. QED
    BY <2>1, <2>2, <2>3 DEF SlotNames
<1>3. WithSlot(c, d, x) = [sock EXCEPT ![c] = s]
  BY <1>1 DEF WithSlot
<1> HIDE DEF s
<1>4. QED
  BY <1>1, <1>2, <1>3

(* The end of a transfer.                                                  *)
LEMMA EndTransferStep ==
  ASSUME EngineInv, NEW c \in Channels, NEW d \in Dirs, NEW res \in Answers,
         Turn(c, d), EndTransfer(c, d, res),
         DeviceRuns(c) \/ UNCHANGED deviceVars, LibKeeps
  PROVE  EngineInv'
<1> DEFINE S == {sock[c][d]}
<1>1. sock[c][d] # Nobody
  BY DEF Turn, Wants
<1>2. /\ req' = Replied(S, res) /\ sock' = [sock EXCEPT ![c][d] = Nobody]
      /\ passed' = passed \cup {d} /\ moving' = FALSE
      /\ UNCHANGED <<pend, client, port, portSig, at, woken, todo>>
  BY DEF EndTransfer
<1>3. EngineTypes /\ DeskInv
  BY DEF EngineInv
<1>4. S \in SUBSET Held(c)
  BY <1>1 DEF Held, Dirs
<1>5. \A q \in Requests : IF q \in S THEN ~req'[q].out ELSE req'[q] = req[q]
  BY <1>2, <1>3, RepliedTo
<1>6. /\ sock' \in [Channels -> Socket]
      /\ \A o \in Channels : sock'[o].client = sock[o].client
      /\ \A o \in Channels, p \in SlotNames :
           sock'[o][p] = IF o = c /\ p = d THEN Nobody ELSE sock[o][p]
  <2>1. sock' = WithSlot(c, d, Nobody) /\ d \in SlotNames
    BY <1>2 DEF WithSlot, Dirs, SlotNames
  <2>2. QED
    BY <1>3, <2>1, SlotSet
<1>7. \A o \in Channels, p \in SlotNames :
        sock'[o][p] = IF o = c /\ sock[o][p] \in S THEN Nobody ELSE sock[o][p]
  <2>1. d \in SlotNames
    BY DEF Dirs, SlotNames
  <2>2. \A p \in SlotNames : sock[c][p] = sock[c][d] => p = d
    BY <1>1, <1>3, <2>1, Apart
  <2>3. QED
    BY <1>6, <2>2
<1>8. DeskInv' /\ \A o \in Channels : Steady(o)
  <2> HIDE DEF S
  <2>1. QED
    BY <1>2, <1>3, <1>4, <1>5, <1>6, <1>7, CancelDesk
<1>9. DeviceInv' /\ \A o \in Channels : ChannelInv(o)'
  BY <1>2, <1>8, RunsOn
<1>10. TaskInv'
  BY <1>2 DEF EngineInv, TaskInv, Openers
<1>11. EngineTypes'
  <2>1. req' \in [Requests -> Request]
    BY <1>2, <1>3, RepliedTo
  <2>2. QED
    BY <1>2, <1>3, <1>6, <1>9, <2>1, TypesFollow DEF EngineTypes, EngineTypeOK, LibKeeps
<1>12. QED
  BY <1>8, <1>9, <1>10, <1>11 DEF EngineInv

LEMMA SetupRuns ==
  ASSUME EngineInv, NEW c \in Channels, NEW d \in Dirs, LibSetup(c, d), pend' = pend
  PROVE  (DeviceRuns(c) \/ UNCHANGED deviceVars) /\ LibKeeps
<1>1. DeviceRuns(c) \/ UNCHANGED deviceVars
  BY ReadyAll, ResRuns DEF LibSetup
<1>2. LibKeeps
  BY LibSetupKeeps DEF EngineInv, EngineTypes, EngineTypeOK
<1>3. QED
  BY <1>1, <1>2

LEMMA StartTransferStep ==
  ASSUME EngineInv, NEW c \in Channels, NEW d \in Dirs, StartTransfer(c, d) PROVE EngineInv'
<1>1. Turn(c, d)
  BY DEF StartTransfer
<1>2. ASSUME EndTransfer(c, d, "error"), UNCHANGED <<deviceVars, lib>> PROVE EngineInv'
  <2>1. LibKeeps
    BY <1>2, LibStays DEF EndTransfer, EngineInv, EngineTypes, EngineTypeOK
  <2>2. QED
    BY <1>1, <1>2, <2>1, EndTransferStep DEF Answers
<1>3. ASSUME LibSetup(c, d), EndTransfer(c, d, "ok") PROVE EngineInv'
  <2>1. pend' = pend
    BY <1>3 DEF EndTransfer
  <2>2. QED
    BY <1>1, <1>3, <2>1, SetupRuns, EndTransferStep DEF Answers
<1>4. ASSUME LibSetup(c, d), moving' = TRUE,
             UNCHANGED <<pend, client, req, sock, port, portSig, at, woken, todo, passed>>
      PROVE  EngineInv'
  <2>1. (DeviceRuns(c) \/ UNCHANGED deviceVars) /\ LibKeeps
    BY <1>4, SetupRuns
  <2>2. TaskInv'
    BY <1>4 DEF EngineInv, TaskInv, Openers
  <2>3. QED
    BY <1>4, <2>1, <2>2, QuietStep DEF EngineInv, EngineTypes, EngineTypeOK
<1>5. QED
  BY <1>2, <1>3, <1>4 DEF StartTransfer

LEMMA MoveBlockStep ==
  ASSUME EngineInv, NEW c \in Channels, NEW d \in Dirs, MoveBlock(c, d) PROVE EngineInv'
<1>1. /\ Turn(c, d) /\ LibBlock(c, d)
      /\ \/ EndTransfer(c, d, "ok")
         \/ UNCHANGED <<pend, client, req, sock, port, portSig, at, woken, todo, passed, moving>>
  BY DEF MoveBlock, engineTask
<1>2. pend' = pend
  BY <1>1 DEF EndTransfer
<1>3. DeviceRuns(c)
  BY <1>1, ReadyAll, BlkRuns DEF LibBlock
<1>4. LibKeeps
  BY <1>1, <1>2, LibBlockKeeps DEF EngineInv, EngineTypes, EngineTypeOK
<1>5. CASE EndTransfer(c, d, "ok")
  BY <1>1, <1>3, <1>4, <1>5, EndTransferStep DEF Answers
<1>6. CASE UNCHANGED <<pend, client, req, sock, port, portSig, at, woken, todo, passed, moving>>
  <2>1. TaskInv'
    BY <1>6 DEF EngineInv, TaskInv, Openers
  <2>2. QED
    BY <1>3, <1>4, <1>6, <2>1, QuietStep DEF EngineInv, EngineTypes, EngineTypeOK
<1>7. QED
  BY <1>1, <1>5, <1>6

----------------------------------------------------------------------------
(* The engine's steps: the new state of a channel *)

LEMMA SockAt ==
  ASSUME EngineTypes, NEW c \in Channels, NEW s \in Socket
  PROVE  /\ [sock EXCEPT ![c] = s] \in [Channels -> Socket]
         /\ [sock EXCEPT ![c] = s][c] = s
         /\ \A o \in Channels : o # c => [sock EXCEPT ![c] = s][o] = sock[o]
  BY DEF EngineTypes, EngineTypeOK

(* Held(c) in terms of the slots; the command is none of it.               *)
LEMMA HeldFacts ==
  ASSUME EngineTypes, DeskInv, NEW c \in Channels
  PROVE  /\ \A q \in Held(c) : q \in Requests
         /\ sock[c].cmd \notin Held(c)
         /\ sock[c].read # Nobody => sock[c].read \in Held(c)
         /\ sock[c].write # Nobody => sock[c].write \in Held(c)
<1>1. "read" \in SlotNames /\ "write" \in SlotNames /\ "cmd" \in SlotNames
  BY DEF SlotNames
<1>2. sock[c].read \in Requests \cup {Nobody} /\ sock[c].write \in Requests \cup {Nobody}
  BY <1>1, DeskTypes
<1>3. sock[c].cmd \notin Held(c)
  <2> SUFFICES ASSUME sock[c].cmd \in Held(c) PROVE FALSE
    OBVIOUS
  <2>1. sock[c].cmd # Nobody /\ (sock[c].read = sock[c].cmd \/ sock[c].write = sock[c].cmd)
    BY DEF Held
  <2>2. QED
    BY <1>1, <2>1, Apart
<1>4. QED
  BY <1>2, <1>3 DEF Held

(* What is common to all states.                                           *)
LEMMA HandleFacts ==
  ASSUME EngineInv, NEW c \in Channels, HandleState(c)
  PROVE  /\ Alive(c) /\ Fresh(c) /\ pend' = pend /\ port' = port
         /\ portSig' = portSig /\ woken' = woken /\ moving' = moving
         /\ todo' = todo \ {c} /\ passed' = {}
         /\ OnActive(c) \/ OnInactive(c) \/ OnOpenError(c) \/ OnError(c) \/ OnOther(c)
         /\ at' \in Places
         /\ (\A cl \in Clients : client'[cl].dev = client[cl].dev) => TaskInv'
<1>1. at = "events" /\ pend = {} /\ c \in todo
  BY DEF HandleState, Handles
<1>2. Alive(c) /\ Fresh(c)
  BY <1>1 DEF EngineInv, ChannelInv, Fresh
<1>3. /\ pend' = pend /\ port' = port
      /\ portSig' = portSig /\ woken' = woken /\ moving' = moving
      /\ todo' = todo \ {c} /\ passed' = {}
      /\ OnActive(c) \/ OnInactive(c) \/ OnOpenError(c) \/ OnError(c) \/ OnOther(c)
      /\ at' = IF todo = {c} THEN AfterEvents ELSE "events"
  BY <1>2 DEF HandleState, Alive
<1>4. /\ at' \in {"wait", "port", "events"}
      /\ at' # "events" => todo = {c}
      /\ at' = "wait" => woken = {}
  BY <1>3 DEF AfterEvents
<1>5. ASSUME \A cl \in Clients : client'[cl].dev = client[cl].dev PROVE TaskInv'
  <2>1. Openers' = Openers
    BY <1>5 DEF Openers
  <2>2. "quit" \in woken => Openers = {}
    BY DEF EngineInv, TaskInv
  <2>3. QED
    BY <1>1, <1>3, <1>4, <2>1, <2>2 DEF TaskInv
<1>6. QED
  BY <1>2, <1>3, <1>4, <1>5 DEF Places

(* The channel that was handled, and the others.                           *)
LEMMA HandledAll ==
  ASSUME EngineInv, NEW c \in Channels, HandleState(c), UNCHANGED deviceVars, LibKeeps,
         \A o \in Channels : o # c => Steady(o),
         \/ lib[c].view = "ACTIVE" /\ ~halted /\ Alive(c)' /\ ~Opening(c)' /\ ~Ending(c)'
         \/ lib[c].view = "INACTIVE" /\ ~Alive(c)' /\ ~Opening(c)' /\ ~Ending(c)'
         \/ lib[c].view # "INACTIVE" /\ Steady(c)
  PROVE  DeviceInv' /\ \A o \in Channels : ChannelInv(o)'
<1>1. todo' = todo \ {c} /\ pend' = pend /\ Alive(c) /\ Fresh(c)
  BY HandleFacts
<1>2. DeviceInv'
  BY DeviceStays DEF EngineInv
<1>3. ChannelInv(c)'
  <2>1. /\ chn'[c] = chn[c] /\ halted' = halted /\ lib'[c].view = lib[c].view
        /\ c \notin todo' /\ ChannelInv(c)
    BY <1>1 DEF deviceVars, LibKeeps, EngineInv
  <2>2. QED
    BY <1>1, <2>1, ChannelHandled
<1>4. ASSUME NEW o \in Channels, o # c PROVE ChannelInv(o)'
  <2>1. (o \in todo' <=> o \in todo) /\ (o \in pend' <=> o \in pend)
    BY <1>1, <1>4
  <2>2. QED
    BY <1>4, <2>1, RunsOn
<1>5. QED
  BY <1>2, <1>3, <1>4

LEMMA OnOtherStep ==
  ASSUME EngineInv, NEW c \in Channels, HandleState(c), OnOther(c) PROVE EngineInv'
<1> DEFINE s == [sock[c] EXCEPT !.last = lib[c].view]
<1>1. /\ lib[c].view # "INACTIVE" /\ sock' = [sock EXCEPT ![c].last = lib[c].view]
      /\ UNCHANGED <<deviceVars, lib, client, req>>
  BY DEF OnOther
<1>2. /\ pend' = pend /\ port' = port /\ portSig' = portSig /\ woken' = woken
      /\ moving' = moving /\ todo' = todo \ {c} /\ passed' = {} /\ at' \in Places /\ TaskInv'
  BY <1>1, HandleFacts
<1>3. EngineTypes /\ DeskInv
  BY DEF EngineInv
<1>4. /\ sock' = [sock EXCEPT ![c] = s] /\ s \in Socket /\ s.client = sock[c].client
      /\ \A p \in SlotNames : s[p] = sock[c][p]
  <2>1. sock \in [Channels -> Socket] /\ sock[c] \in Socket /\ lib[c].view \in States
    BY <1>3 DEF EngineTypes, EngineTypeOK, LibTypeOK, LibChannel
  <2>2. QED
    BY <1>1, <2>1 DEF Socket, SlotNames
<1> HIDE DEF s
<1>5. /\ sock' \in [Channels -> Socket]
      /\ \A o \in Channels : sock'[o].client = sock[o].client
      /\ \A o \in Channels, p \in SlotNames : sock'[o][p] = sock[o][p]
  BY <1>3, <1>4, SockAt
<1>6. DeskInv' /\ \A o \in Channels : Steady(o)
  BY <1>1, <1>2, <1>3, <1>5, SameSlots
<1>7. LibKeeps
  BY <1>1, <1>2, LibStays DEF EngineInv, EngineTypes, EngineTypeOK
<1>8. DeviceInv' /\ \A o \in Channels : ChannelInv(o)'
  BY <1>1, <1>6, <1>7, HandledAll
<1>9. EngineTypes'
  BY <1>1, <1>2, <1>3, <1>5, <1>7, <1>8, TypesFollow DEF EngineTypes, EngineTypeOK, LibKeeps
<1>10. QED
  BY <1>2, <1>6, <1>8, <1>9 DEF EngineInv

LEMMA OnErrorStep ==
  ASSUME EngineInv, NEW c \in Channels, HandleState(c), OnError(c) PROVE EngineInv'
<1> DEFINE S == IF sock[c].last # "ERROR" THEN Held(c) ELSE {}
           s == [sock[c] EXCEPT !.last  = "ERROR",
                                !.read  = IF @ \in S THEN Nobody ELSE @,
                                !.write = IF @ \in S THEN Nobody ELSE @]
<1>1. /\ lib[c].view = "ERROR" /\ req' = Replied(S, "error")
      /\ sock' = [sock EXCEPT ![c] = s]
      /\ UNCHANGED <<deviceVars, lib, client>>
  <2>1. sock \in [Channels -> Socket] /\ sock[c] \in Socket
    BY DEF EngineInv, EngineTypes, EngineTypeOK
  <2>2. QED
    BY <2>1 DEF OnError, Socket
<1>2. /\ pend' = pend /\ port' = port /\ portSig' = portSig /\ woken' = woken
      /\ moving' = moving /\ todo' = todo \ {c} /\ passed' = {} /\ at' \in Places /\ TaskInv'
  BY <1>1, HandleFacts
<1>3. EngineTypes /\ DeskInv
  BY DEF EngineInv
<1>4. S \in SUBSET Held(c) /\ sock[c].cmd \notin S
  BY <1>3, HeldFacts
<1> HIDE DEF S
<1>5. /\ s \in Socket /\ s.client = sock[c].client
      /\ \A p \in SlotNames : s[p] = IF sock[c][p] \in S THEN Nobody ELSE sock[c][p]
  <2>1. sock[c] \in Socket
    BY <1>3 DEF EngineTypes, EngineTypeOK
  <2>2. s \in Socket
    BY <2>1 DEF Socket, States, PassiveStates
  <2>3. s.client = sock[c].client /\ s.cmd = sock[c].cmd
    BY <2>1 DEF Socket
  <2>4. /\ s.read = IF sock[c].read \in S THEN Nobody ELSE sock[c].read
        /\ s.write = IF sock[c].write \in S THEN Nobody ELSE sock[c].write
    BY <2>1 DEF Socket
  <2> HIDE DEF s
  <2>5. QED
    BY <1>4, <2>2, <2>3, <2>4 DEF SlotNames
<1> HIDE DEF s
<1>6. /\ sock' \in [Channels -> Socket]
      /\ \A o \in Channels : sock'[o].client = sock[o].client
      /\ \A o \in Channels, p \in SlotNames :
           sock'[o][p] = IF o = c /\ sock[o][p] \in S THEN Nobody ELSE sock[o][p]
  BY <1>1, <1>3, <1>5, SockAt
<1>7. /\ \A q \in Requests : IF q \in S THEN ~req'[q].out ELSE req'[q] = req[q]
      /\ req' \in [Requests -> Request]
  BY <1>1, <1>3, RepliedTo DEF Answers
<1>8. DeskInv' /\ \A o \in Channels : Steady(o)
  BY <1>1, <1>2, <1>3, <1>4, <1>6, <1>7, CancelDesk
<1>9. LibKeeps
  BY <1>1, <1>2, LibStays DEF EngineInv, EngineTypes, EngineTypeOK
<1>10. DeviceInv' /\ \A o \in Channels : ChannelInv(o)'
  BY <1>1, <1>8, <1>9, HandledAll
<1>11. EngineTypes'
  BY <1>1, <1>2, <1>3, <1>6, <1>7, <1>9, <1>10, TypesFollow
     DEF EngineTypes, EngineTypeOK, LibKeeps
<1>12. QED
  BY <1>2, <1>8, <1>10, <1>11 DEF EngineInv

LEMMA OnActiveStep ==
  ASSUME EngineInv, NEW c \in Channels, HandleState(c), OnActive(c) PROVE EngineInv'
<1> DEFINE r == sock[c].cmd
           s == [sock[c] EXCEPT !.cmd = Nobody, !.last = "ACTIVE"]
           dev == client' \in [Clients -> Client] /\ req' \in [Requests -> Request]
<1>1. /\ lib[c].view = "ACTIVE" /\ LibGetMtu(c) /\ ~halted /\ UNCHANGED deviceVars
      /\ ReplyCmd(c, "ok", client, req)
      /\ sock' = [sock EXCEPT ![c].cmd = Nobody, ![c].last = "ACTIVE"]
  BY DEF OnActive, LibGetMtu
<1>2. /\ Alive(c) /\ Fresh(c)
      /\ pend' = pend /\ port' = port /\ portSig' = portSig /\ woken' = woken
      /\ moving' = moving /\ todo' = todo \ {c} /\ passed' = {} /\ at' \in Places
      /\ (\A cl \in Clients : client'[cl].dev = client[cl].dev) => TaskInv'
  BY HandleFacts
<1>3. EngineTypes /\ DeskInv /\ client \in [Clients -> Client] /\ req \in [Requests -> Request]
  BY DEF EngineInv, EngineTypes, EngineTypeOK
<1>4. /\ sock' = [sock EXCEPT ![c] = s] /\ s \in Socket /\ s.client = sock[c].client
      /\ \A p \in SlotNames : s[p] = IF p = "cmd" THEN Nobody ELSE sock[c][p]
  <2>1. sock \in [Channels -> Socket] /\ sock[c] \in Socket
    BY <1>3 DEF EngineTypes, EngineTypeOK
  <2>2. QED
    BY <1>1, <2>1 DEF Socket, SlotNames, States, ActiveStates
<1> HIDE DEF s
<1>5. /\ sock' \in [Channels -> Socket]
      /\ \A o \in Channels : sock'[o].client = sock[o].client
      /\ \A o \in Channels, p \in SlotNames :
           sock'[o][p] = IF o = c /\ p = "cmd" THEN Nobody ELSE sock[o][p]
  BY <1>3, <1>4, SockAt
<1>6. LibKeeps
  <2>1. lib' = [lib EXCEPT ![c].mtu = chn[c].mtu] /\ chn[c].mtu \in Nat
    BY <1>1 DEF LibGetMtu, EngineInv, DeviceInv, TypeOK, Channel
  <2>2. QED
    BY <1>2, <1>3, <2>1, LibMtu DEF EngineTypes, EngineTypeOK
<1>7. ~Ending(c)
  BY <1>1, <1>2 DEF EngineInv, ChannelInv
<1>8. ASSUME r # Nobody
      PROVE  /\ client' \in [Clients -> Client] /\ req' \in [Requests -> Request]
             /\ DeskInv' /\ \A o \in Channels : o # c => Steady(o)
             /\ Alive(c)' /\ ~Opening(c)' /\ ~Ending(c)'
             /\ \A cl \in Clients : client'[cl].dev = client[cl].dev
  <2>1. r \in Requests /\ req[r].chan = c /\ ClientOf(r) \in Clients
    BY <1>3, <1>8, CmdFacts, Names
  <2>2. client' = Knows(client, r, "ok") /\ req' = [req EXCEPT ![r] = Back("ok")]
    BY <1>1, <1>8 DEF ReplyCmd
  <2>3. req[r].cmd # "close"
    BY <1>7, <1>8 DEF Ending
  <2>4. client' = IF req[r].cmd = "open" THEN [client EXCEPT ![ClientOf(r)].chan = c] ELSE client
    BY <2>1, <2>2, <2>3 DEF Knows
  <2>5. /\ client' \in [Clients -> Client]
        /\ \A cl \in Clients :
             /\ client'[cl].dev = client[cl].dev /\ client'[cl].mask = client[cl].mask
             /\ client'[cl].chan = IF cl = ClientOf(r) /\ req[r].cmd = "open" THEN c
                                   ELSE client[cl].chan
    <3>1. CASE req[r].cmd = "open"
      BY <1>3, <2>1, <2>4, <3>1 DEF Client
    <3>2. CASE req[r].cmd # "open"
      BY <1>3, <2>4, <3>2
    <3>3. QED
      BY <3>1, <3>2
  <2>6. /\ \A q \in Requests : IF q = r THEN ~req'[q].out ELSE req'[q] = req[q]
        /\ req' \in [Requests -> Request]
    <3>1. Back("ok") \in Request /\ ~Back("ok").out
      BY FreshTypes DEF Answers, Back
    <3>2. QED
      BY <1>3, <2>1, <2>2, <3>1
  <2> HIDE DEF r
  <2>7. r = sock[c].cmd
    BY DEF r
  <2>8. QED
    BY <1>2, <1>3, <1>5, <1>7, <1>8, <2>5, <2>6, <2>7, ActiveDesk
<1>9. ASSUME r = Nobody
      PROVE  /\ client' \in [Clients -> Client] /\ req' \in [Requests -> Request]
             /\ DeskInv' /\ \A o \in Channels : o # c => Steady(o)
             /\ Alive(c)' /\ ~Opening(c)' /\ ~Ending(c)'
             /\ \A cl \in Clients : client'[cl].dev = client[cl].dev
  <2>1. client' = client /\ req' = req
    BY <1>1, <1>9 DEF ReplyCmd
  <2>2. \A o \in Channels, p \in SlotNames : sock'[o][p] = sock[o][p]
    BY <1>5, <1>9
  <2>3. DeskInv' /\ \A o \in Channels : Steady(o)
    BY <1>2, <1>3, <1>5, <2>1, <2>2, SameSlots
  <2>4. ~Opening(c) /\ ~Ending(c)
    BY <1>9 DEF Opening, Ending
  <2>5. QED
    BY <1>2, <1>3, <2>1, <2>3, <2>4 DEF Steady
<1>10. DeviceInv' /\ \A o \in Channels : ChannelInv(o)'
  BY <1>1, <1>6, <1>8, <1>9, HandledAll
<1>11. EngineTypes'
  BY <1>2, <1>3, <1>5, <1>6, <1>8, <1>9, <1>10, TypesFollow
     DEF EngineTypes, EngineTypeOK, LibKeeps
<1>12. QED
  BY <1>2, <1>8, <1>9, <1>10, <1>11 DEF EngineInv

ShutSlots(c, l) == [Shutdown(c) EXCEPT ![c].last = l]

WithChan(clients, cl, x) == [clients EXCEPT ![cl].chan = x]

LEMMA ChanSet ==
  ASSUME NEW clients \in [Clients -> Client], NEW cl \in Clients,
         NEW x \in Channels \cup {NoChannel}
  PROVE  /\ WithChan(clients, cl, x) \in [Clients -> Client]
         /\ \A k \in Clients :
              /\ WithChan(clients, cl, x)[k].dev = clients[k].dev
              /\ WithChan(clients, cl, x)[k].mask = clients[k].mask
              /\ WithChan(clients, cl, x)[k].chan = IF k = cl THEN x ELSE clients[k].chan
  BY DEF WithChan, Client

LEMMA SlotsShut ==
  ASSUME EngineTypes, NEW c \in Channels, NEW l \in States
  PROVE  /\ ShutSlots(c, l) \in [Channels -> Socket] /\ ShutSlots(c, l)[c].client = Nobody
         /\ \A p \in SlotNames : ShutSlots(c, l)[c][p] = Nobody
         /\ \A o \in Channels : o # c => ShutSlots(c, l)[o] = sock[o]
<1> DEFINE t == [sock[c] EXCEPT !.client = Nobody, !.read = Nobody, !.write = Nobody,
                                !.cmd = Nobody]
           s == [t EXCEPT !.last = l]
<1>1. sock \in [Channels -> Socket] /\ sock[c] \in Socket
  BY DEF EngineTypes, EngineTypeOK
<1>2. /\ t \in Socket /\ t.client = Nobody
      /\ t.read = Nobody /\ t.write = Nobody /\ t.cmd = Nobody
  BY <1>1 DEF Socket
<1>3. Shutdown(c) = [sock EXCEPT ![c] = t]
  BY DEF Shutdown
<1> HIDE DEF t
<1>4. s \in Socket /\ s.client = Nobody /\ \A p \in SlotNames : s[p] = Nobody
  BY <1>2 DEF Socket, SlotNames
<1>5. ShutSlots(c, l) = [sock EXCEPT ![c] = s]
  BY <1>1, <1>2, <1>3 DEF ShutSlots
<1> HIDE DEF s
<1>6. QED
  BY <1>1, <1>4, <1>5, SockAt

LEMMA OnInactiveStep ==
  ASSUME EngineInv, NEW c \in Channels, HandleState(c), OnInactive(c) PROVE EngineInv'
<1> DEFINE r  == sock[c].cmd
           cl == sock[c].client
           cm == [client EXCEPT ![cl].mask = @ \ {c}]
<1>1. /\ lib[c].view = "INACTIVE" /\ UNCHANGED <<deviceVars, lib>>
      /\ ReplyCmd(c, req[r].res, cm, Replied(Held(c), "error"))
      /\ sock' = [Shutdown(c) EXCEPT ![c].last = "INACTIVE"]
  BY DEF OnInactive
<1>2. /\ Alive(c) /\ Fresh(c)
      /\ pend' = pend /\ port' = port /\ portSig' = portSig /\ woken' = woken
      /\ moving' = moving /\ todo' = todo \ {c} /\ passed' = {} /\ at' \in Places
      /\ (\A k \in Clients : client'[k].dev = client[k].dev) => TaskInv'
  BY HandleFacts
<1>3. EngineTypes /\ DeskInv /\ client \in [Clients -> Client] /\ req \in [Requests -> Request]
  BY DEF EngineInv, EngineTypes, EngineTypeOK
<1>4. Ending(c)
  BY <1>1, <1>2 DEF EngineInv, ChannelInv
<1>5. /\ r \in Requests /\ r # Nobody /\ ClientOf(r) = cl /\ cl \in Clients
      /\ \/ req[r].cmd = "close"
         \/ req[r].cmd = "open" /\ req[r].res = "error"
  BY <1>3, <1>4, CmdFacts DEF Ending
<1>6. /\ client' = Knows(cm, r, req[r].res)
      /\ req' = [Replied(Held(c), "error") EXCEPT ![r] = Back(req[r].res)]
  BY <1>1, <1>5 DEF ReplyCmd
<1>7. /\ client' \in [Clients -> Client]
      /\ \A k \in Clients :
           /\ client'[k].dev = client[k].dev
           /\ client'[k].mask = MaskWithout(c, k)
           /\ client'[k].chan = IF k = ClientOf(r) /\ req[r].cmd = "close" THEN NoChannel
                                ELSE client[k].chan
  <2>1. /\ cm \in [Clients -> Client]
        /\ \A k \in Clients :
             /\ cm[k].dev = client[k].dev /\ cm[k].chan = client[k].chan
             /\ cm[k].mask = MaskWithout(c, k)
    BY <1>3, <1>5 DEF Client, MaskWithout
  <2> HIDE DEF cm
  <2>2. CASE req[r].cmd = "close"
    <3>1. client' = WithChan(cm, cl, NoChannel)
      BY <1>5, <1>6, <2>2 DEF Knows, WithChan
    <3>2. /\ client' \in [Clients -> Client]
          /\ \A k \in Clients : /\ client'[k].dev = cm[k].dev
                                /\ client'[k].mask = cm[k].mask
                                /\ client'[k].chan = IF k = cl THEN NoChannel ELSE cm[k].chan
      BY <1>5, <2>1, <3>1, ChanSet
    <3> HIDE DEF r, cl
    <3>3. QED
      BY <1>5, <2>1, <2>2, <3>2
  <2>3. CASE req[r].cmd = "open" /\ req[r].res = "error"
    <3>1. client' = cm
      BY <1>6, <2>3 DEF Knows
    <3>2. QED
      BY <2>1, <2>3, <3>1
  <2>4. QED
    BY <1>5, <2>2, <2>3
<1>8. /\ req' \in [Requests -> Request]
      /\ \A q \in Requests : IF q \in Held(c) \/ q = r THEN ~req'[q].out ELSE req'[q] = req[q]
  <2>1. req[r].res \in Answers
    BY <1>3, <1>5 DEF Request
  <2>2. Back(req[r].res) \in Request /\ ~Back(req[r].res).out
    BY <2>1, FreshTypes DEF Back
  <2>3. /\ Replied(Held(c), "error") \in [Requests -> Request]
        /\ \A q \in Requests : Replied(Held(c), "error")[q]
             = IF q \in Held(c) THEN Back("error") ELSE req[q]
        /\ ~Back("error").out
    BY <1>3, RepliedTo DEF Answers
  <2>4. QED
    BY <1>5, <1>6, <2>2, <2>3
<1>9. /\ sock' \in [Channels -> Socket] /\ sock'[c].client = Nobody
      /\ \A p \in SlotNames : sock'[c][p] = Nobody
      /\ \A o \in Channels : o # c => sock'[o] = sock[o]
  <2>1. sock' = ShutSlots(c, "INACTIVE") /\ "INACTIVE" \in States
    BY <1>1 DEF ShutSlots, States, PassiveStates
  <2>2. QED
    BY <1>3, <2>1, SlotsShut
<1>10. /\ DeskInv' /\ \A o \in Channels : o # c => Steady(o)
       /\ ~Alive(c)' /\ ~Opening(c)' /\ ~Ending(c)'
  <2>1. r = sock[c].cmd
    OBVIOUS
  <2> HIDE DEF r, cm
  <2>2. QED
    BY <1>2, <1>3, <1>4, <1>7, <1>8, <1>9, <2>1, InactiveDesk
<1>11. LibKeeps
  BY <1>1, <1>2, LibStays DEF EngineInv, EngineTypes, EngineTypeOK
<1>12. DeviceInv' /\ \A o \in Channels : ChannelInv(o)'
  BY <1>1, <1>10, <1>11, HandledAll
<1>13. TaskInv'
  BY <1>2, <1>7
<1>14. EngineTypes'
  BY <1>2, <1>3, <1>7, <1>8, <1>9, <1>11, <1>12, TypesFollow
     DEF EngineTypes, EngineTypeOK, LibKeeps
<1>15. QED
  BY <1>10, <1>12, <1>13, <1>14 DEF EngineInv

LEMMA OnOpenErrorStep ==
  ASSUME Orderly, EngineInv, NEW c \in Channels, HandleState(c), OnOpenError(c)
  PROVE  EngineInv'
<1> DEFINE r == sock[c].cmd
           s == [sock[c] EXCEPT !.last = "OPEN_ERROR"]
<1>1. /\ lib[c].view = "OPEN_ERROR" /\ CmdClose(c) /\ lib' = [lib EXCEPT ![c].mtu = 0]
      /\ req' = [q \in Requests |-> IF q = r THEN [req[q] EXCEPT !.res = "error"] ELSE req[q]]
      /\ sock' = [sock EXCEPT ![c].last = "OPEN_ERROR"] /\ client' = client
  BY DEF OnOpenError, LibClose
<1>2. /\ Alive(c) /\ Fresh(c)
      /\ pend' = pend /\ port' = port /\ portSig' = portSig /\ woken' = woken
      /\ moving' = moving /\ todo' = todo \ {c} /\ passed' = {} /\ at' \in Places /\ TaskInv'
  BY <1>1, HandleFacts
<1>3. EngineTypes /\ DeskInv /\ req \in [Requests -> Request]
  BY DEF EngineInv, EngineTypes, EngineTypeOK
<1>4. Opening(c)
  BY <1>1, <1>2 DEF EngineInv, ChannelInv
<1>5. r \in Requests /\ r # Nobody /\ ~InPort(r) /\ req[r].cmd = "open"
  BY <1>3, <1>4, CmdFacts DEF Opening
<1>6. /\ req' \in [Requests -> Request] /\ req'[r].cmd = "open" /\ req'[r].res = "error"
      /\ \A q \in Requests : /\ req'[q].out = req[q].out /\ req'[q].cmd = req[q].cmd
                             /\ req'[q].chan = req[q].chan
                             /\ q # r => req'[q] = req[q]
  <2>1. \A q \in Requests : [req[q] EXCEPT !.res = "error"] \in Request
    BY <1>3 DEF Request, Answers
  <2>2. QED
    BY <1>1, <1>3, <1>5, <2>1 DEF Request
<1>7. /\ sock' = [sock EXCEPT ![c] = s] /\ s \in Socket /\ s.client = sock[c].client
      /\ \A p \in SlotNames : s[p] = sock[c][p]
  <2>1. sock \in [Channels -> Socket] /\ sock[c] \in Socket
    BY <1>3 DEF EngineTypes, EngineTypeOK
  <2>2. QED
    BY <1>1, <2>1 DEF Socket, SlotNames, States, PassiveStates
<1> HIDE DEF s
<1>8. /\ sock' \in [Channels -> Socket]
      /\ \A o \in Channels : sock'[o].client = sock[o].client
      /\ \A o \in Channels, p \in SlotNames : sock'[o][p] = sock[o][p]
  BY <1>3, <1>7, SockAt
<1>9. /\ DeskInv'
      /\ \A o \in Channels : (Alive(o)' <=> Alive(o)) /\ (Opening(o)' <=> Opening(o))
  <2>1. \A q \in Requests : InPort(q) => req'[q].res = req[q].res
    BY <1>5, <1>6
  <2>2. QED
    BY <1>1, <1>2, <1>3, <1>6, <1>8, <2>1, FailDesk
<1>10. Ending(c)'
  <2>1. sock'[c].cmd = r
    BY <1>8 DEF SlotNames
  <2>2. QED
    BY <1>5, <1>6, <2>1 DEF Ending
<1>11. ASSUME NEW o \in Channels, o # c PROVE Steady(o)
  <2>1. sock'[o].cmd = sock[o].cmd /\ "cmd" \in SlotNames
    BY <1>8 DEF SlotNames
  <2>2. sock[o].cmd # Nobody => sock[o].cmd \in Requests /\ sock[o].cmd # r
    BY <1>3, <1>5, <1>11, <2>1, Apart, DeskTypes
  <2>3. sock[o].cmd # Nobody => req'[sock[o].cmd] = req[sock[o].cmd]
    BY <1>6, <2>2
  <2>4. QED
    BY <1>9, <2>1, <2>3 DEF Steady, Ending
<1>12. /\ DeviceInv' /\ ~halted /\ Closes(c)
       /\ \A o \in Channels : o # c => chn'[o] = chn[o]
  BY <1>1, CloseOutcome DEF EngineInv
<1>13. LibKeeps
  BY <1>1, <1>2, <1>3, LibMtu DEF EngineTypes, EngineTypeOK
<1>14. ChannelInv(c)'
  <2>1. /\ Alive(c)' /\ Opening(c)' /\ ChannelInv(c) /\ lib'[c].view = lib[c].view
        /\ c \notin todo'
    BY <1>2, <1>4, <1>9, <1>13 DEF EngineInv, LibKeeps
  <2>2. QED
    BY <1>1, <1>10, <1>12, <2>1, ChannelClosed
<1>15. ASSUME NEW o \in Channels, o # c PROVE ChannelInv(o)'
  <2>1. /\ ChannelInv(o) /\ lib'[o].view = lib[o].view
        /\ o \in todo' <=> o \in todo
    BY <1>2, <1>13, <1>15 DEF EngineInv, LibKeeps
  <2>2. Steady(o) /\ chn'[o] = chn[o] /\ (halted => halted') /\ (o \in pend' <=> o \in pend)
    BY <1>2, <1>11, <1>12, <1>15
  <2>3. QED
    BY <2>1, <2>2, ChannelKept
<1>16. EngineTypes'
  BY <1>1, <1>2, <1>3, <1>6, <1>8, <1>12, <1>13, TypesFollow
     DEF EngineTypes, EngineTypeOK, LibKeeps
<1>17. QED
  BY <1>2, <1>9, <1>12, <1>14, <1>15, <1>16 DEF EngineInv

LEMMA HandleStateStep ==
  ASSUME Orderly, EngineInv, NEW c \in Channels, HandleState(c) PROVE EngineInv'
  BY HandleFacts, OnActiveStep, OnInactiveStep, OnOpenErrorStep, OnErrorStep, OnOtherStep

----------------------------------------------------------------------------
(* The engine's steps: requests *)

LEMMA TakenFacts ==
  ASSUME EngineInv, TakeRequest, NEW r, r = Head(port)
  PROVE  /\ r \in Requests /\ InPort(r) /\ req[r].out /\ ClientOf(r) \in Clients
         /\ port # <<>> /\ port' = Tail(port) /\ HandleRequest(r)
         /\ todo = {} /\ todo' = {} /\ pend = {} /\ pend' = {}
<1>1. /\ r \in Requests /\ InPort(r) /\ req[r].out /\ ClientOf(r) \in Clients
      /\ at = "port" /\ port # <<>> /\ port' = Tail(port) /\ todo' = todo /\ pend' = pend
  BY HeadOfPort, Names DEF EngineInv, TakeRequest, OneMessage, DeskInv, RequestInv
<1>2. todo = {} /\ pend = {}
  BY <1>1 DEF EngineInv, TaskInv
<1>3. ~(req[r].cmd # "open" /\ sock[req[r].chan].client = Nobody)
  BY <1>1, PortFacts DEF EngineInv, Alive
<1>4. HandleRequest(r)
  BY <1>3 DEF TakeRequest
<1>5. QED
  BY <1>1, <1>2, <1>4

LEMMA TakenAll ==
  ASSUME EngineInv, TakeRequest, DeviceInv', LibTypeOK', DeskInv',
         \A o \in Channels : ChannelInv(o)',
         client' \in [Clients -> Client], req' \in [Requests -> Request],
         sock' \in [Channels -> Socket],
         \A cl \in Clients : client'[cl].dev = client[cl].dev
  PROVE  EngineInv'
<1> DEFINE r == Head(port)
<1>1. r \in Requests /\ port # <<>> /\ port' = Tail(port) /\ todo' = {} /\ pend' = {}
  BY TakenFacts
<1>2. /\ at = "port" /\ woken' = {} /\ portSig' = portSig /\ passed' = passed
      /\ moving' = moving
  BY DEF TakeRequest
<1>3. at' = AfterPort
  <2>1. ~(req[r].cmd # "open" /\ sock[req[r].chan].client = Nobody)
    BY TakenFacts, PortFacts DEF EngineInv, Alive
  <2>2. QED
    BY <2>1 DEF TakeRequest
<1>4. at' \in {"off", "wait"} /\ (at' = "off" => "quit" \in woken)
  BY <1>3 DEF AfterPort
<1>5. TaskInv'
  <2>1. Openers' = Openers
    BY DEF Openers
  <2>2. QED
    BY <1>1, <1>2, <1>4, <2>1 DEF EngineInv, TaskInv
<1>6. EngineTypes'
  <2>1. port' \in Seq(Requests)
    BY <1>1 DEF EngineInv, EngineTypes
  <2>2. QED
    BY <1>1, <1>2, <1>4, <2>1, TypesFollow DEF EngineInv, EngineTypes, EngineTypeOK, Places
<1>7. QED
  BY <1>5, <1>6 DEF EngineInv

LEMMA RefuseStep ==
  ASSUME EngineInv, TakeRequest, NEW r, r = Head(port), NEW res \in Answers,
         Refuse(r, res), Knows(client, r, res) = client,
         NEW c \in Channels, DeviceRuns(c) \/ UNCHANGED deviceVars, LibKeeps
  PROVE  EngineInv'
<1>1. /\ r \in Requests /\ port # <<>> /\ port' = Tail(port)
      /\ todo' = todo /\ pend' = pend
  BY TakenFacts
<1>2. req' = Replied({r}, res) /\ client' = client /\ sock' = sock
  BY DEF Refuse
<1>3. EngineTypes /\ DeskInv
  BY DEF EngineInv
<1>4. /\ req' \in [Requests -> Request]
      /\ \A q \in Requests : IF q = r THEN ~req'[q].out ELSE req'[q] = req[q]
  BY <1>2, <1>3, RepliedTo
<1>5. DeskInv' /\ \A o \in Channels : Steady(o)
  BY <1>1, <1>2, <1>3, <1>4, RefuseDesk
<1>6. DeviceInv' /\ \A o \in Channels : ChannelInv(o)'
  BY <1>1, <1>5, RunsOn
<1>7. client' \in [Clients -> Client] /\ sock' \in [Channels -> Socket]
  BY <1>2, <1>3 DEF EngineTypes, EngineTypeOK
<1>8. QED
  BY <1>2, <1>4, <1>5, <1>6, <1>7, TakenAll DEF LibKeeps

(* A free channel has no socket.                                           *)
LEMMA FreeIsDead ==
  ASSUME EngineInv, TakeRequest, NEW r, r = Head(port), req[r].cmd = "open",
         NEW c \in Channels, lib[c].view = "INACTIVE"
  PROVE  ~Alive(c)
<1> SUFFICES ASSUME Alive(c) PROVE FALSE
  OBVIOUS
<1>1. r \in Requests /\ InPort(r) /\ req[r].out /\ ~Fresh(c)
  BY TakenFacts DEF Fresh
<1>2. Opening(c)
  BY <1>1 DEF EngineInv, ChannelInv
<1>3. LET q == sock[c].cmd
      IN  q \in Requests /\ req[q].out /\ ~InPort(q) /\ req[q].cmd = "open"
  BY <1>2, CmdFacts DEF Opening, EngineInv
<1>4. sock[c].cmd = r
  BY <1>1, <1>3 DEF EngineInv, DeskInv, OpensInv
<1>5. QED
  BY <1>1, <1>3, <1>4

LEMMA ReqOpenStep ==
  ASSUME EngineInv, TakeRequest, NEW r, r = Head(port), req[r].cmd = "open", ReqOpen(r)
  PROVE  EngineInv'
<1> DEFINE cl == ClientOf(r)
<1>1. /\ r \in Requests /\ InPort(r) /\ req[r].out /\ cl \in Clients
      /\ port # <<>> /\ port' = Tail(port)
      /\ todo = {} /\ todo' = {} /\ pend = {} /\ pend' = {}
  BY TakenFacts
<1>2. EngineTypes /\ DeskInv
  BY DEF EngineInv
<1>3. ASSUME Refuse(r, "error"), UNCHANGED <<deviceVars, lib>> PROVE EngineInv'
  <2>1. Knows(client, r, "error") = client
    BY DEF Knows
  <2>2. LibKeeps
    BY <1>1, <1>2, <1>3, LibStays DEF EngineTypes, EngineTypeOK
  <2>3. QED
    BY <1>3, <2>1, <2>2, RefuseStep, ZeroIsChannel DEF Answers
<1>4. ASSUME NEW c \in Channels, LibOpen(c, req[r].arg),
             sock' = [sock EXCEPT ![c] = [ClosedSocket EXCEPT !.client = cl, !.cmd = r]],
             client' = [client EXCEPT ![cl].mask = @ \cup {c}],
             req' = [req EXCEPT ![r].chan = c]
      PROVE  EngineInv'
  <2> DEFINE s == [ClosedSocket EXCEPT !.client = cl, !.cmd = r]
  <2>1. ~Alive(c)
    BY <1>4, FreeIsDead DEF LibOpen, IsFreeChannel
  <2>2. /\ s \in Socket /\ s.client = cl
        /\ \A p \in SlotNames : s[p] = IF p = "cmd" THEN r ELSE Nobody
    <3>1. ClosedSocket \in Socket /\ ClosedSocket.read = Nobody /\ ClosedSocket.write = Nobody
      BY FreshTypes DEF ClosedSocket
    <3>2. QED
      BY <1>1, <3>1 DEF Socket, SlotNames
  <2> HIDE DEF s
  <2>3. /\ sock' \in [Channels -> Socket] /\ sock'[c].client = cl
        /\ \A p \in SlotNames : sock'[c][p] = IF p = "cmd" THEN r ELSE Nobody
        /\ \A o \in Channels : o # c => sock'[o] = sock[o]
    <3>1. sock' = [sock EXCEPT ![c] = s]
      BY <1>4 DEF s
    <3>2. QED
      BY <1>2, <2>2, <3>1, SockAt
  <2>4. /\ client' \in [Clients -> Client]
        /\ \A k \in Clients : client'[k].dev = client[k].dev /\ client'[k].chan = client[k].chan
        /\ MasksAdd(c, cl)
    <3>1. client \in [Clients -> Client]
      BY <1>2 DEF EngineTypes, EngineTypeOK
    <3>2. QED
      BY <1>1, <1>4, <3>1 DEF Client, MasksAdd
  <2>5. /\ req' \in [Requests -> Request]
        /\ req'[r].out /\ req'[r].cmd = "open" /\ req'[r].res = req[r].res /\ req'[r].chan = c
        /\ \A q \in Requests : q # r => req'[q] = req[q]
    <3>1. req \in [Requests -> Request]
      BY <1>2 DEF EngineTypes, EngineTypeOK
    <3>2. QED
      BY <1>1, <1>4, <3>1 DEF Request
  <2>6. /\ DeskInv' /\ \A o \in Channels : o # c => Steady(o)
        /\ Alive(c)' /\ Opening(c)' /\ ~Ending(c)'
    BY <1>1, <1>2, <2>1, <2>3, <2>4, <2>5, OpenDesk
  <2>7. /\ DeviceInv' /\ halted' = halted
        /\ chn'[c].state \in {"ACTIVE", "OPENING", "OPEN_ERROR"}
        /\ \A o \in Channels : o # c => chn'[o] = chn[o]
    BY <1>4, OpenOutcome DEF LibOpen, EngineInv
  <2>8. LibKeeps
    BY <1>1, <1>2, <1>4, LibMtu DEF LibOpen, EngineTypes, EngineTypeOK
  <2>9. ChannelInv(c)'
    BY <1>1, <2>6, <2>7, ChannelOpened
  <2>10. ASSUME NEW o \in Channels, o # c PROVE ChannelInv(o)'
    <3>1. ChannelInv(o) /\ lib'[o].view = lib[o].view
      BY <2>8 DEF EngineInv, LibKeeps
    <3>2. /\ Steady(o) /\ chn'[o] = chn[o] /\ (halted => halted')
          /\ (o \in todo' <=> o \in todo) /\ (o \in pend' <=> o \in pend)
      BY <1>1, <2>6, <2>7, <2>10
    <3>3. QED
      BY <3>1, <3>2, ChannelKept
  <2>11. QED
    BY <2>3, <2>4, <2>5, <2>6, <2>7, <2>8, <2>9, <2>10, TakenAll DEF LibKeeps
<1>5. QED
  BY <1>3, <1>4 DEF ReqOpen

LEMMA ReqCloseStep ==
  ASSUME Orderly, EngineInv, TakeRequest, NEW r, r = Head(port), req[r].cmd = "close",
         NEW c, c = req[r].chan, ReqClose(r, c)
  PROVE  EngineInv'
<1> DEFINE cl == ClientOf(r)
<1>1. /\ r \in Requests /\ InPort(r) /\ req[r].out /\ cl \in Clients
      /\ port # <<>> /\ port' = Tail(port)
      /\ todo = {} /\ todo' = {} /\ pend = {} /\ pend' = {}
  BY TakenFacts
<1>2. EngineTypes /\ DeskInv
  BY DEF EngineInv
<1>3. /\ c \in Channels /\ Alive(c) /\ sock[c].client = cl /\ sock[c].cmd = Nobody
      /\ ~Opening(c)
  BY <1>1, <1>2, PortFacts DEF Dirs
<1>4. /\ CmdClose(c) /\ lib' = [lib EXCEPT ![c].mtu = 0]
      /\ sock' = WithSlot(c, "cmd", r) /\ req' = req
      /\ client' = [client EXCEPT ![cl].mask = @ \ {c}]
  BY DEF ReqClose, LibClose, WithSlot
<1>5. /\ sock' \in [Channels -> Socket]
      /\ \A o \in Channels : sock'[o].client = sock[o].client
      /\ \A o \in Channels, p \in SlotNames :
           sock'[o][p] = IF o = c /\ p = "cmd" THEN r ELSE sock[o][p]
  <2>1. "cmd" \in SlotNames
    BY DEF SlotNames
  <2>2. QED
    BY <1>1, <1>2, <1>3, <1>4, <2>1, SlotSet
<1>6. /\ client' \in [Clients -> Client] /\ MasksShrink
      /\ \A k \in Clients : client'[k].dev = client[k].dev /\ client'[k].chan = client[k].chan
  <2>1. client \in [Clients -> Client]
    BY <1>2 DEF EngineTypes, EngineTypeOK
  <2>2. \A k \in Clients : k # cl => client'[k] = client[k]
    BY <1>1, <1>4, <2>1
  <2>3. client' \in [Clients -> Client]
    BY <1>1, <1>4, <2>1 DEF Client
  <2>4. ASSUME NEW k \in Clients
        PROVE  /\ client'[k].mask \subseteq client[k].mask
               /\ client'[k].dev = client[k].dev /\ client'[k].chan = client[k].chan
    <3>1. client[k] \in Client
      BY <2>1
    <3>2. CASE k = cl
      BY <1>4, <2>1, <3>1, <3>2 DEF Client
    <3>3. CASE k # cl
      BY <2>2, <3>3
    <3>4. QED
      BY <3>2, <3>3
  <2>5. QED
    BY <2>3, <2>4 DEF MasksShrink
<1>7. /\ DeskInv' /\ \A o \in Channels : o # c => Steady(o)
      /\ Alive(c)' /\ ~Opening(c)'
  <2>1. Slot(req[r].cmd) = "cmd"
    BY DEF Slot, Dirs
  <2>2. sock[c][Slot(req[r].cmd)] = Nobody
    BY <1>3, <2>1
  <2>3. Files(r, c, {})
    <3>1. \A o \in Channels, p \in SlotNames :
            sock'[o][p] = IF o = c /\ p = Slot(req[r].cmd) THEN r ELSE sock[o][p]
      BY <1>5, <2>1
    <3>2. \A q \in Requests : req'[q] = req[q]
      BY <1>4
    <3>3. /\ \A o \in Channels : sock'[o].client = sock[o].client
          /\ \A k \in Clients : client'[k].dev = client[k].dev /\ client'[k].chan = client[k].chan
          /\ MasksShrink
      BY <1>5, <1>6
    <3>4. QED
      BY <3>1, <3>2, <3>3 DEF Files
  <2>4. req[r].cmd # "open" /\ port # <<>> /\ port' = Tail(port)
    BY <1>1
  <2>5. EngineTypes /\ DeskInv
    BY <1>2
  <2>6. /\ DeskInv' /\ \A o \in Channels : o # c => Steady(o)
        /\ Alive(c)' /\ ~Opening(c)'
    <3> HIDE <1>1, <1>2, <1>3, <1>4, <1>5, <1>6
    <3>1. QED
      BY <2>2, <2>3, <2>4, <2>5, FileDesk
  <2>7. QED
    BY <2>6
<1>8. Ending(c)'
  <2>1. sock'[c].cmd = r
    BY <1>3, <1>5 DEF SlotNames
  <2>2. QED
    BY <1>1, <1>4, <2>1, Names DEF Ending
<1>9. /\ DeviceInv' /\ ~halted /\ Closes(c)
      /\ \A o \in Channels : o # c => chn'[o] = chn[o]
  BY <1>3, <1>4, CloseOutcome DEF EngineInv
<1>10. LibKeeps
  BY <1>1, <1>2, <1>3, <1>4, LibMtu DEF EngineTypes, EngineTypeOK
<1>11. ChannelInv(c)'
  <2>1. /\ ChannelInv(c) /\ lib'[c].view = lib[c].view /\ c \notin todo' /\ ~Fresh(c)
    BY <1>1, <1>3, <1>10 DEF EngineInv, LibKeeps, Fresh
  <2>2. chn[c].state \notin {"OPENING", "OPEN_ERROR"} /\ lib[c].view # "INACTIVE"
    BY <1>3, <2>1 DEF ChannelInv
  <2>3. QED
    BY <1>3, <1>7, <1>8, <1>9, <2>1, <2>2, ChannelClosed
<1>12. ASSUME NEW o \in Channels, o # c PROVE ChannelInv(o)'
  <2>1. ChannelInv(o) /\ lib'[o].view = lib[o].view
    BY <1>10 DEF EngineInv, LibKeeps
  <2>2. /\ Steady(o) /\ chn'[o] = chn[o] /\ (halted => halted')
        /\ (o \in todo' <=> o \in todo) /\ (o \in pend' <=> o \in pend)
    BY <1>1, <1>7, <1>9, <1>12
  <2>3. QED
    BY <2>1, <2>2, ChannelKept
<1>13. req' \in [Requests -> Request]
  BY <1>2, <1>4 DEF EngineTypes, EngineTypeOK
<1>14. QED
  BY <1>5, <1>6, <1>7, <1>9, <1>10, <1>11, <1>12, <1>13, TakenAll DEF LibKeeps

LEMMA ReqResetStep ==
  ASSUME EngineInv, TakeRequest, NEW r, r = Head(port), req[r].cmd = "reset",
         NEW c, c = req[r].chan, ReqReset(r, c)
  PROVE  EngineInv'
<1>1. /\ r \in Requests /\ InPort(r) /\ req[r].out
      /\ port # <<>> /\ port' = Tail(port)
      /\ todo = {} /\ todo' = {} /\ pend = {} /\ pend' = {}
  BY TakenFacts
<1>2. EngineTypes /\ DeskInv
  BY DEF EngineInv
<1>3. c \in Channels /\ Alive(c) /\ sock[c].cmd = Nobody /\ ~Opening(c)
  BY <1>1, <1>2, PortFacts DEF Dirs
<1>4. ASSUME Refuse(r, "error"), UNCHANGED <<deviceVars, lib>> PROVE EngineInv'
  <2>1. Knows(client, r, "error") = client
    BY DEF Knows
  <2>2. LibKeeps
    BY <1>1, <1>2, <1>4, LibStays DEF EngineTypes, EngineTypeOK
  <2>3. QED
    BY <1>4, <2>1, <2>2, RefuseStep, ZeroIsChannel DEF Answers
<1>5. ASSUME LibReset(c), req' = Replied(Held(c), "error"), UNCHANGED client,
             sock' = [sock EXCEPT ![c] = [@ EXCEPT !.cmd = r, !.read = Nobody, !.write = Nobody]]
      PROVE  EngineInv'
  <2> DEFINE s == [sock[c] EXCEPT !.cmd = r, !.read = Nobody, !.write = Nobody]
  <2>1. CmdReset(c) /\ lib' = lib
    BY <1>5 DEF LibReset
  <2>2. sock' = [sock EXCEPT ![c] = s]
    BY <1>5
  <2>3. /\ s \in Socket /\ s.client = sock[c].client
        /\ s.cmd = r /\ s.read = Nobody /\ s.write = Nobody
    <3>1. sock[c] \in Socket
      BY <1>2, <1>3 DEF EngineTypes, EngineTypeOK
    <3>2. QED
      BY <1>1, <3>1 DEF Socket
  <2> HIDE DEF s
  <2>4. /\ sock' \in [Channels -> Socket]
        /\ \A o \in Channels : sock'[o].client = sock[o].client
        /\ sock'[c].cmd = r /\ sock'[c].read = Nobody /\ sock'[c].write = Nobody
        /\ \A o \in Channels : o # c => sock'[o] = sock[o]
    BY <1>2, <1>3, <2>2, <2>3, SockAt
  <2>5. \A o \in Channels, p \in SlotNames :
          sock'[o][p] = IF o = c /\ p = "cmd" THEN r
                        ELSE IF o = c /\ sock[o][p] \in Held(c) THEN Nobody ELSE sock[o][p]
    <3>1. /\ sock[c].read # Nobody => sock[c].read \in Held(c)
          /\ sock[c].write # Nobody => sock[c].write \in Held(c)
      BY <1>2, <1>3, HeldFacts
    <3>2. QED
      BY <2>4, <3>1 DEF SlotNames
  <2>6. /\ req' \in [Requests -> Request]
        /\ \A q \in Requests : IF q \in Held(c) THEN ~req'[q].out ELSE req'[q] = req[q]
    BY <1>2, <1>5, RepliedTo DEF Answers
  <2>7. /\ DeskInv' /\ \A o \in Channels : o # c => Steady(o)
        /\ Alive(c)' /\ ~Opening(c)' /\ req'[r] = req[r]
    <3>1. Slot(req[r].cmd) = "cmd" /\ Held(c) \in SUBSET Held(c)
      BY DEF Slot, Dirs
    <3>2. sock[c][Slot(req[r].cmd)] = Nobody
      BY <1>3, <3>1
    <3>3. MasksShrink
      BY <1>5 DEF MasksShrink
    <3>4. \A o \in Channels, p \in SlotNames :
            sock'[o][p] = IF o = c /\ p = Slot(req[r].cmd) THEN r
                          ELSE IF o = c /\ sock[o][p] \in Held(c) THEN Nobody ELSE sock[o][p]
      BY <2>5, <3>1
    <3>5. Files(r, c, Held(c))
      BY <1>5, <2>4, <2>6, <3>3, <3>4 DEF Files
    <3>6. QED
      BY <1>1, <1>2, <3>2, <3>5, FileDesk
  <2>8. Steady(c)
    BY <1>3, <2>4, <2>7 DEF Steady, Ending
  <2>9. DeviceRuns(c)
    BY <1>3, <2>1, ReadyAll, ResetRuns
  <2>10. LibKeeps
    BY <1>1, <1>2, <2>1, LibStays DEF EngineTypes, EngineTypeOK
  <2>11. DeviceInv' /\ \A o \in Channels : ChannelInv(o)'
    BY <1>1, <1>3, <2>7, <2>8, <2>9, <2>10, RunsOn
  <2>12. /\ client' \in [Clients -> Client]
         /\ \A cl \in Clients : client'[cl].dev = client[cl].dev
    BY <1>2, <1>5 DEF EngineTypes, EngineTypeOK
  <2>13. QED
    BY <2>4, <2>6, <2>7, <2>10, <2>11, <2>12, TakenAll DEF LibKeeps
<1>6. QED
  BY <1>4, <1>5 DEF ReqReset

LEMMA ReqMoveStep ==
  ASSUME EngineInv, TakeRequest, NEW r, r = Head(port), NEW d \in Dirs, req[r].cmd = d,
         NEW c, c = req[r].chan, ReqMove(r, c, d)
  PROVE  EngineInv'
<1>1. /\ r \in Requests /\ InPort(r) /\ req[r].out
      /\ port # <<>> /\ port' = Tail(port)
      /\ todo = {} /\ todo' = {} /\ pend = {} /\ pend' = {}
  BY TakenFacts
<1>2. EngineTypes /\ DeskInv
  BY DEF EngineInv
<1>3. /\ req[r].cmd \notin {"open", "close"} /\ Slot(req[r].cmd) = d /\ d \in SlotNames
  BY DEF Slot, Dirs, SlotNames
<1>4. c \in Channels /\ Alive(c)
  BY <1>1, <1>2, <1>3, PortFacts
<1>5. ASSUME Refuse(r, "error"), UNCHANGED <<deviceVars, lib>> PROVE EngineInv'
  <2>1. Knows(client, r, "error") = client
    BY <1>3 DEF Knows
  <2>2. LibKeeps
    BY <1>1, <1>2, <1>5, LibStays DEF EngineTypes, EngineTypeOK
  <2>3. QED
    BY <1>5, <2>1, <2>2, RefuseStep, ZeroIsChannel DEF Answers
<1>6. ASSUME sock[c][d] = Nobody, LibRequest(c, d, req[r].arg), UNCHANGED <<client, req>>,
             sock' = WithSlot(c, d, r)
      PROVE  EngineInv'
  <2>1. req[r].arg \in Nat
    BY <1>1, <1>2 DEF EngineTypes, EngineTypeOK, Request
  <2>2. CmdReq(c, d, req[r].arg)
    BY <1>6 DEF LibRequest
  <2>3. DeviceRuns(c)
    BY <1>4, <2>1, <2>2, ReadyAll, ReqRuns
  <2>4. LibKeeps
    BY <1>1, <1>2, <1>4, <1>6, <2>1, LibRequestKeeps DEF EngineTypes, EngineTypeOK
  <2>5. /\ sock' \in [Channels -> Socket]
        /\ \A o \in Channels : sock'[o].client = sock[o].client
        /\ \A o \in Channels, p \in SlotNames :
             sock'[o][p] = IF o = c /\ p = d THEN r ELSE sock[o][p]
    BY <1>1, <1>2, <1>3, <1>4, <1>6, SlotSet
  <2>6. Files(r, c, {})
    BY <1>3, <1>6, <2>5 DEF Files, MasksShrink
  <2>7. DeskInv' /\ (\A o \in Channels : o # c => Steady(o)) /\ Steady(c)
    BY <1>1, <1>2, <1>3, <1>6, <2>6, FileDesk
  <2>8. DeviceInv' /\ \A o \in Channels : ChannelInv(o)'
    BY <1>1, <1>4, <2>3, <2>4, <2>7, RunsOn
  <2>9. /\ client' \in [Clients -> Client] /\ req' \in [Requests -> Request]
        /\ \A cl \in Clients : client'[cl].dev = client[cl].dev
    BY <1>2, <1>6 DEF EngineTypes, EngineTypeOK
  <2>10. QED
    BY <2>4, <2>5, <2>7, <2>8, <2>9, TakenAll DEF LibKeeps
<1>7. QED
  BY <1>5, <1>6 DEF ReqMove, WithSlot

LEMMA ReqMtuStep ==
  ASSUME EngineInv, TakeRequest, NEW r, r = Head(port), req[r].cmd \in {"get_mtu", "set_mtu"},
         NEW c, c = req[r].chan, ReqGetMtu(r, c) \/ ReqSetMtu(r, c)
  PROVE  EngineInv'
<1>1. /\ r \in Requests /\ InPort(r) /\ port # <<>>
      /\ todo = {} /\ todo' = {} /\ pend = {} /\ pend' = {}
  BY TakenFacts
<1>2. EngineTypes /\ DeskInv /\ DeviceInv
  BY DEF EngineInv
<1>3. req[r].cmd \notin {"open", "close"}
  OBVIOUS
<1>4. c \in Channels
  BY <1>1, <1>2, <1>3, PortFacts
<1>5. \A res \in Answers : Knows(client, r, res) = client
  BY <1>3 DEF Knows
<1>6. ASSUME Refuse(r, "error"), UNCHANGED <<deviceVars, lib>> PROVE EngineInv'
  <2>1. LibKeeps
    BY <1>1, <1>2, <1>6, LibStays DEF EngineTypes, EngineTypeOK
  <2>2. QED
    BY <1>5, <1>6, <2>1, RefuseStep, ZeroIsChannel DEF Answers
<1>7. ASSUME LibGetMtu(c), Refuse(r, "ok") PROVE EngineInv'
  <2>1. UNCHANGED deviceVars /\ lib' = [lib EXCEPT ![c].mtu = chn[c].mtu]
    BY <1>7 DEF LibGetMtu
  <2>2. chn[c].mtu \in Nat
    BY <1>2, <1>4 DEF DeviceInv, TypeOK, Channel
  <2>3. LibKeeps
    BY <1>1, <1>2, <1>4, <2>1, <2>2, LibMtu DEF EngineTypes, EngineTypeOK
  <2>4. QED
    BY <1>4, <1>5, <1>7, <2>1, <2>3, RefuseStep DEF Answers
<1>8. ASSUME LibSetMtu(c, req[r].arg), NEW res \in Answers, Refuse(r, res) PROVE EngineInv'
  <2>1. CmdSetMtu(c, req[r].arg) /\ lib' = [lib EXCEPT ![c].mtu = chn'[c].mtu]
    BY <1>8 DEF LibSetMtu
  <2>2. req[r].arg \in Nat
    BY <1>1, <1>2 DEF EngineTypes, EngineTypeOK, Request
  <2>3. DeviceRuns(c)
    BY <1>4, <2>1, <2>2, ReadyAll, SetMtuRuns
  <2>4. chn'[c].mtu \in Nat
    BY <1>4, <2>3 DEF DeviceRuns, DeviceInv, TypeOK, Channel
  <2>5. LibKeeps
    BY <1>1, <1>2, <1>4, <2>1, <2>4, LibMtu DEF EngineTypes, EngineTypeOK
  <2>6. QED
    BY <1>4, <1>5, <1>8, <2>3, <2>5, RefuseStep
<1>9. QED
  <2>1. CASE ReqGetMtu(r, c)
    BY <1>6, <1>7, <2>1 DEF ReqGetMtu
  <2>2. CASE ReqSetMtu(r, c)
    BY <1>6, <1>8, <2>2 DEF ReqSetMtu, Answers
  <2>3. QED
    BY <2>1, <2>2

LEMMA TakeRequestStep == ASSUME Orderly, EngineInv, TakeRequest PROVE EngineInv'
<1> DEFINE r == Head(port)
           c == req[r].chan
<1>1. HandleRequest(r)
  BY TakenFacts
<1>2. \/ req[r].cmd = "open"    /\ ReqOpen(r)
      \/ req[r].cmd = "close"   /\ ReqClose(r, c)
      \/ req[r].cmd = "reset"   /\ ReqReset(r, c)
      \/ req[r].cmd \in Dirs    /\ ReqMove(r, c, req[r].cmd)
      \/ req[r].cmd = "get_mtu" /\ ReqGetMtu(r, c)
      \/ req[r].cmd = "set_mtu" /\ ReqSetMtu(r, c)
  BY <1>1 DEF HandleRequest
<1>3. QED
  BY <1>2, ReqOpenStep, ReqCloseStep, ReqResetStep, ReqMoveStep, ReqMtuStep

----------------------------------------------------------------------------
(* The clients' steps *)

LEMMA BeginIOStep ==
  ASSUME Orderly, EngineInv, NEW r \in Requests, NEW cmd \in Commands, NEW arg \in Args(cmd),
         BeginIO(r, cmd, arg)
  PROVE  EngineInv'
<1>1. /\ req' = [req EXCEPT ![r] = [out |-> TRUE, cmd |-> cmd, arg |-> arg, res |-> "ok",
                                    chan |-> client[ClientOf(r)].chan]]
      /\ port' = Append(port, r) /\ portSig' = TRUE
      /\ UNCHANGED <<deviceVars, lib, pend, client, sock, at, woken, todo, passed, moving>>
  BY DEF BeginIO, libVars
<1>2. EngineTypes /\ DeskInv
  BY DEF EngineInv
<1>3. DeskInv' /\ \A o \in Channels : Steady(o)
  BY <1>2, PostDesk
<1>4. LibKeeps
  BY <1>1, <1>2, LibStays DEF EngineTypes, EngineTypeOK
<1>5. DeviceInv' /\ \A o \in Channels : ChannelInv(o)'
  BY <1>1, <1>3, <1>4, RunsOn, ZeroIsChannel
<1>6. TaskInv'
  BY <1>1 DEF EngineInv, TaskInv, Openers
<1>7. arg \in Nat
  <2>1. cmd \in Dirs => Sizes[cmd] \subseteq Nat
    BY DeviceAssumption
  <2>2. QED
    BY <2>1, DeviceAssumption, EngineAssumption DEF Args
<1>8. req' \in [Requests -> Request]
  <2>1. /\ client[ClientOf(r)].chan \in Channels \cup {NoChannel}
        /\ req \in [Requests -> Request]
    BY <1>2, Names DEF EngineTypes, EngineTypeOK, Client
  <2>2. QED
    BY <1>1, <1>7, <2>1 DEF Request, Answers
<1>9. port' \in Seq(Requests)
  BY <1>1, <1>2, AddedToPort
<1>10. EngineTypes'
  BY <1>1, <1>2, <1>4, <1>5, <1>8, <1>9, TypesFollow DEF EngineTypes, EngineTypeOK, LibKeeps
<1>11. QED
  BY <1>3, <1>5, <1>6, <1>10 DEF EngineInv

(* A client without a channel and without requests has no sockets.         *)
LEMMA IdleClient ==
  ASSUME EngineTypes, DeskInv, NEW cl \in Clients, client[cl].chan = NoChannel,
         \A r \in Requests : ClientOf(r) = cl => ~req[r].out
  PROVE  client[cl].mask = {}
<1>1. ASSUME NEW c \in Channels, sock[c].client = cl PROVE FALSE
  <2>1. Alive(c) /\ client[cl].chan # c
    BY <1>1, Names DEF Alive
  <2>2. Opening(c)
    BY <1>1, <2>1 DEF DeskInv, SocketInv
  <2>3. QED
    BY <1>1, <2>2, CmdFacts DEF Opening
<1>2. client[cl].mask \subseteq Channels
  BY DEF EngineTypes, EngineTypeOK, Client
<1>3. QED
  BY <1>1, <1>2 DEF DeskInv, ClientInv

(* The device is opened or closed by a client that has nothing else.       *)
LEMMA SameButDev ==
  ASSUME EngineTypes, DeskInv, UNCHANGED <<req, port, sock>>,
         \A k \in Clients : client'[k].chan = client[k].chan /\ client'[k].mask = client[k].mask,
         \A k \in Clients : client[k].chan # NoChannel => client'[k].dev,
         \A r \in Requests : req[r].out => client'[ClientOf(r)].dev
  PROVE  DeskInv' /\ \A o \in Channels : Steady(o)
<1>1. \A q : InPort(q)' <=> InPort(q)
  BY DEF InPort
<1>2. \A o \in Channels : Steady(o)
  BY DEF Steady, Alive, Opening, Ending
<1>3. ASSUME NEW r \in Requests PROVE RequestInv(r)'
  <2>1. RequestInv(r) /\ ClientOf(r) \in Clients
    BY Names DEF DeskInv
  <2>2. QED
    BY <1>1, <2>1 DEF RequestInv
<1>4. ASSUME NEW c \in Channels PROVE SocketInv(c)'
  <2>1. SocketInv(c) /\ sock[c].client \in Clients \cup {Nobody}
    BY DeskTypes DEF DeskInv
  <2>2. Alive(c)' => client'[sock[c].client].chan = c \/ Opening(c)'
    BY <1>2, <2>1 DEF SocketInv, Steady, Alive
  <2>3. \A p \in SlotNames, r \in Requests : sock'[c][p] = r =>
          /\ req'[r].out /\ ~InPort(r)' /\ req'[r].chan = c /\ Slot(req'[r].cmd) = p
          /\ ClientOf(r) = sock'[c].client
    BY <1>1, <2>1 DEF SocketInv
  <2>4. QED
    BY <2>2, <2>3 DEF SocketInv
<1>5. ASSUME NEW k \in Clients PROVE ClientInv(k)'
  BY DEF DeskInv, ClientInv
<1>6. OpensInv' /\ PortInv'
  <2>1. OpensInv'
    BY OpensKept DEF DeskInv
  <2>2. QED
    BY <2>1, PortKept DEF DeskInv
<1>7. QED
  BY <1>2, <1>3, <1>4, <1>5, <1>6 DEF DeskInv

LEMMA CloseDeviceStep ==
  ASSUME Orderly, EngineInv, NEW cl \in Clients, CloseDevice(cl) PROVE EngineInv'
<1>1. EngineTypes /\ DeskInv /\ client \in [Clients -> Client]
  BY DEF EngineInv, EngineTypes, EngineTypeOK
<1>2. client[cl].dev /\ client[cl].chan = NoChannel /\ OutCmds(cl) = {}
  BY DEF CloseDevice, Orderly
<1>3. \A r \in Requests : ClientOf(r) = cl => ~req[r].out
  BY <1>2 DEF OutCmds
<1>4. client[cl].mask = {}
  BY <1>1, <1>2, <1>3, IdleClient
<1>5. /\ client' = [client EXCEPT ![cl] = [dev |-> FALSE, chan |-> NoChannel, mask |-> {}]]
      /\ UNCHANGED <<deviceVars, lib, req, sock, pend, port, portSig, at, woken, todo, passed, moving>>
  BY <1>4 DEF CloseDevice, engineTask
<1>6. /\ client' \in [Clients -> Client] /\ client'[cl].dev = FALSE
      /\ \A k \in Clients : /\ client'[k].chan = client[k].chan /\ client'[k].mask = client[k].mask
                            /\ k # cl => client'[k].dev = client[k].dev
  BY <1>1, <1>2, <1>4, <1>5 DEF Client
<1>7. DeskInv' /\ \A o \in Channels : Steady(o)
  <2>1. \A k \in Clients : client[k].chan # NoChannel => client'[k].dev
    BY <1>1, <1>2, <1>6 DEF DeskInv, ClientInv
  <2>2. \A r \in Requests : req[r].out => client'[ClientOf(r)].dev
    BY <1>1, <1>3, <1>6, Names DEF DeskInv, RequestInv
  <2>3. QED
    BY <1>1, <1>5, <1>6, <2>1, <2>2, SameButDev
<1>8. LibKeeps
  BY <1>1, <1>5, LibStays DEF EngineTypes, EngineTypeOK
<1>9. DeviceInv' /\ \A o \in Channels : ChannelInv(o)'
  BY <1>5, <1>7, <1>8, RunsOn, ZeroIsChannel
<1>10. TaskInv'
  <2>1. Openers' \subseteq Openers
    BY <1>6 DEF Openers
  <2>2. QED
    BY <1>5, <2>1 DEF EngineInv, TaskInv
<1>11. EngineTypes'
  BY <1>1, <1>5, <1>6, <1>8, <1>9, TypesFollow DEF EngineTypes, EngineTypeOK, LibKeeps
<1>12. QED
  BY <1>7, <1>9, <1>10, <1>11 DEF EngineInv

(* The engine has just been started: everything is empty.                  *)
Empty ==
  /\ DeviceInit /\ lib = FreshLib /\ port = <<>> /\ todo = {}
  /\ \A r \in Requests : ~req[r].out
  /\ \A c \in Channels : sock[c] = ClosedSocket
  /\ \A cl \in Clients : client[cl].chan = NoChannel /\ client[cl].mask = {}

LEMMA EmptyInv == Empty => DeviceInv /\ DeskInv /\ \A c \in Channels : ChannelInv(c)
<1> SUFFICES ASSUME Empty PROVE DeviceInv /\ DeskInv /\ \A c \in Channels : ChannelInv(c)
  OBVIOUS
<1>1. DeviceInv
  BY InitInv DEF Empty
<1>2. DeskInv
  BY EmptyDesk DEF Empty
<1>3. \A c \in Channels : ChannelInv(c)
  BY <1>1, FreshChannelsInv DEF Empty, DeviceInit
<1>4. QED
  BY <1>1, <1>2, <1>3

(* The first client starts the engine.                                     *)
LEMMA StartStep ==
  ASSUME EngineInv, NEW cl \in Clients, OpenDevice(cl), at = "off" PROVE EngineInv'
<1>1. /\ client' = [client EXCEPT ![cl] = [dev |-> TRUE, chan |-> NoChannel, mask |-> {}]]
      /\ at' = "wait" /\ chn' = FreshChannels /\ halted' = FALSE /\ lib' = FreshLib
      /\ pend' = {} /\ sock' = [c \in Channels |-> ClosedSocket]
      /\ UNCHANGED <<req, port, portSig, woken, todo, passed, moving>>
  BY DEF OpenDevice
<1>2. EngineTypes /\ DeskInv /\ client \in [Clients -> Client]
  BY DEF EngineInv, EngineTypes, EngineTypeOK
<1>3. todo = {} /\ woken = {} /\ Openers = {}
  BY DEF EngineInv, TaskInv
<1>4. \A k \in Clients : ~client[k].dev
  BY <1>3 DEF Openers
<1>5. \A r \in Requests : ~req[r].out
  BY <1>2, <1>4, Names DEF DeskInv, RequestInv
<1>6. port = <<>>
  BY <1>2, <1>5, HeadOfPort DEF DeskInv, RequestInv
<1>7. \A k \in Clients : client[k].chan = NoChannel /\ client[k].mask = {}
  <2>1. \A k \in Clients : client[k].chan = NoChannel
    BY <1>2, <1>4 DEF DeskInv, ClientInv
  <2>2. QED
    BY <1>2, <1>5, <2>1, IdleClient
<1>8. /\ client' \in [Clients -> Client]
      /\ \A k \in Clients : client'[k].chan = NoChannel /\ client'[k].mask = {}
  BY <1>1, <1>2, <1>7 DEF Client
<1>9. Empty'
  BY <1>1, <1>3, <1>5, <1>6, <1>8 DEF Empty, DeviceInit
<1>10. DeviceInv' /\ DeskInv' /\ (\A c \in Channels : ChannelInv(c))'
  BY <1>9, EmptyInv, PTL
<1>11. TaskInv'
  BY <1>1, <1>3 DEF TaskInv
<1>12. EngineTypes'
  <2>1. LibTypeOK' /\ sock' \in [Channels -> Socket]
    BY <1>1, FreshTypes DEF LibTypeOK
  <2>2. QED
    BY <1>1, <1>2, <1>8, <1>10, <2>1, TypesFollow DEF EngineTypes, EngineTypeOK, Places
<1>13. QED
  BY <1>10, <1>11, <1>12 DEF EngineInv

LEMMA OpenDeviceStep ==
  ASSUME EngineInv, NEW cl \in Clients, OpenDevice(cl), at # "off" PROVE EngineInv'
<1>1. /\ ~client[cl].dev /\ Openers # {}
      /\ client' = [client EXCEPT ![cl] = [dev |-> TRUE, chan |-> NoChannel, mask |-> {}]]
      /\ UNCHANGED <<deviceVars, lib, pend, req, sock, port, portSig, at, woken, todo, passed, moving>>
  BY DEF OpenDevice, libVars
<1>2. EngineTypes /\ DeskInv /\ client \in [Clients -> Client]
  BY DEF EngineInv, EngineTypes, EngineTypeOK
<1>3. client[cl].chan = NoChannel /\ \A r \in Requests : ClientOf(r) = cl => ~req[r].out
  BY <1>1, <1>2 DEF DeskInv, ClientInv, RequestInv
<1>4. client[cl].mask = {}
  BY <1>2, <1>3, IdleClient
<1>5. /\ client' \in [Clients -> Client] /\ client'[cl].dev = TRUE
      /\ \A k \in Clients : /\ client'[k].chan = client[k].chan /\ client'[k].mask = client[k].mask
                            /\ k # cl => client'[k].dev = client[k].dev
  BY <1>1, <1>2, <1>3, <1>4 DEF Client
<1>6. DeskInv' /\ \A o \in Channels : Steady(o)
  <2>1. \A k \in Clients : client[k].chan # NoChannel => client'[k].dev
    BY <1>2, <1>5 DEF DeskInv, ClientInv
  <2>2. \A r \in Requests : req[r].out => client'[ClientOf(r)].dev
    BY <1>2, <1>5, Names DEF DeskInv, RequestInv
  <2>3. QED
    BY <1>1, <1>2, <1>5, <2>1, <2>2, SameButDev
<1>7. LibKeeps
  BY <1>1, <1>2, LibStays DEF EngineTypes, EngineTypeOK
<1>8. DeviceInv' /\ \A o \in Channels : ChannelInv(o)'
  BY <1>1, <1>6, <1>7, RunsOn, ZeroIsChannel
<1>9. TaskInv'
  BY <1>1 DEF EngineInv, TaskInv
<1>10. EngineTypes'
  BY <1>1, <1>2, <1>5, <1>7, <1>8, TypesFollow DEF EngineTypes, EngineTypeOK, LibKeeps
<1>11. QED
  BY <1>6, <1>8, <1>9, <1>10 DEF EngineInv

----------------------------------------------------------------------------
(* The invariant, and what follows from it *)

LEMMA EngineStays == ASSUME EngineInv, UNCHANGED engineVars PROVE EngineInv'
<1>1. UNCHANGED <<deviceVars, lib, pend, client, req, sock, port, portSig, at, woken, todo,
                  passed, moving>>
  BY DEF engineVars, engineTask, deviceVars
<1>2. LibKeeps
  BY <1>1, LibStays DEF EngineInv, EngineTypes, EngineTypeOK
<1>3. TaskInv'
  BY <1>1 DEF EngineInv, TaskInv, Openers
<1>4. QED
  BY <1>1, <1>2, <1>3, QuietStep, ZeroIsChannel DEF EngineInv, EngineTypes, EngineTypeOK

LEMMA EngineNextInv == ASSUME Orderly, EngineInv, [EngineNext]_engineVars PROVE EngineInv'
<1>1. CASE EngineStep
  <2>1. ASSUME NEW c \in Channels,
               \/ UpdateChannel(c) \/ HandleState(c)
               \/ \E d \in Dirs : StartTransfer(c, d) \/ MoveBlock(c, d)
        PROVE  EngineInv'
    BY <2>1, UpdateChannelStep, HandleStateStep, StartTransferStep, MoveBlockStep
  <2>2. QED
    BY <1>1, <2>1, WakeForEventsStep, WakeForOthersStep, TakeRequestStep, TakeNothingStep
       DEF EngineStep
<1>2. CASE ClientStep
  <2>1. ASSUME NEW cl \in Clients, OpenDevice(cl) \/ CloseDevice(cl) PROVE EngineInv'
    BY <2>1, StartStep, OpenDeviceStep, CloseDeviceStep
  <2>2. ASSUME NEW r \in Requests, NEW cmd \in Commands, NEW arg \in Args(cmd),
               BeginIO(r, cmd, arg)
        PROVE  EngineInv'
    BY <2>2, BeginIOStep
  <2>3. QED
    BY <1>2, <2>1, <2>2 DEF ClientStep
<1>3. ASSUME NEW c \in Channels, EngineWork(c) PROVE EngineInv'
  BY <1>3, EngineWorkStep
<1>4. CASE UNCHANGED engineVars
  BY <1>4, EngineStays
<1>5. QED
  BY <1>1, <1>2, <1>3, <1>4 DEF EngineNext

LEMMA OneCopy ==
  ASSUME EngineTypes, DeskInv, NEW r \in Requests
  PROVE  Copies(r) = IF req[r].out THEN 1 ELSE 0
<1> DEFINE InThePort == {i \in DOMAIN port : port[i] = r}
           InSockets == {p \in Channels \X {"read", "write", "cmd"} : sock[p[1]][p[2]] = r}
<1>1. \A p \in InSockets : /\ p[1] \in Channels /\ p[2] \in SlotNames /\ p = <<p[1], p[2]>>
                           /\ sock[p[1]][p[2]] = r
  BY DEF SlotNames
<1>2. InSockets # {} => req[r].out /\ ~InPort(r)
  BY <1>1 DEF DeskInv, SocketInv
<1>3. Copies(r) = Cardinality(InThePort) + Cardinality(InSockets)
  BY DEF Copies
<1>4. CASE ~req[r].out
  <2>1. InThePort = {}
    BY <1>4 DEF DeskInv, RequestInv, InPort
  <2>2. InSockets = {}
    BY <1>2, <1>4
  <2> HIDE DEF InThePort, InSockets
  <2>3. QED
    BY <1>3, <1>4, <2>1, <2>2, FS_EmptySet
<1>5. CASE req[r].out /\ InPort(r)
  <2>1. PICK i \in DOMAIN port : port[i] = r
    BY <1>5 DEF InPort
  <2>2. InThePort = {i}
    BY <2>1 DEF DeskInv, PortInv
  <2>3. InSockets = {}
    BY <1>2, <1>5
  <2> HIDE DEF InThePort, InSockets
  <2>4. Cardinality(InThePort) = 1 /\ Cardinality(InSockets) = 0
    BY <2>2, <2>3, FS_EmptySet, FS_Singleton
  <2>5. QED
    BY <1>3, <1>5, <2>4
<1>6. CASE req[r].out /\ ~InPort(r)
  <2> DEFINE c == req[r].chan
             p == Slot(req[r].cmd)
  <2>1. InThePort = {}
    BY <1>6 DEF InPort
  <2>2. c \in Channels /\ sock[c][p] = r /\ p \in SlotNames
    BY <1>6, Slots DEF DeskInv, RequestInv
  <2>3. <<c, p>> \in InSockets
    BY <2>2 DEF SlotNames
  <2>4. ASSUME NEW q \in InSockets PROVE q = <<c, p>>
    <3>1. q[1] \in Channels /\ q[2] \in SlotNames /\ sock[q[1]][q[2]] = r /\ q = <<q[1], q[2]>>
      BY <1>1, <2>4
    <3>2. q[1] = c /\ q[2] = p
      BY <2>2, <3>1, Apart, Names
    <3>3. QED
      BY <3>1, <3>2
  <2> HIDE DEF InThePort, InSockets, c, p
  <2>5. InSockets = {<<c, p>>}
    BY <2>3, <2>4
  <2>6. Cardinality(InThePort) = 0 /\ Cardinality(InSockets) = 1
    BY <2>1, <2>5, FS_EmptySet, FS_Singleton
  <2>7. QED
    BY <1>3, <1>6, <2>6
<1>7. QED
  BY <1>4, <1>5, <1>6

(* The inductive invariant: the task, the channels with their copies and   *)
(* sockets, and the desk of requests stay consistent.                      *)
THEOREM EngineInvariant == ASSUME Orderly PROVE EngineSpec => []EngineInv
<1>1. EngineInit => EngineInv
  BY EngineInitInv
<1>2. EngineInv /\ [EngineNext]_engineVars => EngineInv'
  BY EngineNextInv
<1>3. QED
  BY <1>1, <1>2, PTL DEF EngineSpec

(* Every variable of the device, its engine and its clients keeps its      *)
(* type.                                                                   *)
THEOREM EngineTypeCorrect == ASSUME Orderly PROVE EngineSpec => []EngineTypeOK
<1>1. EngineInv => EngineTypeOK
  BY DEF EngineInv, EngineTypes
<1>2. QED
  BY <1>1, EngineInvariant, PTL

(* A request that was sent with DevBeginIO is in the port or in one slot   *)
(* of one socket until ReplyMsg, and in neither afterwards: the engine     *)
(* loses none and replies none twice.                                      *)
THEOREM OnePlaceSafe == ASSUME Orderly PROVE EngineSpec => []RequestsInOnePlace
<1>1. EngineInv => RequestsInOnePlace
  BY OneCopy DEF EngineInv, RequestsInOnePlace
<1>2. QED
  BY <1>1, EngineInvariant, PTL

(* handle_socket_status and pamela_req_handle find a socket for every      *)
(* event and every request: none goes through a NULL channel.              *)
THEOREM SocketsAliveSafe == ASSUME Orderly PROVE EngineSpec => []SocketsAlive
<1>1. EngineInv => SocketsAlive
  BY DEF EngineInv, TaskInv, SocketsAlive
<1>2. QED
  BY <1>1, EngineInvariant, PTL

(* A channel that the firmware has in use has a socket, whose client or    *)
(* whose failed open will close it.                                        *)
THEOREM NoOrphansSafe == ASSUME Orderly PROVE EngineSpec => []NoOrphans
<1>1. EngineInv => NoOrphans
  BY DEF EngineInv, ChannelInv, Alive, NoOrphans
<1>2. QED
  BY <1>1, EngineInvariant, PTL

(* The channel a client got with the answer to its open is served for this *)
(* client alone, until its close is answered.                              *)
THEOREM ChannelsOwnedSafe == ASSUME Orderly PROVE EngineSpec => []ChannelsOwned
<1>1. EngineInv => ChannelsOwned
  BY DEF EngineInv, DeskInv, ClientInv, ChannelsOwned
<1>2. QED
  BY <1>1, EngineInvariant, PTL
=============================================================================
