------------------------- MODULE PamelaLink_proofs --------------------------
(***************************************************************************)
(* For any number of channels, any handlers and any sizes: what a careful  *)
(* user of the library, the library's copy of a channel and the channel in *)
(* the firmware know of each other.                                        *)
(*                                                                         *)
(* The argument: a step changes one channel on one of the two sides.  So   *)
(* the invariant is one of a channel k, its copy l, the user's view of     *)
(* it (u and x) and whether its event was fetched (p), and each update of  *)
(* the firmware's channel is shown to keep it.                             *)
(***************************************************************************)
EXTENDS PamelaLink, PamelaDevice_proofs

(* The user of the test suite, who may also close during a reset, and need *)
(* not wait for a post-processing that never polls.                        *)
Careful ==
  /\ Liberties \subseteq {"interrupt", "rerequest"}
  /\ "rerequest" \in Liberties => \A d \in Dirs : "poll" \notin HandlerTable[0].post[d]

(* An empty request that the handler leaves as it is has no end to wait    *)
(* for.                                                                    *)
MayAsk(size) == "rerequest" \in Liberties => size # 0

Transitions == {"OPENING", "CLOSING", "RESETTING"}
Ended       == {"ERROR", "EOS"}

(* What only a close brings back: both sides know it.                      *)
Dead(k, l) == k.state \in Ended /\ l.view \in Ended

(* A change of state is known, announced or will be.                       *)
Told(k, l, p) ==
  l.view = k.state \/ k.event \/ p \/ k.state \in Transitions

(* The user's part in the life of a channel.                               *)
LifeInv(k, l, u) ==
  /\ u # "shared"
  /\ u = "free" => k.state = "INACTIVE" /\ l.view = "INACTIVE"
  /\ u \notin {"free", "opening"} => l.view # "INACTIVE"
  /\ u \in {"open", "resetting"} => k.service # NoService
  /\ u = "opening" => k.state # "RESETTING"
  /\ u = "open" => k.state \in {"ACTIVE"} \cup Ended
  /\ u = "failed" => k.state \in {"OPEN_ERROR"} \cup Ended
  /\ k.state = "INACTIVE" => /\ u \in {"free", "closing"}
                             /\ k.service = NoService
                             /\ \A d \in Dirs : k.bits[d] = {}
  /\ k.state = "CLOSING" => u = "closing"
  /\ l.mtu \in {0, k.mtu}

(* A request that is not ready, or whose answer was not seen.              *)
AskedInv(k, l, d) ==
  LET b == k.buf[d]
  IN  /\ k.bits[d] \in {{}, {"PRE"}, {"READY"}, {"READY", "SIZE"}}
      /\ MayAsk(l.left[d])
      /\ "PRE" \in k.bits[d] => b = [org |-> l.left[d], size |-> l.left[d],
                                     blk |-> 0, off |-> 0]
      /\ "READY" \in k.bits[d] =>
           /\ b.org = l.left[d] /\ b.off = 0 /\ b.blk = Smaller(b.size, k.mtu)
           /\ "SIZE" \in k.bits[d] <=> b.size # l.left[d]
      /\ "READY" \in l.bits[d] => l.bits[d] = k.bits[d]

(* In the block loop.                                                      *)
MovingInv(k, l, d) ==
  LET b == k.buf[d]
  IN  /\ k.bits[d] \in {{"READY"}, {"READY", "SIZE"}}
      /\ l.mtu # 0
      /\ l.left[d] = b.size - b.off /\ l.left[d] > 0
      /\ b.blk = Smaller(l.left[d], k.mtu)

XferInv(k, l, u, x, p, d) ==
  /\ x[d] # "idle" => u = "open"
  /\ x[d] = "idle" => k.bits[d] = {} \/ u = "closing" \/ Dead(k, l)
  /\ x[d] = "asked" => AskedInv(k, l, d)
  /\ x[d] = "asked" /\ "READY" \in k.bits[d]
       => "READY" \in l.bits[d] \/ k.event \/ p
  /\ x[d] = "moving" => MovingInv(k, l, d) /\ ~p
  /\ k.bits[d] # {} => k.buf[d].off + k.buf[d].blk <= k.buf[d].size

Fits(k, l, u, x, p) ==
  /\ Told(k, l, p)
  /\ LifeInv(k, l, u)
  /\ \A d \in Dirs : XferInv(k, l, u, x, p, d)

LinkInv ==
  /\ DeviceInv /\ LinkTypeOK
  /\ \A c \in Channels : Fits(chn[c], lib[c], use[c], xfer[c], c \in pend)

----------------------------------------------------------------------------
(* What the updates of a channel leave alone, and what they set. *)

(* All that a transfer of direction d may change.                          *)
SameBut(k, k2, d) ==
  /\ k2.mtu = k.mtu /\ k2.service = k.service
  /\ \A o \in Dirs : o # d => k2.bits[o] = k.bits[o] /\ k2.buf[o] = k.buf[o]

SameTransfers(k, k2) ==
  /\ k2.mtu = k.mtu /\ k2.service = k.service
  /\ k2.bits = k.bits /\ k2.buf = k.buf
  /\ k.event => k2.event

LEMMA OpenFields ==
  ASSUME NEW k \in Channel, NEW k2 \in OpenWork(k)
  PROVE  /\ SameTransfers(k, k2)
         /\ k2.state \in {"ACTIVE", "OPENING", "OPEN_ERROR"}
         /\ k2.state # "OPENING" => k2.event
<1>1. PICK r \in HandlerOf(k.service).open : k2 = Open(k, r)
  BY DEF OpenWork
<1>2. r \in Results
  BY HandlerType DEF HandlerRec
<1>3. QED
  BY <1>1, <1>2
     DEF Results, Open, Notify, SetState, SetOpenError, Channel, SameTransfers

LEMMA ResetFields ==
  ASSUME NEW k \in Channel, NEW k2 \in ResetWork(k)
  PROVE  /\ SameTransfers(k, k2)
         /\ k2.state \in {"ACTIVE", "RESETTING"}
         /\ k2.state # "RESETTING" => k2.event
  BY DEF ResetWork, Reset, Notify, SetState, Channel, SameTransfers

LEMMA EndStreamFields ==
  ASSUME NEW k \in Channel, NEW e \in {0, 3}
  PROVE  /\ SameTransfers(k, EndStream(k, e))
         /\ EndStream(k, e).state \in Ended /\ EndStream(k, e).event
  BY DEF EndStream, Notify, SetState, SetError, Channel, SameTransfers, Ended

LEMMA CloseDoneFields ==
  ASSUME NEW k \in Channel
  PROVE  LET k2 == CloseDone(k)
         IN  /\ k2.state = "INACTIVE" /\ k2.event /\ k2.service = NoService
             /\ k2.mtu = k.mtu /\ k2.buf = k.buf
             /\ k2.session = k.session /\ k2.task = k.task
             /\ \A d \in Dirs : k2.bits[d] = {}
  BY DEF CloseDone, Notify, Channel

LEMMA CloseFields ==
  ASSUME NEW k \in Channel, NEW k2 \in CloseWork(k)
  PROVE  \/ /\ k2.state = "INACTIVE" /\ k2.event /\ k2.service = NoService
            /\ k2.mtu = k.mtu /\ k2.buf = k.buf /\ \A d \in Dirs : k2.bits[d] = {}
         \/ SameTransfers(k, k2) /\ k2.state = "CLOSING"
<1>1. PICK r : k2 = Close(k, r)
  BY DEF CloseWork
<1>2. CASE r = "ok"
  <2> DEFINE k1 == [k EXCEPT !.session = "none"]
  <2>1. k1 \in Channel /\ k1.mtu = k.mtu /\ k1.buf = k.buf /\ k2 = CloseDone(k1)
    BY <1>1, <1>2 DEF Close, Channel
  <2> HIDE DEF k1
  <2>2. QED
    BY <2>1, CloseDoneFields
<1>3. CASE r # "ok"
  BY <1>1, <1>3 DEF Close, SetState, Channel, SameTransfers
<1>4. QED
  BY <1>2, <1>3

LEMMA ReplyFields ==
  ASSUME NEW k \in Channel, NEW d \in Dirs, NEW n \in Nat
  PROVE  LET k2 == Reply(k, d, n)
         IN  /\ SameBut(k, k2, d) /\ k2.state = k.state /\ k2.event
             /\ k2.bits[d] = (k.bits[d] \cup (IF k.buf[d].org # n THEN {"SIZE"} ELSE {})
                                \cup {"READY"}) \ {"PRE"}
             /\ k2.buf[d] = [org |-> k.buf[d].org, size |-> n, off |-> 0,
                             blk |-> Smaller(n, k.mtu)]
  BY DEF Reply, Notify, Channel, SameBut

LEMMA DoneFields ==
  ASSUME NEW k \in Channel, NEW d \in Dirs
  PROVE  LET k2 == Done(k, d)
         IN  /\ SameBut(k, k2, d) /\ k2.state = k.state /\ k2.event
             /\ k2.bits[d] = {} /\ k2.buf[d] = [k.buf[d] EXCEPT !.size = 0]
             /\ k2.task = k.task /\ k2.session = k.session
  BY DEF Done, Notify, Channel, SameBut

----------------------------------------------------------------------------
(* Changes of the state of a channel keep the invariant. *)

(* The transfers of a direction do not depend on the state, but for what   *)
(* an ended channel leaves behind.                                         *)
LEMMA SameTransfersKeepXfer ==
  ASSUME NEW k, NEW k2, NEW l, NEW u, NEW x, NEW p, NEW d \in Dirs,
         XferInv(k, l, u, x, p, d), SameTransfers(k, k2),
         k.state \in Ended => k2.state \in Ended
  PROVE  XferInv(k2, l, u, x, p, d)
  BY DEF XferInv, SameTransfers, AskedInv, MovingInv, Dead

LEMMA OpenWorkFits ==
  ASSUME NEW k \in Channel, NEW l, NEW u, NEW x, NEW p,
         Fits(k, l, u, x, p), k.state = "OPENING", NEW k2 \in OpenWork(k)
  PROVE  Fits(k2, l, u, x, p)
<1>1. /\ SameTransfers(k, k2)
      /\ k2.state # "OPENING" => k2.event
      /\ k2.state \in {"ACTIVE", "OPENING", "OPEN_ERROR"}
  BY OpenFields
<1>2. Told(k2, l, p)
  BY <1>1 DEF Told, Transitions
<1>3. LifeInv(k2, l, u)
  BY <1>1 DEF Fits, LifeInv, SameTransfers, Ended
<1>4. QED
  BY <1>1, <1>2, <1>3, SameTransfersKeepXfer DEF Fits, Ended

LEMMA ResetWorkFits ==
  ASSUME NEW k \in Channel, NEW l, NEW u, NEW x, NEW p,
         Fits(k, l, u, x, p), k.state = "RESETTING", NEW k2 \in ResetWork(k)
  PROVE  Fits(k2, l, u, x, p)
<1>1. /\ SameTransfers(k, k2)
      /\ k2.state # "RESETTING" => k2.event
      /\ k2.state \in {"ACTIVE", "RESETTING"}
  BY ResetFields
<1>2. Told(k2, l, p)
  BY <1>1 DEF Told, Transitions
<1>3. LifeInv(k2, l, u)
  BY <1>1 DEF Fits, LifeInv, SameTransfers, Ended
<1>4. QED
  BY <1>1, <1>2, <1>3, SameTransfersKeepXfer DEF Fits, Ended

LEMMA EndStreamFits ==
  ASSUME NEW k \in Channel, NEW l, NEW u, NEW x, NEW p,
         Fits(k, l, u, x, p), k.service # NoService, NEW e \in {0, 3}
  PROVE  Fits(EndStream(k, e), l, u, x, p)
<1> DEFINE k2 == EndStream(k, e)
<1>1. SameTransfers(k, k2) /\ k2.event /\ k2.state \in Ended
  BY EndStreamFields
<1> HIDE DEF k2
<1>2. Told(k2, l, p)
  BY <1>1 DEF Told
<1>3. LifeInv(k2, l, u)
  BY <1>1 DEF Fits, LifeInv, SameTransfers, Ended
<1>4. Fits(k2, l, u, x, p)
  BY <1>1, <1>2, <1>3, SameTransfersKeepXfer DEF Fits
<1>5. QED
  BY <1>4 DEF k2

(* A close, asked for by the user or going on.                             *)
LEMMA ClosedFits ==
  ASSUME NEW k \in Channel, NEW l, NEW u, NEW x, NEW p, NEW k2,
         u = "closing", \A d \in Dirs : x[d] = "idle", l.view # "INACTIVE",
         l.mtu \in {0, k.mtu}, \A d \in Dirs : XferInv(k, l, u, x, p, d),
         \/ k2 \in CloseWork(k)
         \/ k2 = CloseDone(k)
  PROVE  Fits(k2, l, u, x, p)
<1>1. \/ /\ k2.state = "INACTIVE" /\ k2.event /\ k2.service = NoService
         /\ k2.mtu = k.mtu /\ k2.buf = k.buf /\ \A d \in Dirs : k2.bits[d] = {}
      \/ SameTransfers(k, k2) /\ k2.state = "CLOSING"
  BY CloseFields, CloseDoneFields
<1>2. Told(k2, l, p)
  BY <1>1 DEF Told, Transitions
<1>3. LifeInv(k2, l, u)
  BY <1>1 DEF LifeInv, SameTransfers, Ended
<1>4. \A d \in Dirs : XferInv(k2, l, u, x, p, d)
  BY <1>1 DEF XferInv, SameTransfers
<1>5. QED
  BY <1>2, <1>3, <1>4 DEF Fits

----------------------------------------------------------------------------
(* The pre- and post-processing of a request keep the invariant. *)

(* What the stages of a pass may be at.                                    *)
LEMMA BusyIsAlive ==
  ASSUME NEW k, NEW l, NEW u, LifeInv(k, l, u),
         NEW d \in Dirs, k.bits[d] # {}
  PROVE  k.state # "INACTIVE" /\ u # "free"
  BY DEF LifeInv

(* The other direction is not disturbed, even if the request fails.        *)
LEMMA OtherDirection ==
  ASSUME NEW k, NEW k2, NEW l, NEW u, NEW x, NEW p, NEW d \in Dirs,
         SameBut(k, k2, d), k.event => k2.event,
         k2.state \in {k.state, "ERROR"},
         NEW o \in Dirs, o # d, XferInv(k, l, u, x, p, o)
  PROVE  XferInv(k2, l, u, x, p, o)
<1>1. /\ k2.bits[o] = k.bits[o] /\ k2.buf[o] = k.buf[o] /\ k2.mtu = k.mtu
      /\ Dead(k, l) => Dead(k2, l)
  BY DEF SameBut, Dead, Ended
<1>2. QED
  BY <1>1 DEF XferInv, AskedInv, MovingInv

LEMMA SameLife ==
  ASSUME NEW k, NEW k2, NEW l, NEW u, LifeInv(k, l, u),
         k2.mtu = k.mtu, k2.service = k.service,
         k.state # "INACTIVE", u # "free",
         k2.state \in {k.state, "ERROR"}
  PROVE  LifeInv(k2, l, u)
  BY DEF LifeInv, Ended

(* A request ends, well or with an error.                                  *)
LEMMA EndedFits ==
  ASSUME NEW k, NEW k2, NEW l, NEW u, NEW x, NEW p, NEW d \in Dirs,
         Fits(k, l, u, x, p), k.bits[d] # {},
         x[d] # "moving", x[d] = "asked" => "READY" \notin l.bits[d],
         SameBut(k, k2, d), k2.event, k2.bits[d] = {},
         k2.state \in {k.state, "ERROR"}
  PROVE  Fits(k2, l, u, x, p)
<1>1. Told(k2, l, p)
  BY DEF Told
<1>2. LifeInv(k2, l, u)
  BY BusyIsAlive, SameLife DEF Fits, SameBut
<1>3. XferInv(k2, l, u, x, p, d)
  BY DEF Fits, XferInv, AskedInv
<1>4. \A o \in Dirs : o # d => XferInv(k2, l, u, x, p, o)
  BY OtherDirection DEF Fits
<1>5. QED
  BY <1>1, <1>2, <1>3, <1>4 DEF Fits

(* The stages a request is processed in are not those of the user's moves. *)
LEMMA StageBits ==
  ASSUME NEW k, NEW l, NEW d
  PROVE  /\ AskedInv(k, l, d) => "POST" \notin k.bits[d]
         /\ AskedInv(k, l, d) /\ "PRE" \in k.bits[d]
              => k.bits[d] = {"PRE"} /\ "READY" \notin l.bits[d]
         /\ MovingInv(k, l, d) => "PRE" \notin k.bits[d] /\ "POST" \notin k.bits[d]
<1>1. MovingInv(k, l, d) => "PRE" \notin k.bits[d] /\ "POST" \notin k.bits[d]
  BY DEF MovingInv
<1>2. AskedInv(k, l, d) => "POST" \notin k.bits[d]
  BY DEF AskedInv
<1>3. ASSUME AskedInv(k, l, d), "PRE" \in k.bits[d]
      PROVE  k.bits[d] = {"PRE"} /\ "READY" \notin l.bits[d]
  <2>1. k.bits[d] = {"PRE"}
    BY <1>3 DEF AskedInv
  <2>2. "READY" \in l.bits[d] => l.bits[d] = k.bits[d]
    BY <1>3 DEF AskedInv
  <2>3. QED
    BY <2>1, <2>2
<1>4. QED
  BY <1>1, <1>2, <1>3

LEMMA SmallerBounds ==
  ASSUME NEW a \in Nat, NEW b \in Nat
  PROVE  /\ Smaller(a, b) <= a /\ Smaller(a, b) <= b
         /\ Smaller(a, b) = 0 => a = 0 \/ b = 0
  BY DEF Smaller

(* The handler accepts a request.                                          *)
LEMMA ReplyFits ==
  ASSUME NEW k \in Channel, NEW l, NEW u, NEW x, NEW p, NEW d \in Dirs,
         Fits(k, l, u, x, p), "PRE" \in k.bits[d], NEW n \in Nat
  PROVE  Fits(Reply(k, d, n), l, u, x, p)
<1> DEFINE k2 == Reply(k, d, n)
           b2 == k2.buf[d]
<1>1. /\ SameBut(k, k2, d) /\ k2.state = k.state /\ k2.event
      /\ k2.bits[d] = (k.bits[d] \cup (IF k.buf[d].org # n THEN {"SIZE"} ELSE {})
                         \cup {"READY"}) \ {"PRE"}
      /\ b2 = [org |-> k.buf[d].org, size |-> n, off |-> 0,
               blk |-> Smaller(n, k.mtu)]
      /\ k2.mtu = k.mtu
  BY ReplyFields DEF SameBut
<1> HIDE DEF k2
<1>2. Told(k2, l, p)
  BY <1>1 DEF Told
<1>3. LifeInv(k2, l, u)
  BY <1>1, BusyIsAlive, SameLife DEF Fits, SameBut
<1>4. XferInv(k2, l, u, x, p, d)
  <2>1. XferInv(k, l, u, x, p, d)
    BY DEF Fits
  <2>2. x[d] = "idle" => u = "closing" \/ Dead(k2, l)
    BY <1>1, <2>1 DEF XferInv, Dead
  <2>3. ASSUME x[d] = "asked" PROVE AskedInv(k2, l, d)
    <3>1. /\ k.bits[d] = {"PRE"} /\ k.buf[d].org = l.left[d]
          /\ MayAsk(l.left[d])
      BY <2>1, <2>3 DEF XferInv, AskedInv
    <3>2. "READY" \notin l.bits[d]
      BY <2>1, <2>3, <3>1 DEF XferInv, AskedInv
    <3>3. k2.bits[d] = IF l.left[d] # n THEN {"READY", "SIZE"} ELSE {"READY"}
      BY <1>1, <3>1
    <3>4. b2.org = l.left[d] /\ b2.off = 0 /\ b2.size = n /\ b2.blk = Smaller(n, k2.mtu)
      BY <1>1, <3>1
    <3>5. QED
      BY <3>1, <3>2, <3>3, <3>4 DEF AskedInv
  <2>4. x[d] # "moving"
    BY <2>1 DEF XferInv, MovingInv
  <2>5. b2.off + b2.blk <= b2.size
    BY <1>1, SmallerBounds, SmallerType DEF Channel
  <2>6. QED
    BY <1>1, <2>1, <2>2, <2>3, <2>4, <2>5 DEF XferInv
<1>5. \A o \in Dirs : o # d => XferInv(k2, l, u, x, p, o)
  BY <1>1, OtherDirection DEF Fits
<1>6. QED
  BY <1>2, <1>3, <1>4, <1>5 DEF Fits, k2

LEMMA PreWorkFits ==
  ASSUME NEW k \in Channel, NEW l, NEW u, NEW x, NEW p, NEW d \in Dirs,
         Fits(k, l, u, x, p), "PRE" \in k.bits[d], NEW k2 \in PreWork(k, d)
  PROVE  Fits(k2, l, u, x, p)
<1> DEFINE h == HandlerOf(k.service)
<1>1. h \in HandlerRec /\ k.buf[d].size \in Nat
  BY HandlerType DEF Channel, Buf
<1>2. PICK r \in h.pre[d], n \in {k.buf[d].size} \cup {m \in h.cuts[d] : m < k.buf[d].size} :
        k2 = Pre(k, d, r, n)
  BY DEF PreWork
<1>3. r \in Results /\ n \in Nat
  BY <1>1, <1>2 DEF HandlerRec
<1>4. CASE r = "ok"
  BY <1>2, <1>3, <1>4, ReplyFits DEF Pre
<1>5. CASE r = "poll"
  BY <1>2, <1>5 DEF Pre
<1>6. CASE r = "err"
  <2> DEFINE k1 == SetError(k, 3)
  <2>1. k1 \in Channel
    BY SetErrorKeeps DEF Keeps, Errors
  <2>2. /\ k1.mtu = k.mtu /\ k1.service = k.service
        /\ k1.bits = k.bits /\ k1.buf = k.buf /\ k1.state = "ERROR"
    BY DEF SetError, Channel
  <2>3. k2 = Done(k1, d)
    BY <1>2, <1>6 DEF Pre
  <2> HIDE DEF k1
  <2>4. /\ SameBut(k, k2, d) /\ k2.event /\ k2.bits[d] = {} /\ k2.state = "ERROR"
    <3>1. /\ SameBut(k1, k2, d) /\ k2.state = k1.state
          /\ k2.event /\ k2.bits[d] = {}
      BY <2>1, <2>3, DoneFields
    <3>2. QED
      BY <2>2, <3>1 DEF SameBut
  <2>5. x[d] # "moving" /\ (x[d] = "asked" => "READY" \notin l.bits[d])
    BY StageBits DEF Fits, XferInv
  <2>6. QED
    BY <2>4, <2>5, EndedFits
<1>7. QED
  BY <1>3, <1>4, <1>5, <1>6 DEF Results

LEMMA PostFields ==
  ASSUME NEW k \in Channel, NEW d \in Dirs, NEW k2 \in PostWork(k, d)
  PROVE  \/ k2 = k /\ "poll" \in HandlerTable[0].post[d]
         \/ /\ SameBut(k, k2, d) /\ k2.event /\ k2.bits[d] = {}
            /\ k2.buf[d] = [k.buf[d] EXCEPT !.size = 0]
            /\ k2.state \in {k.state, "ERROR"}
<1> DEFINE h == HandlerOf(k.service)
<1>1. PICK r \in h.post[d], t \in TaskStarts(h, d) : k2 = Post(k, d, r, t)
  BY DEF PostWork
<1>2. r \in Results /\ t \in BOOLEAN
  <2>1. h.post \in [Dirs -> SUBSET Results]
    BY HandlerType DEF HandlerRec
  <2>2. t \in BOOLEAN
    BY DEF TaskStarts
  <2>3. QED
    BY <2>1, <2>2
<1>3. CASE r = "poll"
  BY <1>1, <1>3 DEF Post, HandlerOf, SrvId
<1>4. CASE r = "ok" \/ r = "err"
  <2> DEFINE k1 == IF r = "ok" THEN [k EXCEPT !.task = @ \/ t] ELSE SetError(k, 3)
  <2>1. k1 \in Channel
    <3>1. CASE r = "ok"
      BY <1>2, <3>1 DEF Channel
    <3>2. CASE r = "err"
      BY <3>2, SetErrorKeeps DEF Keeps, Errors
    <3>3. QED
      BY <1>4, <3>1, <3>2
  <2>2. /\ k1.mtu = k.mtu /\ k1.service = k.service
        /\ k1.bits = k.bits /\ k1.buf = k.buf /\ k1.state \in {k.state, "ERROR"}
    BY DEF SetError, Channel
  <2>3. k2 = Done(k1, d)
    BY <1>1, <1>4 DEF Post
  <2> HIDE DEF k1
  <2>4. /\ SameBut(k1, k2, d) /\ k2.state = k1.state
        /\ k2.event /\ k2.bits[d] = {} /\ k2.buf[d] = [k1.buf[d] EXCEPT !.size = 0]
    BY <2>1, <2>3, DoneFields
  <2>5. QED
    BY <2>2, <2>4 DEF SameBut
<1>5. QED
  BY <1>2, <1>3, <1>4 DEF Results

(* A post-processing that does not poll ends the request.                  *)
LEMMA PostEnds ==
  ASSUME NEW k \in Channel, NEW d \in Dirs, NEW k2 \in PostWork(k, d),
         "poll" \notin HandlerTable[0].post[d]
  PROVE  k2.bits[d] = {}
  BY PostFields

LEMMA PostWorkFits ==
  ASSUME NEW k \in Channel, NEW l, NEW u, NEW x, NEW p, NEW d \in Dirs,
         Fits(k, l, u, x, p), "POST" \in k.bits[d], NEW k2 \in PostWork(k, d)
  PROVE  Fits(k2, l, u, x, p)
<1>1. x[d] # "moving" /\ x[d] # "asked"
  BY StageBits DEF Fits, XferInv
<1>2. QED
  BY <1>1, PostFields, EndedFits

LEMMA StageFits ==
  ASSUME NEW l, NEW u, NEW x, NEW p, NEW d \in Dirs, NEW bit \in {"PRE", "POST"},
         NEW S, \A k \in S : k \in Channel /\ Fits(k, l, u, x, p),
         NEW k2 \in Stage(S, d, bit)
  PROVE  k2 \in Channel /\ Fits(k2, l, u, x, p)
<1>1. PICK k \in S : k2 \in IF bit \notin k.bits[d] THEN {k}
                            ELSE IF bit = "PRE" THEN PreWork(k, d)
                            ELSE PostWork(k, d)
  BY DEF Stage
<1>2. k \in Channel /\ Fits(k, l, u, x, p)
  OBVIOUS
<1>3. k2 \in Channel
  BY <1>1, <1>2, PreWorkKeeps, PostWorkKeeps DEF Keeps
<1>4. QED
  BY <1>1, <1>2, <1>3, PreWorkFits, PostWorkFits

----------------------------------------------------------------------------
(* A piece of the firmware's work keeps the invariant. *)

LEMMA ActiveWorkFits ==
  ASSUME DeviceInv, NEW c \in Channels, NEW l, NEW u, NEW x, NEW p,
         Fits(chn[c], l, u, x, p), ActiveWork(c)
  PROVE  Fits(chn'[c], l, u, x, p)
<1> DEFINE Good(S) == \A k \in S : k \in Channel /\ Fits(k, l, u, x, p)
           S0 == {chn[c]}
           S1 == Stage(S0, "read", "PRE")
           S2 == Stage(S1, "read", "POST")
           S3 == Stage(S2, "write", "PRE")
           S4 == Stage(S3, "write", "POST")
<1>1. Good(S0)
  BY DEF DeviceInv, TypeOK
<1>2. chn'[c] \in S4
  BY BecomesOne DEF ActiveWork
<1> "read" \in Dirs /\ "write" \in Dirs
  BY DEF Dirs
<1> HIDE DEF S0
<1>3. Good(S1)
  BY <1>1, StageFits
<1> HIDE DEF S1
<1>4. Good(S2)
  BY <1>3, StageFits
<1> HIDE DEF S2
<1>5. Good(S3)
  BY <1>4, StageFits
<1> HIDE DEF S3
<1>6. Good(S4)
  BY <1>5, StageFits
<1> HIDE DEF S4
<1>7. QED
  BY <1>2, <1>6

LEMMA ChannelTaskFits ==
  ASSUME DeviceInv, NEW c \in Channels, NEW l, NEW u, NEW x, NEW p,
         Fits(chn[c], l, u, x, p), ChannelTask(c)
  PROVE  Fits(chn'[c], l, u, x, p)
<1> DEFINE k   == chn[c]
           off == [k EXCEPT !.task = FALSE]
<1>1. k \in Channel
  BY DEF DeviceInv, TypeOK
<1>2. CASE Bound(c)
  <2>1. chn'[c] \in {k, off, EndStream(off, 0), EndStream(off, 3)}
    BY <1>2, BecomesOne DEF ChannelTask
  <2>2. /\ off \in Channel /\ SameTransfers(k, off)
        /\ off.state = k.state /\ off.event = k.event /\ off.service # NoService
    BY <1>1, <1>2 DEF Channel, SameTransfers, Bound
  <2> HIDE DEF off
  <2>3. Fits(off, l, u, x, p)
    <3>1. Told(off, l, p)
      BY <2>2 DEF Fits, Told
    <3>2. LifeInv(off, l, u)
      BY <2>2 DEF Fits, LifeInv, SameTransfers
    <3>3. QED
      BY <2>2, <3>1, <3>2, SameTransfersKeepXfer DEF Fits
  <2>4. QED
    BY <2>1, <2>2, <2>3, EndStreamFits
<1>3. CASE ~Bound(c)
  BY <1>3 DEF ChannelTask, Hang
<1>4. QED
  BY <1>2, <1>3

LEMMA WorkFits ==
  ASSUME DeviceInv, NEW c \in Channels, NEW l, NEW u, NEW x, NEW p,
         Fits(chn[c], l, u, x, p), Work(c)
  PROVE  Fits(chn'[c], l, u, x, p)
<1> DEFINE k == chn[c]
<1>1. k \in Channel
  BY DEF DeviceInv, TypeOK
<1>2. CASE OpeningWork(c)
  BY <1>1, <1>2, BecomesOne, OpenWorkFits DEF OpeningWork
<1>3. CASE ResettingWork(c)
  BY <1>1, <1>3, BecomesOne, ResetWorkFits DEF ResettingWork
<1>4. CASE ClosingWork(c)
  <2>1. chn'[c] \in CloseWork(k) /\ k.state = "CLOSING"
    BY <1>4, BecomesOne DEF ClosingWork
  <2>2. u = "closing" /\ l.view # "INACTIVE" /\ l.mtu \in {0, k.mtu}
    BY <2>1 DEF Fits, LifeInv
  <2>3. \A d \in Dirs : x[d] = "idle" /\ XferInv(k, l, u, x, p, d)
    BY <2>2 DEF Fits, XferInv
  <2>4. QED
    BY <1>1, <2>1, <2>2, <2>3, ClosedFits
<1>5. CASE ActiveWork(c)
  BY <1>5, ActiveWorkFits
<1>6. CASE ChannelTask(c)
  BY <1>6, ChannelTaskFits
<1>7. QED
  BY <1>2, <1>3, <1>4, <1>5, <1>6 DEF Work

----------------------------------------------------------------------------
(* A step that concerns one channel keeps the invariant, if that channel   *)
(* still fits. *)

Others(c) ==
  /\ pend' = pend
  /\ \A o \in Channels : o # c => /\ chn'[o] = chn[o] /\ lib'[o] = lib[o]
                                  /\ use'[o] = use[o] /\ xfer'[o] = xfer[o]

Mine(c) == Fits(chn[c], lib[c], use[c], xfer[c], c \in pend)

LEMMA OneFits ==
  ASSUME LinkInv, NEW c \in Channels, Others(c), DeviceInv', LinkTypeOK',
         Mine(c)'
  PROVE  LinkInv'
<1>1. \A o \in Channels : o # c =>
        Fits(chn'[o], lib'[o], use'[o], xfer'[o], o \in pend')
  BY DEF LinkInv, Others
<1>2. Fits(chn'[c], lib'[c], use'[c], xfer'[c], c \in pend')
  BY DEF Mine
<1>3. QED
  BY <1>1, <1>2 DEF LinkInv

LEMMA DeviceWorkKeeps ==
  ASSUME LinkInv, NEW c \in Channels, DeviceWork(c) PROVE LinkInv'
<1>1. Work(c) /\ UNCHANGED <<lib, use, xfer, pend>>
  BY DEF DeviceWork
<1>2. DeviceInv'
  BY <1>1, WorkLegit, OneChangePreserves, StaysPreserves DEF LinkInv
<1>3. LinkTypeOK'
  BY <1>1, <1>2 DEF LinkInv, LinkTypeOK, DeviceInv, LibTypeOK
<1>4. \A o \in Channels : o # c => chn'[o] = chn[o]
  BY <1>1, BecomesOne DEF LinkInv, Work, OpeningWork, ClosingWork, ResettingWork,
                          ActiveWork, ChannelTask, Hang
<1>5. Mine(c)'
  BY <1>1, WorkFits DEF LinkInv, Mine
<1>6. QED
  BY <1>1, <1>2, <1>3, <1>4, <1>5, OneFits DEF Others

----------------------------------------------------------------------------
(* The calls of the user keep the invariant. *)

LEMMA UserStep ==
  ASSUME LinkInv, NEW c \in Channels, OneChange(c) \/ KeepsAll,
         NEW l2 \in LibChannel, NEW u2 \in Uses, NEW x2 \in [Dirs -> Xfers],
         lib' = [lib EXCEPT ![c] = l2], use' = [use EXCEPT ![c] = u2],
         xfer' = [xfer EXCEPT ![c] = x2], pend' = pend,
         Fits(chn'[c], l2, u2, x2, c \in pend)
  PROVE  LinkInv'
<1>1. /\ lib \in [Channels -> LibChannel] /\ use \in [Channels -> Uses]
      /\ xfer \in [Channels -> [Dirs -> Xfers]] /\ pend \subseteq Channels
  BY DEF LinkInv, LinkTypeOK, LibTypeOK
<1>2. DeviceInv' /\ \A o \in Channels : o # c => chn'[o] = chn[o]
  BY DeviceStep DEF LinkInv
<1>3. LinkTypeOK'
  BY <1>1, <1>2 DEF LinkTypeOK, LibTypeOK, DeviceInv
<1>4. Others(c)
  BY <1>1, <1>2 DEF Others
<1>5. lib'[c] = l2 /\ use'[c] = u2 /\ xfer'[c] = x2
  BY <1>1
<1>6. Mine(c)'
  BY <1>5 DEF Mine
<1>7. QED
  BY <1>2, <1>3, <1>4, <1>6, OneFits

(* What a step of channel c starts from.                                   *)
LEMMA Before ==
  ASSUME LinkInv, NEW c \in Channels
  PROVE  /\ DeviceInv /\ chn[c] \in Channel /\ lib[c] \in LibChannel
         /\ use[c] \in Uses /\ xfer[c] \in [Dirs -> Xfers]
         /\ Fits(chn[c], lib[c], use[c], xfer[c], c \in pend)
  BY DEF LinkInv, DeviceInv, TypeOK, LinkTypeOK, LibTypeOK

LEMMA NoXferType == NoXfer \in [Dirs -> Xfers] /\ \A d \in Dirs : NoXfer[d] = "idle"
  BY DEF NoXfer, Xfers

LEMMA OpenChannelKeeps ==
  ASSUME Careful, LinkInv, NEW c \in Channels, NEW port, OpenChannel(c, port)
  PROVE  LinkInv'
<1> DEFINE k  == chn[c]
           u  == use[c]
           x  == xfer[c]
           l2 == [lib[c] EXCEPT !.mtu = 0]
<1>1. /\ DeviceInv /\ k \in Channel /\ lib[c] \in LibChannel
      /\ u \in Uses /\ x \in [Dirs -> Xfers]
      /\ Fits(k, lib[c], u, x, c \in pend)
  BY Before
<1>2. u # "opening" /\ lib[c].view = "INACTIVE"
  BY DEF OpenChannel, Careful, LibOpen, IsFreeChannel
<1>3. u = "free"
  BY <1>1, <1>2 DEF Fits, LifeInv
<1>4. k.state = "INACTIVE" /\ \A d \in Dirs : k.bits[d] = {} /\ x[d] = "idle"
  BY <1>1, <1>3 DEF Fits, LifeInv, XferInv
<1>5. l2 \in LibChannel /\ l2.view = "INACTIVE" /\ l2.mtu = 0
  BY <1>1, <1>2 DEF LibChannel
<1>6. OneChange(c)
  BY <1>1, CmdOpenLegit DEF OpenChannel, LibOpen
<1>7. /\ chn'[c].state \in {"ACTIVE", "OPENING", "OPEN_ERROR"}
      /\ chn'[c].state # "OPENING" => chn'[c].event
      /\ \A d \in Dirs : chn'[c].bits[d] = {}
  <2>1. ASSUME NEW e, chn'[c] = Notify(SetOpenError(k, e))
        PROVE  /\ chn'[c].state = "OPEN_ERROR" /\ chn'[c].event
               /\ chn'[c].bits = k.bits
    BY <1>1, <2>1 DEF Notify, SetOpenError, Channel
  <2>2. ASSUME NEW srv \in Services, NEW sl \in FreeSlots(srv),
               chn'[c] \in OpenWork([k EXCEPT !.service = srv, !.slot = sl,
                                              !.mtu = HandlerOf(srv).defMtu])
        PROVE  /\ chn'[c].state \in {"ACTIVE", "OPENING", "OPEN_ERROR"}
               /\ chn'[c].state # "OPENING" => chn'[c].event
               /\ chn'[c].bits = k.bits
    <3> DEFINE k1 == [k EXCEPT !.service = srv, !.slot = sl, !.mtu = HandlerOf(srv).defMtu]
    <3>1. HandlerOf(srv).defMtu \in Nat /\ sl \in 0 .. EmptySlot
      BY HandlerType, SlotNumbers DEF HandlerRec
    <3>2. k1 \in Channel /\ k1.bits = k.bits
      BY <1>1, <3>1 DEF Channel
    <3> HIDE DEF k1
    <3>3. QED
      BY <2>2, <3>2, OpenFields DEF k1, SameTransfers
  <2>3. CASE \E e : Becomes(c, {Notify(SetOpenError(k, e))})
    BY <1>1, <1>4, <2>1, <2>3, BecomesOne
  <2>4. ASSUME NEW srv \in Services, NEW sl \in FreeSlots(srv),
               Becomes(c, OpenWork([k EXCEPT !.service = srv, !.slot = sl,
                                             !.mtu = HandlerOf(srv).defMtu]))
        PROVE  /\ chn'[c].state \in {"ACTIVE", "OPENING", "OPEN_ERROR"}
               /\ chn'[c].state # "OPENING" => chn'[c].event
               /\ chn'[c].bits = k.bits
    BY <1>1, <2>2, <2>4, BecomesOne
  <2>5. QED
    BY <1>4, <2>3, <2>4 DEF OpenChannel, LibOpen, CmdOpen
<1>8. Fits(chn'[c], l2, "opening", x, c \in pend)
  <2>1. Told(chn'[c], l2, c \in pend)
    BY <1>7 DEF Told, Transitions
  <2>2. LifeInv(chn'[c], l2, "opening")
    BY <1>5, <1>7 DEF LifeInv, Ended
  <2>3. \A d \in Dirs : XferInv(chn'[c], l2, "opening", x, c \in pend, d)
    BY <1>4, <1>7 DEF XferInv
  <2>4. QED
    BY <2>1, <2>2, <2>3 DEF Fits
<1>9. /\ lib' = [lib EXCEPT ![c] = l2] /\ pend' = pend
      /\ use' = [use EXCEPT ![c] = "opening"] /\ xfer' = [xfer EXCEPT ![c] = x]
  BY <1>3 DEF OpenChannel, LibOpen, LinkInv, LinkTypeOK, LibTypeOK
<1> HIDE DEF l2
<1>10. QED
  BY <1>1, <1>5, <1>6, <1>8, <1>9, UserStep DEF Uses

LEMMA CloseChannelKeeps ==
  ASSUME Careful, LinkInv, NEW c \in Channels, CloseChannel(c)
  PROVE  LinkInv'
<1> DEFINE k  == chn[c]
           l  == lib[c]
           u  == use[c]
           l2 == [lib[c] EXCEPT !.mtu = 0]
           p  == c \in pend
<1>1. /\ DeviceInv /\ k \in Channel /\ l \in LibChannel
      /\ Fits(k, l, u, xfer[c], p)
  BY Before
<1>2. u \in {"open", "failed", "resetting"}
  BY DEF CloseChannel
<1>3. /\ l2 \in LibChannel /\ l2.view = l.view /\ l2.mtu = 0
      /\ l2.view # "INACTIVE"
  BY <1>1, <1>2 DEF LibChannel, Fits, LifeInv
<1> HIDE DEF l2
<1>4. \A d \in Dirs : XferInv(k, l2, "closing", NoXfer, p, d)
  BY <1>1, NoXferType DEF Fits, XferInv
<1>5. CmdClose(c)
  BY DEF CloseChannel, LibClose
<1>6. Fits(chn'[c], l2, "closing", NoXfer, p)
  <2>1. CASE Hang
    <3>1. chn'[c] = k
      BY <2>1 DEF Hang
    <3>2. Told(k, l2, p)
      BY <1>1, <1>3 DEF Fits, Told
    <3>3. LifeInv(k, l2, "closing")
      BY <1>1, <1>2, <1>3 DEF Fits, LifeInv
    <3>4. QED
      BY <1>4, <3>1, <3>2, <3>3 DEF Fits
  <2>2. CASE ~Hang
    <3>1. chn'[c] \in CloseWork(k) \/ chn'[c] = CloseDone(k)
      BY <1>1, <1>5, <2>2, BecomesOne DEF CmdClose
    <3>2. QED
      BY <1>1, <1>3, <1>4, <3>1, NoXferType, ClosedFits
  <2>3. QED
    BY <2>1, <2>2
<1>7. /\ lib' = [lib EXCEPT ![c] = l2] /\ pend' = pend
      /\ use' = [use EXCEPT ![c] = "closing"] /\ xfer' = [xfer EXCEPT ![c] = NoXfer]
  BY DEF CloseChannel, LibClose, l2
<1>8. OneChange(c) \/ KeepsAll
  BY <1>1, <1>5, CmdCloseLegit
<1>9. QED
  BY <1>3, <1>6, <1>7, <1>8, NoXferType, UserStep DEF Uses

(* Only a channel that the library sees alive serves its user's calls.     *)
LEMMA SeenActive ==
  ASSUME LinkInv, NEW c \in Channels, use[c] = "open", IsActive(c)
  PROVE  /\ Bound(c) /\ lib[c].view = "ACTIVE"
         /\ \A d \in Dirs : xfer[c][d] = "idle" => chn[c].bits[d] = {}
<1>1. Fits(chn[c], lib[c], use[c], xfer[c], c \in pend)
  BY Before
<1>2. ~Dead(chn[c], lib[c])
  BY DEF IsActive, Dead, Ended
<1>3. QED
  BY <1>1, <1>2 DEF Fits, LifeInv, XferInv, Bound, IsActive

LEMMA ResetChannelKeeps ==
  ASSUME Careful, LinkInv, NEW c \in Channels, ResetChannel(c)
  PROVE  LinkInv'
<1> DEFINE k == chn[c]
           l == lib[c]
           p == c \in pend
<1>1. /\ DeviceInv /\ k \in Channel /\ l \in LibChannel
      /\ Fits(k, l, "open", xfer[c], p)
  BY Before DEF ResetChannel
<1>2. xfer[c] = NoXfer /\ CmdReset(c) /\ Bound(c) /\ l.view = "ACTIVE"
  BY SeenActive DEF ResetChannel, LibReset, Careful, Quiet
<1>3. \A d \in Dirs : k.bits[d] = {}
  BY <1>2, NoXferType, SeenActive DEF ResetChannel, LibReset
<1>4. /\ SameTransfers(k, chn'[c]) /\ chn'[c].state \in {"ACTIVE", "RESETTING"}
      /\ chn'[c].state # "RESETTING" => chn'[c].event
  BY <1>1, <1>2, BecomesOne, ResetFields DEF CmdReset
<1>5. Fits(chn'[c], l, "resetting", NoXfer, p)
  <2>1. Told(chn'[c], l, p)
    BY <1>4 DEF Told, Transitions
  <2>2. LifeInv(chn'[c], l, "resetting")
    BY <1>1, <1>2, <1>4 DEF Fits, LifeInv, SameTransfers, Ended
  <2>3. \A d \in Dirs : XferInv(chn'[c], l, "resetting", NoXfer, p, d)
    BY <1>3, <1>4, NoXferType DEF XferInv, SameTransfers
  <2>4. QED
    BY <2>1, <2>2, <2>3 DEF Fits
<1>6. /\ lib' = [lib EXCEPT ![c] = l] /\ pend' = pend
      /\ use' = [use EXCEPT ![c] = "resetting"] /\ xfer' = [xfer EXCEPT ![c] = NoXfer]
  BY DEF ResetChannel, LibReset, LinkInv, LinkTypeOK, LibTypeOK
<1>7. OneChange(c) \/ KeepsAll
  BY <1>1, <1>2, CmdResetLegit
<1>8. QED
  BY <1>1, <1>5, <1>6, <1>7, NoXferType, UserStep DEF Uses

(* The MTU concerns a request that is ready and a transfer; there is none. *)
LEMMA MtuFits ==
  ASSUME NEW k, NEW k2, NEW l, NEW l2, NEW x, NEW p,
         Fits(k, l, "open", x, p),
         k2.state = k.state, k2.bits = k.bits, k2.buf = k.buf,
         k2.event = k.event, k2.service = k.service,
         l2.view = l.view, l2.bits = l.bits, l2.left = l.left, l2.mtu = k2.mtu,
         \A d \in Dirs : /\ x[d] # "moving"
                         /\ x[d] = "idle" \/ k2.mtu = k.mtu
  PROVE  Fits(k2, l2, "open", x, p)
<1>1. Told(k2, l2, p)
  BY DEF Fits, Told
<1>2. LifeInv(k2, l2, "open")
  BY DEF Fits, LifeInv
<1>3. \A d \in Dirs : XferInv(k2, l2, "open", x, p, d)
  BY DEF Fits, XferInv, AskedInv, Dead
<1>4. QED
  BY <1>1, <1>2, <1>3 DEF Fits

LEMMA GetMtuKeeps ==
  ASSUME LinkInv, NEW c \in Channels, GetMtu(c) PROVE LinkInv'
<1> DEFINE k  == chn[c]
           l2 == [lib[c] EXCEPT !.mtu = k.mtu]
<1>1. /\ DeviceInv /\ k \in Channel /\ lib[c] \in LibChannel
      /\ xfer[c] \in [Dirs -> Xfers]
      /\ Fits(k, lib[c], "open", xfer[c], c \in pend)
  BY Before DEF GetMtu
<1>2. /\ l2 \in LibChannel /\ l2.view = lib[c].view /\ l2.mtu = k.mtu
      /\ l2.bits = lib[c].bits /\ l2.left = lib[c].left
  BY <1>1 DEF LibChannel, Channel
<1> HIDE DEF l2
<1>3. Fits(k, l2, "open", xfer[c], c \in pend)
  BY <1>1, <1>2, MtuFits DEF GetMtu, LibIdle
<1>4. /\ lib' = [lib EXCEPT ![c] = l2] /\ pend' = pend /\ chn' = chn
      /\ use' = [use EXCEPT ![c] = "open"] /\ xfer' = [xfer EXCEPT ![c] = xfer[c]]
  BY DEF GetMtu, LibGetMtu, l2, deviceVars, LinkInv, LinkTypeOK
<1>5. KeepsAll
  BY <1>1 DEF GetMtu, LibGetMtu, deviceVars, KeepsAll, DeviceInv, TypeOK
<1>6. QED
  BY <1>1, <1>2, <1>3, <1>4, <1>5, UserStep DEF Uses

LEMMA SetMtuKeeps ==
  ASSUME Careful, LinkInv, NEW c \in Channels, NEW mtu \in Mtus, SetMtu(c, mtu)
  PROVE  LinkInv'
<1> DEFINE k  == chn[c]
           l2 == [lib[c] EXCEPT !.mtu = chn'[c].mtu]
<1>1. /\ DeviceInv /\ k \in Channel /\ lib[c] \in LibChannel
      /\ Fits(k, lib[c], "open", xfer[c], c \in pend)
  BY Before DEF SetMtu
<1>2. xfer[c] = NoXfer /\ CmdSetMtu(c, mtu) /\ Bound(c)
  BY SeenActive DEF SetMtu, LibSetMtu, Careful, Quiet
<1>3. OneChange(c) \/ KeepsAll
  BY <1>1, <1>2, CmdSetMtuLegit, DeviceAssumption
<1>4. chn'[c] \in Channel
  BY <1>1, <1>3, DeviceStep DEF DeviceInv, TypeOK
<1>5. PICK m \in MtuAnswers(HandlerOf(k.service), mtu) : chn'[c] = [k EXCEPT !.mtu = m]
  <2>1. Becomes(c, {[k EXCEPT !.mtu = m] : m \in MtuAnswers(HandlerOf(k.service), mtu)})
    BY <1>2 DEF CmdSetMtu
  <2>2. QED
    BY <1>1, <2>1, BecomesOne
<1>6. /\ chn'[c].state = k.state /\ chn'[c].bits = k.bits /\ chn'[c].buf = k.buf
      /\ chn'[c].event = k.event /\ chn'[c].service = k.service
  BY <1>1, <1>5 DEF Channel
<1>7. /\ l2 \in LibChannel /\ l2.view = lib[c].view /\ l2.mtu = chn'[c].mtu
      /\ l2.bits = lib[c].bits /\ l2.left = lib[c].left
  BY <1>1, <1>4 DEF LibChannel, Channel
<1> HIDE DEF l2
<1>8. Fits(chn'[c], l2, "open", NoXfer, c \in pend)
  BY <1>1, <1>2, <1>6, <1>7, NoXferType, MtuFits
<1>9. /\ lib' = [lib EXCEPT ![c] = l2] /\ pend' = pend
      /\ use' = [use EXCEPT ![c] = "open"] /\ xfer' = [xfer EXCEPT ![c] = NoXfer]
  BY <1>2 DEF SetMtu, LibSetMtu, l2, LinkInv, LinkTypeOK
<1>10. QED
  BY <1>3, <1>7, <1>8, <1>9, NoXferType, UserStep DEF Uses

(* A call that concerns one direction leaves the other one alone.          *)
LEMMA SameDirection ==
  ASSUME NEW k, NEW k2, NEW l, NEW l2, NEW u, NEW x, NEW x2, NEW p, NEW o,
         XferInv(k, l, u, x, p, o),
         k2.state = k.state, k2.event = k.event, k2.mtu = k.mtu,
         k2.bits[o] = k.bits[o], k2.buf[o] = k.buf[o],
         l2.view = l.view, l2.mtu = l.mtu,
         l2.bits[o] = l.bits[o], l2.left[o] = l.left[o], x2[o] = x[o]
  PROVE  XferInv(k2, l2, u, x2, p, o)
  BY DEF XferInv, AskedInv, MovingInv, Dead

(* A call that moves a transfer of direction d along.                      *)
Along(k, l, x, k2, l2, x2, d) ==
  /\ SameBut(k, k2, d) /\ k2.state = k.state /\ k2.event = k.event
  /\ l2.view = l.view /\ l2.mtu = l.mtu
  /\ \A o \in Dirs : o # d => /\ l2.bits[o] = l.bits[o]
                              /\ l2.left[o] = l.left[o] /\ x2[o] = x[o]

LEMMA CallFits ==
  ASSUME NEW k, NEW k2, NEW l, NEW l2, NEW x, NEW x2, NEW p, NEW d \in Dirs,
         Fits(k, l, "open", x, p), Along(k, l, x, k2, l2, x2, d),
         XferInv(k2, l2, "open", x2, p, d)
  PROVE  Fits(k2, l2, "open", x2, p)
<1>1. Told(k2, l2, p)
  BY DEF Fits, Told, Along
<1>2. LifeInv(k2, l2, "open")
  BY DEF Fits, LifeInv, SameBut, Ended, Along
<1>3. \A o \in Dirs : o # d => XferInv(k2, l2, "open", x2, p, o)
  BY SameDirection DEF Fits, SameBut, Along
<1>4. QED
  BY <1>1, <1>2, <1>3 DEF Fits

LEMMA RequestKeeps ==
  ASSUME LinkInv, NEW c \in Channels, NEW d \in Dirs, NEW size \in Nat,
         MayAsk(size), Request(c, d, size)
  PROVE  LinkInv'
<1> DEFINE k  == chn[c]
           l  == lib[c]
           x  == xfer[c]
           p  == c \in pend
           b  == [org |-> size, size |-> size, blk |-> 0, off |-> 0]
           k0 == [k EXCEPT !.bits[d] = @ \cup {"PRE"}]
           k1 == [k0 EXCEPT !.buf[d] = b]
           l0 == [l EXCEPT !.bits[d] = @ \cup {"PRE"}]
           l2 == [l0 EXCEPT !.left[d] = size]
           x2 == [x EXCEPT ![d] = "asked"]
<1>1. /\ DeviceInv /\ k \in Channel /\ l \in LibChannel
      /\ x \in [Dirs -> Xfers] /\ Fits(k, l, "open", x, p)
  BY Before DEF Request
<1>2. /\ x[d] = "idle" /\ MayRequest(c, d) /\ CmdReq(c, d, size)
      /\ l.bits[d] = {}
  BY DEF Request, LibRequest, MayRequest
<1>3. Bound(c) /\ k.bits[d] = {}
  BY <1>2, SeenActive DEF Request, MayRequest
<1>4. b \in Buf
  BY <1>2 DEF Buf
<1>5. /\ k0 \in Channel /\ k0.bits[d] = {"PRE"} /\ k0.buf = k.buf
      /\ SameBut(k, k0, d) /\ k0.state = k.state /\ k0.event = k.event
  BY <1>1, <1>3 DEF Channel, SameBut, Bits
<1>6. k1 = [k EXCEPT !.bits[d] = @ \cup {"PRE"}, !.buf[d] = b]
  BY <1>1 DEF Channel
<1>7. chn'[c] \in PreWork(k1, d)
  BY <1>1, <1>2, <1>3, <1>6, BecomesOne DEF CmdReq
<1> HIDE DEF k0
<1>8. /\ k1 \in Channel /\ k1.bits[d] = {"PRE"} /\ k1.buf[d] = b
      /\ SameBut(k, k1, d) /\ k1.state = k.state /\ k1.event = k.event
  <2> HIDE DEF b
  <2> QED BY <1>4, <1>5 DEF Channel, SameBut
<1> HIDE DEF k1
<1>9. l0 \in LibChannel /\ l0.bits[d] = {"PRE"} /\ l0.view = l.view /\ l0.mtu = l.mtu
      /\ l0.left = l.left
      /\ \A o \in Dirs : o # d => l0.bits[o] = l.bits[o]
  BY <1>1, <1>2 DEF LibChannel, Bits
<1>10. l2 = [l EXCEPT !.bits[d] = @ \cup {"PRE"}, !.left[d] = size]
  BY <1>1 DEF LibChannel
<1> HIDE DEF l0
<1>11. /\ l2 \in LibChannel /\ l2.bits[d] = {"PRE"} /\ l2.view = l.view
       /\ l2.mtu = l.mtu /\ l2.left[d] = size
       /\ \A o \in Dirs : o # d => l2.bits[o] = l.bits[o] /\ l2.left[o] = l.left[o]
  BY <1>2, <1>9 DEF LibChannel
<1>12. /\ x2 \in [Dirs -> Xfers] /\ x2[d] = "asked"
       /\ \A o \in Dirs : o # d => x2[o] = x[o]
  BY <1>1 DEF Xfers
<1>13. /\ lib' = [lib EXCEPT ![c] = l2] /\ pend' = pend
       /\ use' = [use EXCEPT ![c] = "open"] /\ xfer' = [xfer EXCEPT ![c] = x2]
  BY <1>10 DEF Request, LibRequest, LinkInv, LinkTypeOK
<1> HIDE DEF l2, x2
<1>14. XferInv(k1, l2, "open", x2, p, d)
  BY <1>2, <1>8, <1>11, <1>12 DEF XferInv, AskedInv
<1>15. Fits(k1, l2, "open", x2, p)
  <2>1. Along(k, l, x, k1, l2, x2, d)
    BY <1>8, <1>11, <1>12 DEF Along
  <2>2. QED
    BY <1>1, <1>14, <2>1, CallFits
<1>16. Fits(chn'[c], l2, "open", x2, p)
  BY <1>7, <1>8, <1>15, PreWorkFits
<1>17. OneChange(c) \/ KeepsAll
  BY <1>1, <1>2, CmdReqLegit
<1>18. QED
  BY <1>11, <1>12, <1>13, <1>16, <1>17, UserStep DEF Uses

(* After the last block the user settles and the handler post-processes.   *)
LEMMA LastBlockFits ==
  ASSUME Careful, NEW k, NEW k1 \in Channel, NEW l, NEW l2, NEW x,
         NEW x2 \in [Dirs -> Xfers], NEW p, NEW d \in Dirs,
         Fits(k, l, "open", x, p), Along(k, l, x, k1, l2, x2, d),
         k1.buf[d].blk = 0, k1.buf[d].off <= k1.buf[d].size,
         x2[d] = AfterLast, NEW k2 \in BlkDone(k1, d)
  PROVE  Fits(k2, l2, "open", x2, p)
<1> DEFINE kp == [k1 EXCEPT !.bits[d] = @ \cup {"POST"}]
           xp == [x2 EXCEPT ![d] = "settling"]
<1>1. /\ kp \in Channel /\ "POST" \in kp.bits[d] /\ kp.buf = k1.buf
      /\ Along(k, l, x, kp, l2, xp, d) /\ xp[d] = "settling"
  BY DEF Channel, SameBut, Bits, Along
<1>2. k2 \in PostWork(kp, d)
  BY DEF BlkDone
<1> HIDE DEF kp
<1>3. kp.buf[d].off + kp.buf[d].blk <= kp.buf[d].size
  <2>1. kp.buf[d] \in Buf
    BY <1>1 DEF Channel
  <2>2. kp.buf[d].off + 0 = kp.buf[d].off
    BY <2>1 DEF Buf
  <2>3. QED
    BY <1>1, <2>2
<1>4. x2 = IF "rerequest" \in Liberties THEN [xp EXCEPT ![d] = "idle"] ELSE xp
  BY DEF AfterLast
<1> HIDE DEF xp
<1>5. XferInv(kp, l2, "open", xp, p, d)
  BY <1>1, <1>3 DEF XferInv
<1>6. Fits(kp, l2, "open", xp, p)
  BY <1>1, <1>5, CallFits
<1>7. Fits(k2, l2, "open", xp, p)
  BY <1>1, <1>2, <1>6, PostWorkFits
<1>8. CASE "rerequest" \notin Liberties
  BY <1>4, <1>7, <1>8
<1>9. CASE "rerequest" \in Liberties
  <2>1. k2.bits[d] = {}
    BY <1>1, <1>2, <1>9, PostEnds DEF Careful
  <2>2. x2[d] = "idle" /\ \A o \in Dirs : o # d => x2[o] = xp[o]
    BY <1>9 DEF AfterLast, xp
  <2>3. XferInv(k2, l2, "open", x2, p, d)
    BY <2>1, <2>2 DEF XferInv
  <2>4. \A o \in Dirs : o # d => XferInv(k2, l2, "open", x2, p, o)
    BY <1>7, <2>2 DEF Fits, XferInv
  <2>5. QED
    BY <1>7, <2>3, <2>4 DEF Fits
<1>10. QED
  BY <1>8, <1>9

LEMMA SetupKeeps ==
  ASSUME Careful, LinkInv, NEW c \in Channels, NEW d \in Dirs, Setup(c, d)
  PROVE  LinkInv'
<1> DEFINE k  == chn[c]
           l  == lib[c]
           x  == xfer[c]
           p  == c \in pend
           n  == SetupSize(c, d)
           l0 == [l EXCEPT !.left[d] = n]
           l2 == [l0 EXCEPT !.bits[d] = IF n = 0 THEN {} ELSE @]
           x2 == [x EXCEPT ![d] = IF n = 0 THEN AfterLast ELSE "moving"]
<1>1. /\ DeviceInv /\ k \in Channel /\ l \in LibChannel
      /\ x \in [Dirs -> Xfers] /\ Fits(k, l, "open", x, p)
  BY Before DEF Setup
<1>2. /\ x[d] = "asked" /\ MaySetup(c, d) /\ ~p
      /\ l.mtu # 0 /\ "READY" \in l.bits[d] /\ Bound(c)
      /\ IF Resized(c, d) THEN CmdRes(c, d) ELSE UNCHANGED deviceVars
  BY SeenActive DEF Setup, LibSetup, MaySetup, LibIdle
<1>3. k.buf[d] \in Buf /\ l.left[d] \in Nat
  BY <1>1 DEF Channel, LibChannel
<1>4. AskedInv(k, l, d)
  BY <1>1, <1>2 DEF Fits, XferInv
<1>5. /\ l.bits[d] = k.bits[d] /\ "READY" \in k.bits[d]
      /\ k.bits[d] \in {{"READY"}, {"READY", "SIZE"}}
      /\ k.buf[d].off = 0 /\ k.buf[d].blk = Smaller(k.buf[d].size, k.mtu)
      /\ Resized(c, d) <=> k.buf[d].size # l.left[d]
  BY <1>2, <1>4 DEF AskedInv, Resized
<1>6. n = k.buf[d].size /\ n \in Nat
  BY <1>3, <1>5 DEF SetupSize, Buf
<1>7. /\ l0 \in LibChannel /\ l0.left[d] = n /\ l0.bits = l.bits
      /\ l0.view = l.view /\ l0.mtu = l.mtu
      /\ \A o \in Dirs : o # d => l0.left[o] = l.left[o]
  BY <1>1, <1>6 DEF LibChannel
<1>8. l2 = [l EXCEPT !.left[d] = n, !.bits[d] = IF n = 0 THEN {} ELSE @]
  BY <1>1 DEF LibChannel
<1> HIDE DEF l0
<1>9. /\ l2 \in LibChannel /\ l2.left[d] = n
      /\ l2.view = l.view /\ l2.mtu = l.mtu
      /\ \A o \in Dirs : o # d => l2.bits[o] = l.bits[o] /\ l2.left[o] = l.left[o]
  BY <1>7 DEF LibChannel
<1>10. /\ x2 \in [Dirs -> Xfers] /\ x2[d] = IF n = 0 THEN AfterLast ELSE "moving"
       /\ \A o \in Dirs : o # d => x2[o] = x[o]
  BY <1>1 DEF Xfers, AfterLast
<1>11. /\ lib' = [lib EXCEPT ![c] = l2] /\ pend' = pend
       /\ use' = [use EXCEPT ![c] = "open"] /\ xfer' = [xfer EXCEPT ![c] = x2]
  <2>1. lib' = [lib EXCEPT ![c].left[d] = n, ![c].bits[d] = IF n = 0 THEN {} ELSE @]
    BY DEF Setup, LibSetup
  <2>2. xfer' = [xfer EXCEPT ![c][d] = IF n = 0 THEN AfterLast ELSE "moving"]
    BY DEF Setup
  <2>3. pend' = pend /\ use' = [use EXCEPT ![c] = "open"]
    BY DEF Setup, LinkInv, LinkTypeOK
  <2> HIDE DEF n
  <2>4. QED
    BY <1>8, <2>1, <2>2, <2>3
<1> HIDE DEF l2, x2, n
<1>12. OneChange(c) \/ KeepsAll
  BY <1>1, <1>2, CmdResLegit DEF deviceVars, KeepsAll, DeviceInv, TypeOK
<1>13. CASE n = 0 /\ Resized(c, d)
  <2>1. chn'[c] \in BlkDone(k, d)
    BY <1>1, <1>2, <1>6, <1>13, BecomesOne DEF CmdRes, Hang
  <2>2. k.buf[d].blk = 0 /\ k.buf[d].off <= k.buf[d].size
    <3>1. k.mtu \in Nat
      BY <1>1 DEF Channel
    <3>2. QED
      BY <1>5, <1>6, <1>13, <3>1 DEF Smaller
  <2>3. Along(k, l, x, k, l2, x2, d)
    BY <1>9, <1>10 DEF Along, SameBut
  <2>4. Fits(chn'[c], l2, "open", x2, p)
    BY <1>1, <1>10, <1>13, <2>1, <2>2, <2>3, LastBlockFits
  <2>5. QED
    BY <1>9, <1>10, <1>11, <1>12, <2>4, UserStep DEF Uses
<1>14. CASE ~(n = 0 /\ Resized(c, d))
  <2>1. chn'[c] = k
    BY <1>2, <1>3, <1>6, <1>14 DEF CmdRes, Buf, deviceVars
  <2>2. Along(k, l, x, k, l2, x2, d)
    BY <1>9, <1>10 DEF Along, SameBut
  <2>3. XferInv(k, l2, "open", x2, p, d)
    <3>1. k.buf[d].off + k.buf[d].blk <= k.buf[d].size
      BY <1>1, <1>5 DEF Fits, XferInv
    <3>2. CASE n = 0
      <4>1. x2[d] = "settling"
        BY <1>4, <1>5, <1>6, <1>10, <1>14, <3>2 DEF AskedInv, MayAsk, AfterLast
      <4>2. QED
        BY <3>1, <4>1 DEF XferInv
    <3>3. CASE n # 0
      <4>1. MovingInv(k, l2, d)
        BY <1>2, <1>3, <1>5, <1>6, <1>9, <3>3 DEF MovingInv, Buf
      <4>2. QED
        BY <1>2, <1>10, <3>1, <3>3, <4>1 DEF XferInv
    <3>4. QED
      BY <3>2, <3>3
  <2>4. Fits(k, l2, "open", x2, p)
    BY <1>1, <2>2, <2>3, CallFits
  <2>5. QED
    BY <1>9, <1>10, <1>11, <1>12, <2>1, <2>4, UserStep DEF Uses
<1>15. QED
  BY <1>13, <1>14

(* A block of the size that both sides expect: what is left after it.      *)
LEMMA BlockCounts ==
  ASSUME NEW b \in Buf, NEW mtu \in Nat, NEW left \in Nat,
         left = b.size - b.off, b.blk = Smaller(left, mtu),
         NEW b1, b1 = NextBlk(b, mtu), NEW n, n = left - b.blk
  PROVE  /\ n \in Nat /\ b.blk <= left /\ b1 \in Buf
         /\ b1.size = b.size /\ b1.off = b.off + b.blk /\ n = b1.size - b1.off
         /\ b1.blk = IF n = 0 THEN 0 ELSE Smaller(n, mtu)
<1>1. b.blk <= left /\ b.blk \in Nat
  BY SmallerBounds, SmallerType
<1>2. n \in Nat
  BY <1>1
<1>3. b1 \in Buf
  BY NextBlkType
<1>4. b1 = [b EXCEPT !.off = b.off + b.blk,
                     !.blk = IF b.off + b.blk < b.size
                             THEN Smaller(b.size - (b.off + b.blk), mtu) ELSE 0]
  BY DEF NextBlk
<1>5. /\ b1.size = b.size /\ b1.off = b.off + b.blk
      /\ b1.blk = IF b.off + b.blk < b.size
                  THEN Smaller(b.size - (b.off + b.blk), mtu) ELSE 0
  BY <1>4 DEF Buf
<1>6. n = b.size - (b.off + b.blk) /\ (b.off + b.blk < b.size <=> n # 0)
  BY <1>1, <1>2 DEF Buf
<1>7. n \in Nat /\ b.blk <= left /\ b1 \in Buf /\ n = b1.size - b1.off
  BY <1>1, <1>2, <1>3, <1>5, <1>6
<1>8. b1.blk = IF n = 0 THEN 0 ELSE Smaller(n, mtu)
  BY <1>5, <1>6
<1>9. QED
  BY <1>5, <1>7, <1>8

(* Unless it was the last block, the next one is within the buffer.        *)
LEMMA NextBlockWithin ==
  ASSUME NEW b \in Buf, NEW mtu \in Nat \ {0}, NEW n \in Nat \ {0},
         n = b.size - b.off, b.blk = Smaller(n, mtu)
  PROVE  b.blk # 0 /\ b.off + b.blk <= b.size
<1>1. b.off \in Nat /\ b.blk \in Nat /\ b.size \in Nat
  BY DEF Buf
<1>2. b.blk <= n /\ b.blk # 0
  BY SmallerBounds
<1>3. QED
  BY <1>1, <1>2

LEMMA BlockKeeps ==
  ASSUME Careful, LinkInv, NEW c \in Channels, NEW d \in Dirs, Block(c, d)
  PROVE  LinkInv'
<1> DEFINE k  == chn[c]
           l  == lib[c]
           x  == xfer[c]
           p  == c \in pend
           b  == k.buf[d]
           b1 == NextBlk(b, k.mtu)
           k1 == [k EXCEPT !.buf[d] = b1]
           n  == LeftAfterBlock(c, d)
           l0 == [l EXCEPT !.left[d] = n]
           l2 == [l0 EXCEPT !.bits[d] = IF n = 0 THEN {} ELSE @]
           x2 == [x EXCEPT ![d] = IF n = 0 THEN AfterLast ELSE @]
<1>1. /\ DeviceInv /\ k \in Channel /\ l \in LibChannel
      /\ x \in [Dirs -> Xfers] /\ Fits(k, l, use[c], x, p)
  BY Before
<1>2. x[d] = "moving" /\ CmdBlk(c, d) /\ use[c] = "open"
  BY <1>1 DEF Block, LibBlock, Fits, XferInv
<1>3. Bound(c) /\ MovingInv(k, l, d) /\ ~p /\ l.mtu \in {0, k.mtu}
  BY <1>1, <1>2 DEF Fits, XferInv, LifeInv, Bound
<1>4. b \in Buf /\ l.left[d] \in Nat /\ k.mtu \in Nat
  BY <1>1 DEF Channel, LibChannel
<1>5. /\ l.mtu = k.mtu /\ k.mtu # 0 /\ l.left[d] = b.size - b.off /\ l.left[d] > 0
      /\ b.blk = Smaller(l.left[d], k.mtu)
      /\ k.bits[d] \in {{"READY"}, {"READY", "SIZE"}}
  BY <1>3 DEF MovingInv
<1>6. n = l.left[d] - b.blk
  BY <1>5 DEF LeftAfterBlock, BlockSize
<1>7. /\ n \in Nat /\ b.blk <= l.left[d] /\ b1 \in Buf
      /\ b1.size = b.size /\ b1.off = b.off + b.blk /\ n = b1.size - b1.off
      /\ b1.blk = IF n = 0 THEN 0 ELSE Smaller(n, k.mtu)
  <2>1. b1 = NextBlk(b, k.mtu)
    OBVIOUS
  <2> HIDE DEF b1, b, n, k, l
  <2>2. QED
    BY <1>4, <1>5, <1>6, <2>1, BlockCounts
<1>9. k1 = [k EXCEPT !.buf[d] = NextBlk(@, k.mtu)]
  BY <1>1 DEF Channel
<1>10. chn'[c] \in BlkDone(k1, d)
  BY <1>1, <1>2, <1>3, <1>9, BecomesOne DEF CmdBlk
<1> HIDE DEF b1
<1>11. /\ k1 \in Channel /\ k1.buf[d] = b1 /\ k1.bits = k.bits
       /\ SameBut(k, k1, d) /\ k1.state = k.state /\ k1.event = k.event
  BY <1>1, <1>7 DEF Channel, SameBut
<1> HIDE DEF k1
<1>12. l2 = [l EXCEPT !.left[d] = n, !.bits[d] = IF n = 0 THEN {} ELSE @]
  BY <1>1 DEF LibChannel
<1> HIDE DEF n
<1>13. /\ l0 \in LibChannel /\ l0.left[d] = n /\ l0.bits = l.bits
       /\ l0.view = l.view /\ l0.mtu = l.mtu
       /\ \A o \in Dirs : o # d => l0.left[o] = l.left[o]
  BY <1>1, <1>7 DEF LibChannel
<1> HIDE DEF l0
<1>14. /\ l2 \in LibChannel /\ l2.left[d] = n
       /\ l2.view = l.view /\ l2.mtu = l.mtu
       /\ \A o \in Dirs : o # d => l2.bits[o] = l.bits[o] /\ l2.left[o] = l.left[o]
  BY <1>13 DEF LibChannel
<1>15. /\ x2 \in [Dirs -> Xfers] /\ x2[d] = IF n = 0 THEN AfterLast ELSE "moving"
       /\ \A o \in Dirs : o # d => x2[o] = x[o]
  BY <1>1, <1>2 DEF Xfers, AfterLast
<1>16. /\ lib' = [lib EXCEPT ![c] = l2] /\ pend' = pend
       /\ use' = [use EXCEPT ![c] = "open"] /\ xfer' = [xfer EXCEPT ![c] = x2]
  <2>1. lib' = [lib EXCEPT ![c].left[d] = n, ![c].bits[d] = IF n = 0 THEN {} ELSE @]
    BY DEF Block, LibBlock, n
  <2>2. xfer' = [xfer EXCEPT ![c][d] = IF n = 0 THEN AfterLast ELSE @]
    BY DEF Block, n
  <2>3. pend' = pend /\ use' = [use EXCEPT ![c] = "open"]
    BY <1>2 DEF Block, LinkInv, LinkTypeOK
  <2>4. QED
    BY <1>12, <2>1, <2>2, <2>3
<1> HIDE DEF l2, x2
<1>17. OneChange(c) \/ KeepsAll
  BY <1>1, <1>2, CmdBlkLegit
<1>18. Fits(chn'[c], l2, "open", x2, p)
  <2> Along(k, l, x, k1, l2, x2, d) /\ Fits(k, l, "open", x, p)
    BY <1>1, <1>2, <1>11, <1>14, <1>15 DEF Along
  <2>1. CASE n = 0
    <3>1. k1.buf[d].blk = 0 /\ k1.buf[d].off <= k1.buf[d].size
      BY <1>7, <1>11, <2>1 DEF Buf
    <3>2. x2[d] = AfterLast
      BY <1>15, <2>1
    <3>3. QED
      BY <1>10, <1>11, <1>15, <3>1, <3>2, LastBlockFits
  <2>2. CASE n # 0
    <3>1. b1.blk # 0 /\ b1.off + b1.blk <= b1.size
      <4>1. b1 \in Buf /\ n \in Nat \ {0} /\ n = b1.size - b1.off
        BY <1>7, <2>2
      <4>2. b1.blk = Smaller(n, k.mtu) /\ k.mtu \in Nat \ {0}
        BY <1>4, <1>5, <1>7, <2>2
      <4>3. QED
        BY <4>1, <4>2, NextBlockWithin
    <3>2. chn'[c] = k1
      BY <1>10, <1>11, <3>1 DEF BlkDone
    <3>3. MovingInv(k1, l2, d)
      <4>1. k1.buf[d] = b1 /\ k1.bits = k.bits /\ k1.mtu = k.mtu
        BY <1>11 DEF SameBut
      <4>2. l2.left[d] = b1.size - b1.off /\ l2.left[d] > 0
        BY <1>7, <1>14, <2>2
      <4>3. b1.blk = Smaller(l2.left[d], k.mtu)
        BY <1>7, <1>14, <2>2
      <4>4. l2.mtu # 0 /\ k.bits[d] \in {{"READY"}, {"READY", "SIZE"}}
        BY <1>5, <1>14
      <4>5. QED
        BY <4>1, <4>2, <4>3, <4>4 DEF MovingInv
    <3>4. XferInv(k1, l2, "open", x2, p, d)
      BY <1>3, <1>11, <1>15, <2>2, <3>1, <3>3 DEF XferInv
    <3>5. QED
      BY <3>2, <3>4, CallFits
  <2>3. QED
    BY <2>1, <2>2
<1>19. QED
  BY <1>14, <1>15, <1>16, <1>17, <1>18, UserStep DEF Uses

----------------------------------------------------------------------------
(* The library's copy is refreshed. *)

(* The event moves from the device to the library.                         *)
LEMMA FetchFits ==
  ASSUME NEW k \in Channel, NEW k2, NEW l, NEW u, NEW x, NEW p,
         Fits(k, l, u, x, FALSE), k2 = [k EXCEPT !.event = FALSE],
         k.event => p, \A d \in Dirs : x[d] # "moving"
  PROVE  Fits(k2, l, u, x, p)
<1>1. /\ k2.state = k.state /\ k2.bits = k.bits /\ k2.buf = k.buf
      /\ k2.mtu = k.mtu /\ k2.service = k.service
  BY DEF Channel
<1>2. Told(k2, l, p)
  BY <1>1 DEF Fits, Told
<1>3. LifeInv(k2, l, u)
  BY <1>1 DEF Fits, LifeInv
<1>4. \A d \in Dirs : XferInv(k2, l, u, x, p, d)
  BY <1>1 DEF Fits, XferInv, AskedInv, Dead
<1>5. QED
  BY <1>2, <1>3, <1>4 DEF Fits

LEMMA FetchEventsKeeps == ASSUME LinkInv, FetchEvents PROVE LinkInv'
<1>1. /\ chn \in [Channels -> Channel] /\ pend = {}
      /\ CmdEventMask /\ pend' = EventMask
      /\ lib' = lib /\ use' = use /\ xfer' = xfer
  BY DEF FetchEvents, LibIdle, LibFetchEvents, LinkInv, DeviceInv, TypeOK
<1>2. DeviceInv'
  BY <1>1, EventMaskPreserves DEF LinkInv
<1>3. LinkTypeOK'
  BY <1>1, <1>2 DEF LinkInv, LinkTypeOK, LibTypeOK, DeviceInv, EventMask
<1>4. ASSUME NEW c \in Channels
      PROVE  Fits(chn'[c], lib'[c], use'[c], xfer'[c], c \in pend')
  <2>1. chn'[c] = [chn[c] EXCEPT !.event = FALSE]
    BY <1>1 DEF CmdEventMask
  <2>2. chn[c] \in Channel /\ (chn[c].event => c \in pend')
    BY <1>1 DEF EventMask
  <2>3. Fits(chn[c], lib[c], use[c], xfer[c], FALSE)
    BY <1>1 DEF LinkInv, Fits, Told, XferInv
  <2>4. \A d \in Dirs : xfer[c][d] # "moving"
    BY DEF FetchEvents, LibIdle
  <2>5. Fits(chn'[c], lib[c], use[c], xfer[c], c \in pend')
    BY <2>1, <2>2, <2>3, <2>4, FetchFits
  <2>6. QED
    BY <1>1, <2>5
<1>5. QED
  BY <1>2, <1>3, <1>4 DEF LinkInv

(* The user makes of the new state what it can.                            *)
LEMMA UpdateFits ==
  ASSUME NEW k \in Channel, NEW l, NEW l2, NEW u \in Uses, NEW x, NEW x2,
         Fits(k, l, u, x, TRUE), k.state \in ActiveStates => k.service # NoService,
         l2.view = k.state, l2.bits = k.bits, l2.mtu = l.mtu, l2.left = l.left,
         \A d \in Dirs : x2[d] = XferAnswered(x[d], k.state, k.bits[d])
  PROVE  Fits(k, l2, Answered(u, k.state), x2, FALSE)
<1> DEFINE u2 == Answered(u, k.state)
<1>1. LifeInv(k, l, u)
  BY DEF Fits
<1>2. \/ u = "opening" /\ k.state = "ACTIVE" /\ u2 = "open"
      \/ u = "opening" /\ k.state = "OPEN_ERROR" /\ u2 = "failed"
      \/ u = "resetting" /\ k.state = "ACTIVE" /\ u2 = "open"
      \/ u = "closing" /\ k.state = "INACTIVE" /\ u2 = "free"
      \/ /\ u2 = u /\ ~(u = "closing" /\ k.state = "INACTIVE")
  BY DEF Answered
<1> HIDE DEF u2
<1>3. Told(k, l2, FALSE)
  BY DEF Told
<1>4. LifeInv(k, l2, u2)
  BY <1>1, <1>2 DEF LifeInv, ActiveStates, Ended
<1>5. ASSUME NEW d \in Dirs PROVE XferInv(k, l2, u2, x2, FALSE, d)
  <2>1. XferInv(k, l, u, x, TRUE, d)
    BY DEF Fits
  <2>2. x[d] # "moving"
    BY <2>1 DEF XferInv
  <2>3. \/ x2[d] = x[d]
        \/ /\ x2[d] = "idle"
           /\ k.state = "ERROR" \/ k.bits[d] = {}
    BY DEF XferAnswered
  <2>4. x2[d] # "idle" => u2 = "open"
    BY <1>2, <2>1, <2>3 DEF XferInv
  <2>5. x2[d] = "idle" => k.bits[d] = {} \/ u2 = "closing" \/ Dead(k, l2)
    <3>1. CASE x[d] = "idle"
      <4>1. k.state = "INACTIVE" => k.bits[d] = {}
        BY <1>1 DEF LifeInv
      <4>2. Dead(k, l) => Dead(k, l2)
        BY DEF Dead
      <4>3. u = "closing" => u2 = "closing" \/ k.state = "INACTIVE"
        BY <1>2
      <4>4. QED
        BY <2>1, <3>1, <4>1, <4>2, <4>3 DEF XferInv
    <3>2. CASE x[d] # "idle"
      BY <2>3, <3>2 DEF Dead, Ended
    <3>3. QED
      BY <3>1, <3>2
  <2>6. x2[d] = "asked" => AskedInv(k, l2, d)
    BY <2>1, <2>3 DEF XferInv, AskedInv
  <2>7. x2[d] # "moving"
    BY <2>2, <2>3
  <2>8. k.bits[d] # {} => k.buf[d].off + k.buf[d].blk <= k.buf[d].size
    BY <2>1 DEF XferInv
  <2>9. QED
    BY <2>4, <2>5, <2>6, <2>7, <2>8 DEF XferInv
<1>6. Fits(k, l2, u2, x2, FALSE)
  BY <1>3, <1>4, <1>5 DEF Fits
<1>7. QED
  BY <1>6 DEF u2

LEMMA UpdateKeeps ==
  ASSUME LinkInv, NEW c \in Channels, Update(c) PROVE LinkInv'
<1> DEFINE k  == chn[c]
           l  == lib[c]
           l2 == [l EXCEPT !.view = k.state, !.bits = k.bits]
           u2 == Answered(use[c], k.state)
           x2 == [d \in Dirs |-> XferAnswered(xfer[c][d], k.state, k.bits[d])]
<1>1. /\ DeviceInv /\ k \in Channel /\ l \in LibChannel /\ use[c] \in Uses
      /\ xfer[c] \in [Dirs -> Xfers] /\ Fits(k, l, use[c], xfer[c], c \in pend)
  BY Before
<1>2. /\ lib \in [Channels -> LibChannel] /\ use \in [Channels -> Uses]
      /\ xfer \in [Channels -> [Dirs -> Xfers]] /\ pend \subseteq Channels
  BY DEF LinkInv, LinkTypeOK, LibTypeOK
<1>3. /\ chn' = chn /\ halted' = halted /\ c \in pend /\ pend' = pend \ {c}
      /\ lib' = [lib EXCEPT ![c] = l2] /\ use' = [use EXCEPT ![c] = u2]
      /\ xfer' = [xfer EXCEPT ![c] = x2]
  BY DEF Update, LibUpdate, deviceVars
<1>4. /\ l2 \in LibChannel /\ l2.view = k.state /\ l2.bits = k.bits
      /\ l2.mtu = l.mtu /\ l2.left = l.left
  BY <1>1 DEF LibChannel, Channel
<1>5. u2 \in Uses
  BY <1>1 DEF Answered, Uses
<1>6. x2 \in [Dirs -> Xfers]
  BY <1>1 DEF XferAnswered, Xfers
<1>7. k.state \in ActiveStates => k.service # NoService
  BY <1>1 DEF DeviceInv, ActiveIsBound, Bound
<1>8. Fits(k, l, use[c], xfer[c], TRUE)
  BY <1>1, <1>3 DEF Fits, Told, XferInv
<1>9. \A d \in Dirs : x2[d] = XferAnswered(xfer[c][d], k.state, k.bits[d])
  OBVIOUS
<1> HIDE DEF l2, x2
<1>10. Fits(k, l2, u2, x2, FALSE)
  BY <1>1, <1>4, <1>7, <1>8, <1>9, UpdateFits
<1> HIDE DEF u2
<1>11. DeviceInv'
  BY <1>1, <1>3, StaysPreserves DEF KeepsAll, DeviceInv, TypeOK
<1>12. LinkTypeOK'
  BY <1>2, <1>3, <1>4, <1>5, <1>6, <1>11 DEF LinkTypeOK, LibTypeOK, DeviceInv
<1>13. ASSUME NEW o \in Channels
       PROVE  Fits(chn'[o], lib'[o], use'[o], xfer'[o], o \in pend')
  <2>1. CASE o = c
    <3>1. /\ chn'[o] = k /\ lib'[o] = l2 /\ use'[o] = u2 /\ xfer'[o] = x2
          /\ o \notin pend'
      BY <1>2, <1>3, <2>1
    <3>2. QED
      BY <1>10, <3>1 DEF Fits, Told, XferInv
  <2>2. CASE o # c
    <3>1. /\ chn'[o] = chn[o] /\ lib'[o] = lib[o] /\ use'[o] = use[o]
          /\ xfer'[o] = xfer[o] /\ (o \in pend' <=> o \in pend)
      BY <1>2, <1>3, <2>2
    <3>2. QED
      BY <3>1 DEF LinkInv, Fits, Told, XferInv
  <2>3. QED
    BY <2>1, <2>2
<1>14. QED
  BY <1>11, <1>12, <1>13 DEF LinkInv

----------------------------------------------------------------------------
(* The invariant and its parts. *)

LEMMA LinkInitInv == LinkInit => LinkInv
<1> SUFFICES ASSUME LinkInit PROVE LinkInv
  OBVIOUS
<1>1. DeviceInv
  BY InitInv DEF LinkInit
<1>2. LinkTypeOK
  BY <1>1, NoXferType
     DEF LinkInit, LinkTypeOK, LibInit, LibTypeOK, FreshLib, LibChannel, DeviceInv,
         States, PassiveStates, Uses
<1>3. ASSUME NEW c \in Channels
      PROVE  Fits(chn[c], lib[c], use[c], xfer[c], c \in pend)
  <2>1. /\ chn[c].state = "INACTIVE" /\ chn[c].service = NoService /\ chn[c].mtu = 0
        /\ \A d \in Dirs : chn[c].bits[d] = {}
    BY DEF LinkInit, DeviceInit, FreshChannels
  <2>2. lib[c].view = "INACTIVE" /\ lib[c].mtu = 0
    BY DEF LinkInit, LibInit, FreshLib
  <2>3. use[c] = "free" /\ \A d \in Dirs : xfer[c][d] = "idle"
    BY NoXferType DEF LinkInit
  <2>4. QED
    BY <2>1, <2>2, <2>3 DEF Fits, Told, LifeInv, XferInv
<1>4. QED
  BY <1>1, <1>2, <1>3 DEF LinkInv

LEMMA LinkNextInv ==
  ASSUME Careful, \A d \in Dirs : \A size \in Sizes[d] : MayAsk(size),
         LinkInv, [LinkNext]_linkVars
  PROVE  LinkInv'
<1>1. ASSUME NEW c \in Channels, NEW port \in Ports, OpenChannel(c, port)
      PROVE  LinkInv'
  BY <1>1, OpenChannelKeeps
<1>2. ASSUME NEW c \in Channels, CloseChannel(c) PROVE LinkInv'
  BY <1>2, CloseChannelKeeps
<1>3. ASSUME NEW c \in Channels, ResetChannel(c) PROVE LinkInv'
  BY <1>3, ResetChannelKeeps
<1>4. ASSUME NEW c \in Channels, GetMtu(c) PROVE LinkInv'
  BY <1>4, GetMtuKeeps
<1>5. ASSUME NEW c \in Channels, NEW mtu \in Mtus, SetMtu(c, mtu) PROVE LinkInv'
  BY <1>5, SetMtuKeeps
<1>6. ASSUME NEW c \in Channels, NEW d \in Dirs, NEW size \in Sizes[d],
             Request(c, d, size)
      PROVE  LinkInv'
  BY <1>6, DeviceAssumption, RequestKeeps
<1>7. ASSUME NEW c \in Channels, NEW d \in Dirs, Setup(c, d) PROVE LinkInv'
  BY <1>7, SetupKeeps
<1>8. ASSUME NEW c \in Channels, NEW d \in Dirs, Block(c, d) PROVE LinkInv'
  BY <1>8, BlockKeeps
<1>9. ASSUME NEW c \in Channels, Update(c) PROVE LinkInv'
  BY <1>9, UpdateKeeps
<1>10. ASSUME NEW c \in Channels, DeviceWork(c) PROVE LinkInv'
  BY <1>10, DeviceWorkKeeps
<1>11. CASE FetchEvents
  BY <1>11, FetchEventsKeeps
<1>12. CASE UNCHANGED linkVars
  <2>1. /\ chn' = chn /\ halted' = halted /\ lib' = lib /\ use' = use
        /\ xfer' = xfer /\ pend' = pend
    BY <1>12 DEF linkVars
  <2>2. DeviceInv'
    BY <2>1, StaysPreserves DEF KeepsAll, LinkInv, DeviceInv, TypeOK
  <2>3. LinkTypeOK'
    BY <2>1, <2>2 DEF LinkInv, LinkTypeOK, LibTypeOK, DeviceInv
  <2>4. QED
    BY <2>1, <2>2, <2>3 DEF LinkInv
<1>13. QED
  BY <1>1, <1>2, <1>3, <1>4, <1>5, <1>6, <1>7, <1>8, <1>9, <1>10, <1>11, <1>12
     DEF LinkNext

(* What the theorems about the user of the library need of it.             *)
CarefulUser == Careful /\ \A d \in Dirs : \A size \in Sizes[d] : MayAsk(size)

(* The link of a careful user with the firmware keeps its invariant.       *)
THEOREM LinkInvariant == ASSUME CarefulUser PROVE LinkSpec => []LinkInv
<1>1. Careful /\ \A d \in Dirs : \A size \in Sizes[d] : MayAsk(size)
  BY DEF CarefulUser
<1>2. LinkInv /\ [LinkNext]_linkVars => LinkInv'
  BY <1>1, LinkNextInv
<1>3. QED
  BY <1>2, LinkInitInv, PTL DEF LinkSpec

(* Every variable of the link has the type the C declarations give it.     *)
THEOREM LinkTypeCorrect == ASSUME CarefulUser PROVE LinkSpec => []LinkTypeOK
<1>1. LinkInv => LinkTypeOK
  BY DEF LinkInv
<1>2. QED
  BY <1>1, LinkInvariant, PTL

(* find_free_channel never hands out a channel that a user has, however    *)
(* opens, closes, resets and the refresh of the library's copy interleave. *)
THEOREM OneUserPerChannel ==
  ASSUME CarefulUser PROVE LinkSpec => []ChannelHasOneUser
<1>1. LinkInv => ChannelHasOneUser
  BY DEF LinkInv, Fits, LifeInv, ChannelHasOneUser
<1>2. QED
  BY <1>1, LinkInvariant, PTL

(* Neither a change of state nor the answer to a request is lost between   *)
(* the firmware and the library: an event is on its way.                   *)
THEOREM EventsCoverChanges ==
  ASSUME CarefulUser PROVE LinkSpec => []NothingUnannounced
<1>1. LinkInv => ViewAnnounced
  BY DEF LinkInv, Fits, Told, ViewAnnounced, Transitions
<1>2. LinkInv => ReadyAnnounced
  BY DEF LinkInv, Fits, XferInv, ReadyAnnounced
<1>3. LinkInv => NothingUnannounced
  BY <1>1, <1>2 DEF NothingUnannounced
<1>4. QED
  BY <1>3, LinkInvariant, PTL

(* The device stays within the buffer that its handler set up, for any     *)
(* sizes, cuts and MTUs.                                                   *)
THEOREM BlocksWithinBuffer ==
  ASSUME CarefulUser PROVE LinkSpec => []BlockWithinBuffer
<1>1. LinkInv => BlockWithinBuffer
  BY DEF LinkInv, Fits, XferInv, BlockWithinBuffer
<1>2. QED
  BY <1>1, LinkInvariant, PTL

----------------------------------------------------------------------------
(* What a step may never do. *)

(* Only a request is asked for, and only of the direction it names.        *)
LEMMA OnlyRequestsAsk ==
  ASSUME LinkInv, [LinkNext]_linkVars, NEW c \in Channels, NEW d \in Dirs,
         xfer[c][d] # "asked", xfer'[c][d] = "asked"
  PROVE  use[c] = "open" /\ IsActive(c) /\ xfer[c][d] = "idle"
<1>1. xfer \in [Channels -> [Dirs -> Xfers]]
  BY DEF LinkInv, LinkTypeOK
<1>2. xfer' # xfer
  BY <1>1
<1>3. ASSUME NEW c1 \in Channels, xfer' = [xfer EXCEPT ![c1] = NoXfer] PROVE FALSE
  BY <1>1, <1>3, NoXferType
<1>4. ASSUME NEW c1 \in Channels, NEW d1 \in Dirs, NEW v, v # "asked",
             xfer' = [xfer EXCEPT ![c1][d1] = v]
      PROVE  FALSE
  BY <1>1, <1>4
<1>5. ASSUME NEW c1 \in Channels, CloseChannel(c1) \/ ResetChannel(c1) PROVE FALSE
  BY <1>3, <1>5 DEF CloseChannel, ResetChannel
<1>6. ASSUME NEW c1 \in Channels, NEW d1 \in Dirs, Setup(c1, d1) PROVE FALSE
  <2>1. xfer' = [xfer EXCEPT ![c1][d1] =
                   IF SetupSize(c1, d1) = 0 THEN AfterLast ELSE "moving"]
    BY <1>6 DEF Setup
  <2>2. QED
    BY <1>4, <2>1 DEF AfterLast
<1>7. ASSUME NEW c1 \in Channels, NEW d1 \in Dirs, Block(c1, d1) PROVE FALSE
  <2>1. xfer' = [xfer EXCEPT ![c1][d1] =
                   IF LeftAfterBlock(c1, d1) = 0 THEN AfterLast ELSE "moving"]
    BY <1>1, <1>7 DEF Block
  <2>2. QED
    BY <1>4, <2>1 DEF AfterLast
<1>8. ASSUME NEW c1 \in Channels, Update(c1) PROVE FALSE
  <2>1. xfer' = [xfer EXCEPT ![c1] =
                   [o \in Dirs |-> XferAnswered(xfer[c1][o], chn[c1].state, chn[c1].bits[o])]]
    BY <1>8 DEF Update
  <2>2. QED
    BY <1>1, <2>1 DEF XferAnswered
<1>9. ASSUME NEW c1 \in Channels, NEW d1 \in Dirs, NEW size, Request(c1, d1, size)
      PROVE  use[c] = "open" /\ IsActive(c) /\ xfer[c][d] = "idle"
  <2>1. /\ xfer' = [xfer EXCEPT ![c1][d1] = "asked"]
        /\ use[c1] = "open" /\ IsActive(c1) /\ xfer[c1][d1] = "idle"
    BY <1>9 DEF Request, LibRequest, MayRequest
  <2>2. c1 = c /\ d1 = d
    BY <1>1, <2>1
  <2>3. QED
    BY <2>1, <2>2
<1>10. QED
  BY <1>2, <1>5, <1>6, <1>7, <1>8, <1>9
     DEF LinkNext, linkVars, OpenChannel, GetMtu, SetMtu, DeviceWork, FetchEvents

(* A request never lands on a device that still has one of the same        *)
(* direction in any of its stages, though the library decides by its copy. *)
THEOREM RequestsFindIdleDevice ==
  ASSUME CarefulUser PROVE LinkSpec => RequestsFindDeviceIdle
<1> DEFINE Fresh == \A c \in Channels, d \in Dirs :
             xfer[c][d] # "asked" /\ xfer'[c][d] = "asked" => chn[c].bits[d] = {}
<1>1. LinkInv /\ [LinkNext]_linkVars => Fresh
  BY OnlyRequestsAsk, SeenActive
<1>2. LinkInv /\ [LinkNext]_linkVars => [Fresh]_linkVars
  BY <1>1
<1>3. LinkSpec => [][Fresh]_linkVars
  BY <1>2, LinkInvariant, PTL DEF LinkSpec
<1>4. QED
  BY <1>3 DEF RequestsFindDeviceIdle

(* A reset that the user sees the end of has cancelled every request.      *)
LEMMA ResetEndsQuiet ==
  ASSUME LinkInv, [LinkNext]_linkVars, NEW c \in Channels,
         use[c] = "resetting", use'[c] = "open", NEW d \in Dirs
  PROVE  chn[c].bits[d] = {}
<1>1. use \in [Channels -> Uses]
  BY DEF LinkInv, LinkTypeOK
<1>2. use' # use
  BY <1>1
<1>3. ASSUME NEW c1 \in Channels, NEW v, v # "open", use' = [use EXCEPT ![c1] = v]
      PROVE  FALSE
  BY <1>1, <1>3
<1>4. ASSUME NEW c1 \in Channels, NEW port, OpenChannel(c1, port) PROVE FALSE
  BY <1>3, <1>4 DEF OpenChannel
<1>5. ASSUME NEW c1 \in Channels, CloseChannel(c1) \/ ResetChannel(c1) PROVE FALSE
  BY <1>3, <1>5 DEF CloseChannel, ResetChannel
<1>6. PICK c1 \in Channels : Update(c1)
  BY <1>2, <1>4, <1>5
     DEF LinkNext, linkVars, GetMtu, SetMtu, Request, Setup, Block, DeviceWork, FetchEvents
<1>7. use' = [use EXCEPT ![c1] = Answered(@, chn[c1].state)]
  BY <1>6 DEF Update
<1>8. c1 = c /\ chn[c].state = "ACTIVE"
  BY <1>1, <1>7 DEF Answered
<1>9. XferInv(chn[c], lib[c], use[c], xfer[c], c \in pend, d)
  BY DEF LinkInv, Fits
<1>10. QED
  BY <1>8, <1>9 DEF XferInv, Dead, Ended

(* When the user sees the end of a reset, every request of the channel is  *)
(* cancelled, those included that were being worked on when it was sent.   *)
THEOREM ResetsCancel == ASSUME CarefulUser PROVE LinkSpec => ResetCancels
<1> DEFINE Quietly == \A c \in Channels :
             use[c] = "resetting" /\ use'[c] = "open"
               => \A d \in Dirs : chn[c].bits[d] = {}
<1>1. LinkInv /\ [LinkNext]_linkVars => Quietly
  BY ResetEndsQuiet
<1>2. LinkInv /\ [LinkNext]_linkVars => [Quietly]_linkVars
  BY <1>1
<1>3. LinkSpec => [][Quietly]_linkVars
  BY <1>2, LinkInvariant, PTL DEF LinkSpec
<1>4. QED
  BY <1>3 DEF ResetCancels

----------------------------------------------------------------------------
(* The library is one host among those the firmware may have.  This holds  *)
(* whatever liberties its user takes. *)

UsedInv ==
  /\ xfer \in [Channels -> [Dirs -> Xfers]]
  /\ \A c \in Channels, d \in Dirs : xfer[c][d] # "idle" => d \in UsedDirs

LEMMA UsedStep ==
  ASSUME UsedInv, [LinkNext]_linkVars PROVE UsedInv' /\ [DeviceNext]_deviceVars
<1>1. xfer \in [Channels -> [Dirs -> Xfers]]
  BY DEF UsedInv
<1>2. ASSUME NEW c \in Channels, xfer' = [xfer EXCEPT ![c] = NoXfer] PROVE UsedInv'
  BY <1>1, <1>2, NoXferType DEF UsedInv, UsedDirs
<1>3. ASSUME NEW c \in Channels, NEW d \in UsedDirs, NEW v \in Xfers,
             xfer' = [xfer EXCEPT ![c][d] = v]
      PROVE  UsedInv'
  BY <1>1, <1>3 DEF UsedInv, UsedDirs
<1>4. xfer' = xfer => UsedInv'
  BY DEF UsedInv, UsedDirs
<1>5. ASSUME NEW c \in Channels, NEW port \in Ports, OpenChannel(c, port)
      PROVE  UsedInv' /\ DeviceNext
  BY <1>4, <1>5 DEF OpenChannel, LibOpen, DeviceNext, Command
<1>6. ASSUME NEW c \in Channels, CloseChannel(c) PROVE UsedInv' /\ DeviceNext
  BY <1>2, <1>6 DEF CloseChannel, LibClose, DeviceNext, Command
<1>7. ASSUME NEW c \in Channels, ResetChannel(c) PROVE UsedInv' /\ DeviceNext
  BY <1>2, <1>7 DEF ResetChannel, LibReset, DeviceNext, Command
<1>8. ASSUME NEW c \in Channels, GetMtu(c) PROVE UsedInv' /\ UNCHANGED deviceVars
  BY <1>4, <1>8 DEF GetMtu, LibGetMtu
<1>9. ASSUME NEW c \in Channels, NEW mtu \in Mtus, SetMtu(c, mtu)
      PROVE  UsedInv' /\ DeviceNext
  BY <1>4, <1>9 DEF SetMtu, LibSetMtu, DeviceNext, Command
<1>10. ASSUME NEW c \in Channels, NEW d \in Dirs, NEW size \in Sizes[d],
              Request(c, d, size)
       PROVE  UsedInv' /\ DeviceNext
  <2>1. d \in UsedDirs
    BY DEF UsedDirs
  <2>2. CmdReq(c, d, size) /\ xfer' = [xfer EXCEPT ![c][d] = "asked"]
    BY <1>10 DEF Request, LibRequest
  <2>3. QED
    BY <1>3, <2>1, <2>2 DEF DeviceNext, Command, Xfers
<1>11. ASSUME NEW c \in Channels, NEW d \in Dirs, Setup(c, d)
       PROVE  UsedInv' /\ (DeviceNext \/ UNCHANGED deviceVars)
  <2>1. d \in UsedDirs
    BY <1>11 DEF Setup, UsedInv
  <2>2. /\ CmdRes(c, d) \/ UNCHANGED deviceVars
        /\ xfer' = [xfer EXCEPT ![c][d] =
                      IF SetupSize(c, d) = 0 THEN AfterLast ELSE "moving"]
    BY <1>11 DEF Setup, LibSetup
  <2>3. QED
    BY <1>3, <2>1, <2>2 DEF DeviceNext, Command, Xfers, AfterLast
<1>12. ASSUME NEW c \in Channels, NEW d \in Dirs, Block(c, d)
       PROVE  UsedInv' /\ DeviceNext
  <2>1. d \in UsedDirs /\ xfer[c][d] = "moving"
    BY <1>12 DEF Block, UsedInv
  <2>2. /\ CmdBlk(c, d)
        /\ xfer' = [xfer EXCEPT ![c][d] =
                      IF LeftAfterBlock(c, d) = 0 THEN AfterLast ELSE "moving"]
    BY <1>1, <1>12, <2>1 DEF Block, LibBlock
  <2>3. QED
    BY <1>3, <2>1, <2>2 DEF DeviceNext, Command, Xfers, AfterLast
<1>13. ASSUME NEW c \in Channels, Update(c) PROVE UsedInv' /\ UNCHANGED deviceVars
  <2>1. xfer' = [xfer EXCEPT ![c] =
                   [d \in Dirs |-> XferAnswered(xfer[c][d], chn[c].state, chn[c].bits[d])]]
    BY <1>13 DEF Update
  <2>2. UsedInv'
    BY <1>1, <2>1 DEF UsedInv, UsedDirs, XferAnswered, Xfers
  <2>3. QED
    BY <1>13, <2>2 DEF Update, LibUpdate
<1>14. ASSUME NEW c \in Channels, DeviceWork(c) PROVE UsedInv' /\ DeviceNext
  BY <1>4, <1>14 DEF DeviceWork, DeviceNext
<1>15. CASE FetchEvents
  BY <1>4, <1>15 DEF FetchEvents, LibFetchEvents, DeviceNext, Command
<1>16. CASE UNCHANGED linkVars
  BY <1>4, <1>16 DEF linkVars, deviceVars
<1>17. QED
  BY <1>5, <1>6, <1>7, <1>8, <1>9, <1>10, <1>11, <1>12, <1>13, <1>14, <1>15, <1>16
     DEF LinkNext

(* Whatever the user of the library does, its commands are among those of  *)
(* DeviceSpec: all that is proved of the firmware under any host holds of  *)
(* the firmware under the library.                                         *)
THEOREM LinkImplementsDevice == LinkSpec => DeviceSpec
<1>1. LinkInit => DeviceInit /\ UsedInv
  BY NoXferType DEF LinkInit, UsedInv
<1>2. UsedInv /\ [LinkNext]_linkVars => UsedInv' /\ [DeviceNext]_deviceVars
  BY UsedStep
<1>3. QED
  BY <1>1, <1>2, PTL DEF LinkSpec, DeviceSpec

----------------------------------------------------------------------------
(* Blocks in step.  The device moves half the bytes of a write's block in  *)
(* words, rounded down: it agrees with the Amiga, which rounds up, as long *)
(* as all writes and all MTUs are even. *)

EvenWrites ==
  LET h == HandlerTable[0]
  IN  \A n \in Sizes["write"] \cup h.cuts["write"] \cup h.mtus \cup {h.defMtu, h.maxMtu} :
        n % 2 = 0

Even(k) ==
  /\ k.mtu % 2 = 0
  /\ LET b == k.buf["write"]
     IN  b.size % 2 = 0 /\ b.off % 2 = 0 /\ b.blk % 2 = 0

EvenInv == DeviceInv /\ \A c \in Channels : Even(chn[c])

LEMMA EvenNumbers ==
  ASSUME NEW a \in Nat, NEW b \in Nat, a % 2 = 0, b % 2 = 0
  PROVE  /\ (a + b) % 2 = 0 /\ (a - b) % 2 = 0
         /\ Smaller(a, b) % 2 = 0
  BY DEF Smaller

LEMMA SameTransfersEven ==
  ASSUME NEW k, NEW k2, Even(k), SameTransfers(k, k2) PROVE Even(k2)
  BY DEF Even, SameTransfers

(* An update of one direction is even, if it is for a write.               *)
LEMMA SameButEven ==
  ASSUME NEW k, NEW k2, NEW d \in Dirs, Even(k), SameBut(k, k2, d),
         d = "write" => LET b == k2.buf[d]
                        IN  b.size % 2 = 0 /\ b.off % 2 = 0 /\ b.blk % 2 = 0
  PROVE  Even(k2)
  BY DEF Even, SameBut, Dirs

LEMMA DoneEven ==
  ASSUME NEW k \in Channel, NEW k2, NEW d \in Dirs, Even(k), SameBut(k, k2, d),
         k2.buf[d] = [k.buf[d] EXCEPT !.size = 0]
  PROVE  Even(k2)
<1>1. k.buf[d] \in Buf
  BY DEF Channel
<1>2. k2.buf[d].size = 0 /\ k2.buf[d].off = k.buf[d].off /\ k2.buf[d].blk = k.buf[d].blk
  BY <1>1 DEF Buf
<1>3. d = "write" => LET b == k2.buf[d]
                     IN  b.size % 2 = 0 /\ b.off % 2 = 0 /\ b.blk % 2 = 0
  BY <1>2 DEF Even
<1>4. QED
  BY <1>3, SameButEven

LEMMA PreWorkEven ==
  ASSUME EvenWrites, NEW k \in Channel, Even(k), NEW d \in Dirs,
         NEW k2 \in PreWork(k, d)
  PROVE  Even(k2)
<1> DEFINE h == HandlerOf(k.service)
<1>1. h \in HandlerRec /\ h = HandlerTable[0] /\ k.buf[d].size \in Nat /\ k.mtu \in Nat
  BY HandlerType DEF Channel, Buf, HandlerOf, SrvId
<1>2. PICK r \in h.pre[d], n \in {k.buf[d].size} \cup {m \in h.cuts[d] : m < k.buf[d].size} :
        k2 = Pre(k, d, r, n)
  BY DEF PreWork
<1>3. r \in Results /\ n \in Nat
  BY <1>1, <1>2 DEF HandlerRec
<1>4. d = "write" => n % 2 = 0
  BY <1>1, <1>2 DEF EvenWrites, Even
<1>5. CASE r = "ok"
  <2>1. /\ SameBut(k, k2, d)
        /\ k2.buf[d] = [org |-> k.buf[d].org, size |-> n, off |-> 0,
                        blk |-> Smaller(n, k.mtu)]
    BY <1>2, <1>3, <1>5, ReplyFields DEF Pre
  <2>2. d = "write" => Smaller(n, k.mtu) % 2 = 0
    BY <1>1, <1>3, <1>4, EvenNumbers DEF Even
  <2>3. QED
    BY <1>4, <2>1, <2>2, SameButEven
<1>6. CASE r = "poll"
  BY <1>2, <1>6 DEF Pre
<1>7. CASE r = "err"
  <2> DEFINE k1 == SetError(k, 3)
  <2>1. k1 \in Channel
    BY SetErrorKeeps DEF Keeps, Errors
  <2>2. k1.mtu = k.mtu /\ k1.buf = k.buf
    BY DEF SetError, Channel
  <2>3. k2 = Done(k1, d)
    BY <1>2, <1>7 DEF Pre
  <2>4. Even(k1)
    BY <2>2 DEF Even
  <2> HIDE DEF k1
  <2>5. QED
    BY <2>1, <2>3, <2>4, DoneFields, DoneEven
<1>8. QED
  BY <1>3, <1>5, <1>6, <1>7 DEF Results

LEMMA PostWorkEven ==
  ASSUME NEW k \in Channel, Even(k), NEW d \in Dirs, NEW k2 \in PostWork(k, d)
  PROVE  Even(k2)
  BY PostFields, DoneEven

LEMMA BlkDoneEven ==
  ASSUME NEW k \in Channel, Even(k), NEW d \in Dirs, NEW k2 \in BlkDone(k, d)
  PROVE  Even(k2)
<1> DEFINE kp == [k EXCEPT !.bits[d] = @ \cup {"POST"}]
<1>1. kp \in Channel /\ Even(kp)
  BY DEF Channel, Even, Bits
<1> HIDE DEF kp
<1>2. k2 = k \/ k2 \in PostWork(kp, d)
  BY DEF BlkDone, kp
<1>3. QED
  BY <1>1, <1>2, PostWorkEven

LEMMA StageEven ==
  ASSUME EvenWrites, NEW d \in Dirs, NEW bit, NEW S,
         \A k \in S : k \in Channel /\ Even(k), NEW k2 \in Stage(S, d, bit)
  PROVE  k2 \in Channel /\ Even(k2)
<1>1. PICK k \in S : k2 \in IF bit \notin k.bits[d] THEN {k}
                            ELSE IF bit = "PRE" THEN PreWork(k, d)
                            ELSE PostWork(k, d)
  BY DEF Stage
<1>2. k \in Channel /\ Even(k)
  OBVIOUS
<1>3. k2 \in Channel
  BY <1>1, <1>2, PreWorkKeeps, PostWorkKeeps DEF Keeps
<1>4. QED
  BY <1>1, <1>2, <1>3, PreWorkEven, PostWorkEven

LEMMA NextBlkEven ==
  ASSUME NEW b \in Buf, NEW mtu \in Nat, mtu % 2 = 0,
         b.size % 2 = 0, b.off % 2 = 0, b.blk % 2 = 0
  PROVE  LET b1 == NextBlk(b, mtu)
         IN  b1.size % 2 = 0 /\ b1.off % 2 = 0 /\ b1.blk % 2 = 0
<1> DEFINE off == b.off + b.blk
           blk == IF off < b.size THEN Smaller(b.size - off, mtu) ELSE 0
           b1  == NextBlk(b, mtu)
<1>1. off \in Nat /\ off % 2 = 0
  BY EvenNumbers DEF Buf
<1>2. b1.size = b.size /\ b1.off = off /\ b1.blk = blk
  BY DEF NextBlk, Buf
<1> HIDE DEF off
<1>3. blk % 2 = 0
  <2>1. CASE off < b.size
    <3>1. b.size - off \in Nat /\ (b.size - off) % 2 = 0
      BY <1>1, <2>1, EvenNumbers DEF Buf
    <3>2. QED
      BY <2>1, <3>1, EvenNumbers
  <2>2. QED
    BY <2>1
<1>4. QED
  BY <1>1, <1>2, <1>3

LEMMA BecomesEven ==
  ASSUME EvenInv, DeviceInv', NEW c \in Channels, NEW S, Becomes(c, S),
         \A k \in S : Even(k)
  PROVE  EvenInv'
<1>1. Even(chn'[c]) /\ \A o \in Channels : o # c => chn'[o] = chn[o]
  BY BecomesOne DEF EvenInv
<1>2. QED
  BY <1>1 DEF EvenInv

LEMMA EvenCommand ==
  ASSUME EvenWrites, EvenInv, DeviceInv', Command PROVE EvenInv'
<1>1. \A c \in Channels : chn[c] \in Channel /\ Even(chn[c])
  BY DEF EvenInv, DeviceInv, TypeOK
<1>2. UNCHANGED chn => EvenInv'
  BY DEF EvenInv
<1>3. HandlerTable[0] \in HandlerRec /\ \A srv : HandlerOf(srv) = HandlerTable[0]
  BY HandlerType DEF HandlerOf, SrvId
<1>4. ASSUME NEW c \in Channels, NEW port \in Ports, CmdOpen(c, port) PROVE EvenInv'
  <2>1. ASSUME NEW e, Becomes(c, {Notify(SetOpenError(chn[c], e))}) PROVE EvenInv'
    <3>1. Even(Notify(SetOpenError(chn[c], e)))
      BY <1>1 DEF Even, Notify, SetOpenError, Channel
    <3>2. QED
      BY <2>1, <3>1, BecomesEven
  <2>2. ASSUME NEW srv \in Services, NEW sl \in FreeSlots(srv),
               Becomes(c, OpenWork([chn[c] EXCEPT !.service = srv, !.slot = sl,
                                                  !.mtu = HandlerOf(srv).defMtu]))
        PROVE  EvenInv'
    <3> DEFINE k1 == [chn[c] EXCEPT !.service = srv, !.slot = sl,
                                    !.mtu = HandlerOf(srv).defMtu]
    <3>1. HandlerOf(srv).defMtu \in Nat /\ sl \in 0 .. EmptySlot
      BY HandlerType, SlotNumbers DEF HandlerRec
    <3>2. k1 \in Channel /\ k1.mtu = HandlerTable[0].defMtu /\ k1.buf = chn[c].buf
      BY <1>1, <1>3, <3>1 DEF Channel
    <3>3. Even(k1)
      BY <1>1, <3>2 DEF Even, EvenWrites
    <3> HIDE DEF k1
    <3>4. \A k2 \in OpenWork(k1) : Even(k2)
      BY <3>2, <3>3, OpenFields, SameTransfersEven
    <3>5. QED
      BY <2>2, <3>4, BecomesEven DEF k1
  <2>3. QED
    BY <1>4, <2>1, <2>2 DEF CmdOpen
<1>5. ASSUME NEW c \in Channels, CmdClose(c) PROVE EvenInv'
  <2>1. \A k2 \in CloseWork(chn[c]) \cup {CloseDone(chn[c])} : Even(k2)
    BY <1>1, CloseFields, CloseDoneFields DEF Even, SameTransfers
  <2>2. QED
    BY <1>2, <1>5, <2>1, BecomesEven DEF CmdClose, Hang
<1>6. ASSUME NEW c \in Channels, CmdReset(c) PROVE EvenInv'
  <2>1. \A k2 \in ResetWork(chn[c]) : Even(k2)
    BY <1>1, ResetFields, SameTransfersEven
  <2>2. QED
    BY <1>2, <1>6, <2>1, BecomesEven DEF CmdReset, Hang
<1>7. ASSUME NEW c \in Channels, NEW mtu \in Mtus, CmdSetMtu(c, mtu) PROVE EvenInv'
  <2>1. ASSUME NEW m \in MtuAnswers(HandlerTable[0], mtu)
        PROVE  Even([chn[c] EXCEPT !.mtu = m])
    <3>1. HandlerTable[0].maxMtu \in Nat /\ mtu \in Nat /\ mtu % 2 = 0
      BY <1>3, DeviceAssumption, LibAssumption DEF HandlerRec
    <3> DEFINE h      == HandlerTable[0]
               capped == Smaller(mtu, h.maxMtu)
    <3>2. /\ h.maxMtu % 2 = 0 /\ h.defMtu % 2 = 0
          /\ \A n \in h.mtus : n % 2 = 0
      BY DEF EvenWrites
    <3>3. capped % 2 = 0
      BY <3>1, <3>2, EvenNumbers
    <3>4. m \in h.mtus \/ m = capped \/ m = h.defMtu
      BY DEF MtuAnswers
    <3>5. m % 2 = 0
      BY <3>2, <3>3, <3>4
    <3>6. QED
      BY <1>1, <3>5 DEF Even, Channel
  <2>2. QED
    BY <1>2, <1>3, <1>7, <2>1, BecomesEven DEF CmdSetMtu, Hang
<1>8. CASE CmdEventMask
  <2>1. \A c \in Channels : /\ chn'[c].mtu = chn[c].mtu
                            /\ chn'[c].buf = chn[c].buf
    BY <1>1, <1>8 DEF CmdEventMask, Channel
  <2>2. QED
    BY <2>1 DEF EvenInv, Even
<1>9. ASSUME NEW c \in Channels, NEW d \in Dirs, NEW size \in Sizes[d],
             CmdReq(c, d, size)
      PROVE  EvenInv'
  <2> DEFINE b  == [org |-> size, size |-> size, blk |-> 0, off |-> 0]
             k0 == [chn[c] EXCEPT !.bits[d] = @ \cup {"PRE"}]
             k1 == [k0 EXCEPT !.buf[d] = b]
  <2>1. b \in Buf /\ (d = "write" => size % 2 = 0)
    BY DeviceAssumption DEF Buf, EvenWrites
  <2>2. k1 = [chn[c] EXCEPT !.bits[d] = @ \cup {"PRE"}, !.buf[d] = b]
    BY <1>1 DEF Channel
  <2>3. CASE Bound(c)
    <3>1. Becomes(c, PreWork(k1, d))
      BY <1>9, <2>2, <2>3 DEF CmdReq
    <3>2. k0 \in Channel /\ SameBut(chn[c], k0, d)
      BY <1>1 DEF Channel, SameBut, Bits
    <3>3. /\ b.size = size /\ b.off = 0 /\ b.blk = 0
      OBVIOUS
    <3> HIDE DEF k0, b
    <3>4. k1 \in Channel /\ SameBut(chn[c], k1, d) /\ k1.buf[d] = b
      BY <2>1, <3>2 DEF Channel, SameBut
    <3> HIDE DEF k1
    <3>5. Even(k1)
      BY <1>1, <2>1, <3>3, <3>4, SameButEven
    <3>6. QED
      BY <3>1, <3>4, <3>5, PreWorkEven, BecomesEven
  <2>4. CASE ~Bound(c)
    BY <1>2, <1>9, <2>4 DEF CmdReq, Hang
  <2>5. QED
    BY <2>3, <2>4
<1>10. ASSUME NEW c \in Channels, NEW d \in Dirs, CmdRes(c, d) PROVE EvenInv'
  BY <1>1, <1>2, <1>10, BlkDoneEven, BecomesEven DEF CmdRes, Hang, deviceVars
<1>11. ASSUME NEW c \in Channels, NEW d \in Dirs, CmdBlk(c, d) PROVE EvenInv'
  <2> DEFINE b  == NextBlk(chn[c].buf[d], chn[c].mtu)
             k1 == [chn[c] EXCEPT !.buf[d] = b]
  <2>1. chn[c].buf[d] \in Buf /\ chn[c].mtu \in Nat
    BY <1>1 DEF Channel
  <2>2. b \in Buf
    BY <2>1, NextBlkType
  <2>3. k1 = [chn[c] EXCEPT !.buf[d] = NextBlk(@, chn[c].mtu)]
    BY <1>1 DEF Channel
  <2>4. d = "write" => b.size % 2 = 0 /\ b.off % 2 = 0 /\ b.blk % 2 = 0
    <3>1. CASE d = "write"
      BY <1>1, <2>1, <3>1, NextBlkEven DEF Even
    <3>2. QED
      BY <3>1
  <2>5. CASE Bound(c)
    <3>1. Becomes(c, BlkDone(k1, d))
      BY <1>11, <2>3, <2>5 DEF CmdBlk
    <3> HIDE DEF b
    <3>2. k1 \in Channel /\ SameBut(chn[c], k1, d) /\ k1.buf[d] = b
      BY <1>1, <2>2 DEF Channel, SameBut
    <3> HIDE DEF k1
    <3>3. Even(k1)
      BY <1>1, <2>4, <3>2, SameButEven
    <3>4. QED
      BY <3>1, <3>2, <3>3, BlkDoneEven, BecomesEven
  <2>6. CASE ~Bound(c)
    BY <1>2, <1>11, <2>6 DEF CmdBlk, Hang
  <2>7. QED
    BY <2>5, <2>6
<1>12. ASSUME NEW c \in Channels, CmdPosition(c) PROVE EvenInv'
  BY <1>2, <1>12 DEF CmdPosition, Hang, deviceVars
<1>13. QED
  BY <1>4, <1>5, <1>6, <1>7, <1>8, <1>9, <1>10, <1>11, <1>12 DEF Command, UsedDirs

LEMMA EvenWork ==
  ASSUME EvenWrites, EvenInv, DeviceInv', NEW c \in Channels, Work(c)
  PROVE  EvenInv'
<1> DEFINE k == chn[c]
<1>1. k \in Channel /\ Even(k)
  BY DEF EvenInv, DeviceInv, TypeOK
<1>2. CASE OpeningWork(c)
  BY <1>1, <1>2, OpenFields, SameTransfersEven, BecomesEven DEF OpeningWork
<1>3. CASE ResettingWork(c)
  BY <1>1, <1>3, ResetFields, SameTransfersEven, BecomesEven DEF ResettingWork
<1>4. CASE ClosingWork(c)
  <2>1. \A k2 \in CloseWork(k) : Even(k2)
    BY <1>1, CloseFields DEF Even, SameTransfers
  <2>2. QED
    BY <1>4, <2>1, BecomesEven DEF ClosingWork
<1>5. CASE ActiveWork(c)
  <2> DEFINE Good(S) == \A k1 \in S : k1 \in Channel /\ Even(k1)
             S0 == {k}
             S1 == Stage(S0, "read", "PRE")
             S2 == Stage(S1, "read", "POST")
             S3 == Stage(S2, "write", "PRE")
             S4 == Stage(S3, "write", "POST")
  <2>1. Good(S0) /\ Becomes(c, S4)
    BY <1>1, <1>5 DEF ActiveWork
  <2> "read" \in Dirs /\ "write" \in Dirs
    BY DEF Dirs
  <2> HIDE DEF S0
  <2>2. Good(S1)
    BY <2>1, StageEven
  <2> HIDE DEF S1
  <2>3. Good(S2)
    BY <2>2, StageEven
  <2> HIDE DEF S2
  <2>4. Good(S3)
    BY <2>3, StageEven
  <2> HIDE DEF S3
  <2>5. Good(S4)
    BY <2>4, StageEven
  <2> HIDE DEF S4
  <2>6. QED
    BY <2>1, <2>5, BecomesEven
<1>6. CASE ChannelTask(c)
  <2> DEFINE off == [k EXCEPT !.task = FALSE]
  <2>1. off \in Channel /\ SameTransfers(k, off)
    BY <1>1 DEF Channel, SameTransfers
  <2>2. Hang \/ Becomes(c, {k, off, EndStream(off, 0), EndStream(off, 3)})
    BY <1>6 DEF ChannelTask
  <2> HIDE DEF off
  <2>3. Even(off)
    BY <1>1, <2>1, SameTransfersEven
  <2>4. Even(EndStream(off, 0)) /\ Even(EndStream(off, 3))
    BY <2>1, <2>3, EndStreamFields, SameTransfersEven
  <2>5. QED
    BY <1>1, <2>2, <2>3, <2>4, BecomesEven DEF Hang, EvenInv
<1>7. QED
  BY <1>2, <1>3, <1>4, <1>5, <1>6 DEF Work

LEMMA EvenNext ==
  ASSUME EvenWrites, EvenInv, [DeviceNext]_deviceVars PROVE EvenInv'
<1>1. DeviceInv'
  BY NextPreserves DEF EvenInv
<1>2. CASE DeviceNext
  BY <1>1, <1>2, EvenCommand, EvenWork DEF DeviceNext
<1>3. CASE UNCHANGED deviceVars
  BY <1>1, <1>3 DEF deviceVars, EvenInv
<1>4. QED
  BY <1>2, <1>3

LEMMA EvenInit == DeviceInit => EvenInv
<1>1. ASSUME DeviceInit, NEW c \in Channels PROVE Even(chn[c])
  <2>1. chn[c].mtu = 0 /\ chn[c].buf["write"] = NoBuf
    BY <1>1 DEF DeviceInit, FreshChannels, Dirs
  <2>2. QED
    BY <2>1 DEF Even, NoBuf
<1>2. QED
  BY <1>1, InitInv DEF EvenInv

(* During a transfer both sides agree on how many bytes are left and move  *)
(* the same number of words in a block, whatever the handler made of the   *)
(* size and the MTU.                                                       *)
THEOREM TransfersInStep ==
  ASSUME CarefulUser, EvenWrites PROVE LinkSpec => []BlocksInStep
<1>1. ASSUME LinkInv, EvenInv PROVE BlocksInStep
  <2> SUFFICES ASSUME NEW c \in Channels, NEW d \in Dirs, xfer[c][d] = "moving"
               PROVE  /\ lib[c].left[d] = chn[c].buf[d].size - chn[c].buf[d].off
                      /\ DeviceWords(c, d) = (BlockSize(c, d) + 1) \div 2
    BY DEF BlocksInStep
  <2>1. Fits(chn[c], lib[c], use[c], xfer[c], c \in pend) /\ chn[c] \in Channel
    BY <1>1, Before
  <2>2. MovingInv(chn[c], lib[c], d) /\ lib[c].mtu \in {0, chn[c].mtu}
    BY <2>1 DEF Fits, XferInv, LifeInv
  <2>3. chn[c].buf[d].blk = BlockSize(c, d) /\ chn[c].buf[d].blk \in Nat
    BY <2>1, <2>2 DEF MovingInv, BlockSize, Channel, Buf
  <2>4. d = "write" => chn[c].buf[d].blk % 2 = 0
    BY <1>1 DEF EvenInv, Even
  <2>5. d = "write" => chn[c].buf[d].blk \div 2 = (chn[c].buf[d].blk + 1) \div 2
    BY <2>3, <2>4
  <2>6. DeviceWords(c, d) = (BlockSize(c, d) + 1) \div 2
    BY <2>3, <2>5 DEF DeviceWords, Dirs
  <2>7. QED
    BY <2>2, <2>6 DEF MovingInv
<1>2. EvenInv /\ [DeviceNext]_deviceVars => EvenInv'
  BY EvenNext
<1>3. DeviceSpec => []EvenInv
  BY <1>2, EvenInit, PTL DEF DeviceSpec
<1>4. QED
  BY <1>1, <1>3, LinkInvariant, LinkImplementsDevice, PTL

----------------------------------------------------------------------------
(* What a handler opened it gets to close.  Bit 0 of the state makes the   *)
(* firmware leave the close() out: that of ERROR, of a channel whose       *)
(* request or task failed, and that of RESETTING, if the user does not     *)
(* wait. *)

NothingFails ==
  LET h == HandlerTable[0]
  IN  ~h.task /\ \A d \in UsedDirs : "err" \notin h.pre[d] /\ "err" \notin h.post[d]

Released(k) ==
  /\ k.state \notin Ended /\ k.task = FALSE
  /\ k.state \in {"INACTIVE", "OPEN_ERROR"} => k.session = "none"
  /\ k.service = NoService => k.session = "none"
  /\ \A d \in Dirs : k.bits[d] # {} => d \in UsedDirs

AllReleased == \A c \in Channels : Released(chn[c])

LEMMA BecomesReleased ==
  ASSUME DeviceInv, AllReleased, NEW c \in Channels, NEW S, Becomes(c, S),
         \A k \in S : Released(k)
  PROVE  AllReleased'
<1>1. Released(chn'[c]) /\ \A o \in Channels : o # c => chn'[o] = chn[o]
  BY BecomesOne
<1>2. QED
  BY <1>1 DEF AllReleased, Released, UsedDirs

LEMMA StayReleased == ASSUME AllReleased, UNCHANGED chn PROVE AllReleased'
  BY DEF AllReleased, Released, UsedDirs

LEMMA OpenReleased ==
  ASSUME NEW k \in Channel, Released(k), k.service # NoService, NEW k2 \in OpenWork(k)
  PROVE  Released(k2)
<1>1. PICK r \in HandlerOf(k.service).open : k2 = Open(k, r)
  BY DEF OpenWork
<1>2. r \in Results
  BY HandlerType DEF HandlerRec
<1>3. CASE r = "ok"
  BY <1>1, <1>3 DEF Open, Notify, SetState, Channel, Released, Ended
<1>4. CASE r = "poll"
  BY <1>1, <1>4 DEF Open, Notify, SetState, Channel, Released, Ended
<1>5. CASE r = "err"
  <2>1. k2.session = "none" /\ k2.state = "OPEN_ERROR" /\ k2.bits = k.bits /\ k2.task = k.task
    BY <1>1, <1>5 DEF Open, Notify, SetOpenError, Channel
  <2>2. QED
    BY <2>1 DEF Released, Ended
<1>6. QED
  BY <1>2, <1>3, <1>4, <1>5 DEF Results

LEMMA CloseDoneReleased ==
  ASSUME NEW k \in Channel, k.task = FALSE, k.session = "none"
  PROVE  Released(CloseDone(k))
  BY CloseDoneFields DEF Released, Ended

LEMMA CloseReleased ==
  ASSUME NEW k \in Channel, Released(k), k.service # NoService, NEW k2 \in CloseWork(k)
  PROVE  Released(k2)
<1>1. PICK r : k2 = Close(k, r)
  BY DEF CloseWork
<1>2. CASE r = "ok"
  <2> DEFINE k1 == [k EXCEPT !.session = "none"]
  <2>1. k1 \in Channel /\ k1.session = "none" /\ k1.task = FALSE /\ k2 = CloseDone(k1)
    BY <1>1, <1>2 DEF Close, Channel, Released
  <2> HIDE DEF k1
  <2>2. QED
    BY <2>1, CloseDoneReleased
<1>3. CASE r # "ok"
  BY <1>1, <1>3 DEF Close, SetState, Channel, Released, Ended
<1>4. QED
  BY <1>2, <1>3

LEMMA ResetReleased ==
  ASSUME NEW k \in Channel, Released(k), NEW k2 \in ResetWork(k)
  PROVE  Released(k2)
<1>1. /\ k2.state \in {"ACTIVE", "RESETTING"}
      /\ k2.task = k.task /\ k2.session = k.session /\ k2.service = k.service
      /\ k2.bits = k.bits
  BY DEF ResetWork, Reset, Notify, SetState, Channel
<1>2. k2.state \notin Ended /\ k2.state \notin {"INACTIVE", "OPEN_ERROR"}
  BY <1>1 DEF Ended
<1>3. QED
  BY <1>1, <1>2 DEF Released

(* Most updates leave alone what matters here.                             *)
LEMMA SameReleased ==
  ASSUME NEW k, NEW k2, NEW d \in UsedDirs, Released(k),
         k2.state = k.state, k2.task = k.task, k2.session = k.session,
         k2.service = k.service,
         \A o \in Dirs : o # d => k2.bits[o] = k.bits[o]
  PROVE  Released(k2)
  BY DEF Released

LEMMA PreReleased ==
  ASSUME NothingFails, NEW k \in Channel, Released(k), NEW d \in UsedDirs,
         NEW k2 \in PreWork(k, d)
  PROVE  Released(k2)
<1> DEFINE h == HandlerOf(k.service)
<1>1. d \in Dirs
  BY DEF UsedDirs
<1>2. PICK r \in h.pre[d], n \in {k.buf[d].size} \cup {m \in h.cuts[d] : m < k.buf[d].size} :
        k2 = Pre(k, d, r, n)
  BY DEF PreWork
<1>3. r \in Results /\ n \in Nat
  BY <1>1, <1>2, HandlerType DEF HandlerRec, Channel, Buf
<1>4. r # "err"
  BY <1>2 DEF NothingFails, HandlerOf, SrvId
<1>5. CASE r = "ok"
  <2>1. k2 = Reply(k, d, n)
    BY <1>2, <1>5 DEF Pre
  <2>2. k2.task = k.task /\ k2.session = k.session
    BY <2>1 DEF Reply, Notify, Channel
  <2>3. SameBut(k, k2, d) /\ k2.state = k.state
    BY <1>1, <2>1 DEF Reply, Notify, Channel, SameBut
  <2>4. QED
    BY <2>2, <2>3, SameReleased DEF SameBut
<1>6. CASE r = "poll"
  BY <1>2, <1>6 DEF Pre
<1>7. QED
  BY <1>3, <1>4, <1>5, <1>6 DEF Results

LEMMA PostReleased ==
  ASSUME NothingFails, NEW k \in Channel, Released(k), NEW d \in UsedDirs,
         NEW k2 \in PostWork(k, d)
  PROVE  Released(k2)
<1> DEFINE h == HandlerOf(k.service)
<1>1. d \in Dirs /\ h = HandlerTable[0]
  BY DEF UsedDirs, HandlerOf, SrvId
<1>2. PICK r \in h.post[d], t \in TaskStarts(h, d) : k2 = Post(k, d, r, t)
  BY DEF PostWork
<1>3. r \in Results /\ t = FALSE
  BY <1>1, <1>2, HandlerType DEF HandlerRec, TaskStarts, NothingFails
<1>4. r # "err"
  BY <1>1, <1>2 DEF NothingFails
<1>5. CASE r = "ok"
  <2> DEFINE k1 == [k EXCEPT !.task = @ \/ t]
  <2>1. k1 \in Channel /\ k1.task = k.task
    BY <1>3 DEF Channel
  <2>2. /\ k1.state = k.state /\ k1.session = k.session
        /\ k1.service = k.service /\ k1.bits = k.bits
    BY DEF Channel
  <2>3. k2 = Done(k1, d)
    BY <1>2, <1>5 DEF Post
  <2> HIDE DEF k1
  <2>4. /\ k2.state = k1.state /\ k2.task = k1.task /\ k2.session = k1.session
        /\ SameBut(k1, k2, d)
    BY <1>1, <2>1, <2>3, DoneFields
  <2>5. QED
    BY <2>1, <2>2, <2>4, SameReleased DEF SameBut
<1>6. CASE r = "poll"
  BY <1>2, <1>6 DEF Post
<1>7. QED
  BY <1>3, <1>4, <1>5, <1>6 DEF Results

LEMMA BlkDoneReleased ==
  ASSUME NothingFails, NEW k \in Channel, Released(k), NEW d \in UsedDirs,
         NEW k2 \in BlkDone(k, d)
  PROVE  Released(k2)
<1> DEFINE kp == [k EXCEPT !.bits[d] = @ \cup {"POST"}]
<1>1. d \in Dirs
  BY DEF UsedDirs
<1>2. kp \in Channel /\ Released(kp)
  BY <1>1 DEF Channel, Bits, Released
<1> HIDE DEF kp
<1>3. k2 = k \/ k2 \in PostWork(kp, d)
  BY DEF BlkDone, kp
<1>4. QED
  BY <1>2, <1>3, PostReleased

LEMMA StageReleased ==
  ASSUME NothingFails, NEW d \in Dirs, NEW bit, NEW S,
         \A k \in S : k \in Channel /\ Released(k), NEW k2 \in Stage(S, d, bit)
  PROVE  k2 \in Channel /\ Released(k2)
<1>1. PICK k \in S : k2 \in IF bit \notin k.bits[d] THEN {k}
                            ELSE IF bit = "PRE" THEN PreWork(k, d)
                            ELSE PostWork(k, d)
  BY DEF Stage
<1>2. k \in Channel /\ Released(k)
  OBVIOUS
<1>3. k2 \in Channel
  BY <1>1, <1>2, PreWorkKeeps, PostWorkKeeps DEF Keeps
<1>4. bit \in k.bits[d] => d \in UsedDirs
  BY <1>2 DEF Released
<1>5. QED
  BY <1>1, <1>2, <1>3, <1>4, PreReleased, PostReleased

LEMMA OpenChannelReleases ==
  ASSUME Careful, LinkInv, AllReleased, NEW c \in Channels, NEW port,
         OpenChannel(c, port)
  PROVE  AllReleased'
<1> DEFINE k == chn[c]
<1>1. /\ DeviceInv /\ k \in Channel /\ Released(k)
      /\ LifeInv(k, lib[c], use[c])
  BY Before DEF AllReleased, Fits
<1>2. k.session = "none"
  <2>1. use[c] # "opening" /\ lib[c].view = "INACTIVE"
    BY DEF OpenChannel, Careful, LibOpen, IsFreeChannel
  <2>2. k.state = "INACTIVE"
    BY <1>1, <2>1 DEF LifeInv
  <2>3. QED
    BY <1>1, <2>2 DEF Released
<1>3. ASSUME NEW e, Becomes(c, {Notify(SetOpenError(k, e))}) PROVE AllReleased'
  <2>1. Released(Notify(SetOpenError(k, e)))
    BY <1>1, <1>2 DEF Notify, SetOpenError, Channel, Released, Ended
  <2>2. QED
    BY <1>1, <1>3, <2>1, BecomesReleased
<1>4. ASSUME NEW srv \in Services, NEW sl \in FreeSlots(srv),
             Becomes(c, OpenWork([k EXCEPT !.service = srv, !.slot = sl,
                                           !.mtu = HandlerOf(srv).defMtu]))
      PROVE  AllReleased'
  <2> DEFINE k1 == [k EXCEPT !.service = srv, !.slot = sl, !.mtu = HandlerOf(srv).defMtu]
  <2>1. HandlerOf(srv).defMtu \in Nat /\ sl \in 0 .. EmptySlot
    BY HandlerType, SlotNumbers DEF HandlerRec
  <2>2. /\ k1 \in Channel /\ k1.service = srv /\ k1.state = k.state
        /\ k1.session = k.session /\ k1.bits = k.bits /\ k1.task = k.task
    BY <1>1, <2>1 DEF Channel
  <2>3. k1.service # NoService
    BY <2>2, DeviceAssumption DEF Services, NoService
  <2> HIDE DEF k1
  <2>4. Released(k1)
    BY <1>1, <1>2, <2>2 DEF Released
  <2>5. \A k2 \in OpenWork(k1) : Released(k2)
    BY <2>2, <2>3, <2>4, OpenReleased
  <2>6. QED
    BY <1>1, <1>4, <2>5, BecomesReleased DEF k1
<1>5. QED
  BY <1>3, <1>4 DEF OpenChannel, LibOpen, CmdOpen

(* The channel of a close is active, or it could not be opened.            *)
LEMMA CloseChannelReleases ==
  ASSUME Careful, "interrupt" \notin Liberties, LinkInv, AllReleased,
         NEW c \in Channels, CloseChannel(c)
  PROVE  AllReleased'
<1> DEFINE k == chn[c]
<1>1. /\ DeviceInv /\ k \in Channel /\ Released(k)
      /\ LifeInv(k, lib[c], use[c])
  BY Before DEF AllReleased, Fits
<1>2. use[c] \in {"open", "failed"} /\ CmdClose(c)
  BY DEF CloseChannel, LibClose
<1>3. k.state = "ACTIVE" \/ k.state = "OPEN_ERROR"
  BY <1>1, <1>2 DEF LifeInv, Released
<1>4. k.state \in OpenErrorBit => k.session = "none"
  BY <1>1, <1>3 DEF OpenErrorBit, Released
<1>5. CASE Becomes(c, CloseWork(k)) /\ Bound(c)
  BY <1>1, <1>5, CloseReleased, BecomesReleased DEF Bound
<1>6. CASE Becomes(c, {CloseDone(k)}) /\ k.state \in OpenErrorBit
  <2>1. Released(CloseDone(k))
    BY <1>1, <1>4, <1>6, CloseDoneReleased DEF Released
  <2>2. QED
    BY <1>1, <1>6, <2>1, BecomesReleased
<1>7. CASE Hang
  BY <1>7, StayReleased DEF Hang
<1>8. QED
  BY <1>2, <1>5, <1>6, <1>7 DEF CmdClose

LEMMA TransferReleases ==
  ASSUME NothingFails, DeviceInv, AllReleased, NEW c \in Channels,
         NEW d \in UsedDirs,
         \/ CmdRes(c, d)
         \/ CmdBlk(c, d)
         \/ \E size \in Sizes[d] : CmdReq(c, d, size)
  PROVE  AllReleased'
<1> DEFINE k == chn[c]
<1>1. k \in Channel /\ Released(k) /\ d \in Dirs
  BY DEF DeviceInv, TypeOK, AllReleased, UsedDirs
<1>2. CASE UNCHANGED chn
  BY <1>2, StayReleased
<1>3. CASE Becomes(c, BlkDone(k, d))
  BY <1>1, <1>3, BlkDoneReleased, BecomesReleased
<1>4. CASE Becomes(c, BlkDone([k EXCEPT !.buf[d] = NextBlk(@, k.mtu)], d))
  <2> DEFINE b  == NextBlk(k.buf[d], k.mtu)
             k1 == [k EXCEPT !.buf[d] = b]
  <2>1. k1 = [k EXCEPT !.buf[d] = NextBlk(@, k.mtu)]
    BY <1>1 DEF Channel
  <2>2. b \in Buf
    BY <1>1, NextBlkType DEF Channel
  <2> HIDE DEF b
  <2>3. k1 \in Channel /\ Released(k1)
    BY <1>1, <2>2 DEF Channel, Released
  <2>4. Becomes(c, BlkDone(k1, d))
    BY <1>4, <2>1
  <2> HIDE DEF k1
  <2>5. QED
    BY <2>3, <2>4, BlkDoneReleased, BecomesReleased
<1>5. ASSUME NEW size \in Sizes[d], CmdReq(c, d, size), Bound(c) PROVE AllReleased'
  <2> DEFINE b  == [org |-> size, size |-> size, blk |-> 0, off |-> 0]
             k0 == [k EXCEPT !.bits[d] = @ \cup {"PRE"}]
             k1 == [k0 EXCEPT !.buf[d] = b]
  <2>1. b \in Buf
    BY <1>1, DeviceAssumption DEF Buf
  <2>2. k1 = [k EXCEPT !.bits[d] = @ \cup {"PRE"}, !.buf[d] = b]
    BY <1>1 DEF Channel
  <2>3. Becomes(c, PreWork(k1, d))
    BY <1>5, <2>2 DEF CmdReq
  <2>4. k0 \in Channel /\ Released(k0)
    BY <1>1 DEF Channel, Bits, Released
  <2> HIDE DEF k0, b
  <2>5. k1 \in Channel /\ Released(k1)
    BY <2>1, <2>4 DEF Channel, Released
  <2> HIDE DEF k1
  <2>6. QED
    BY <2>3, <2>5, PreReleased, BecomesReleased
<1>6. QED
  BY <1>2, <1>3, <1>4, <1>5 DEF CmdRes, CmdBlk, CmdReq, Hang, deviceVars

LEMMA WorkReleases ==
  ASSUME NothingFails, DeviceInv, AllReleased, NEW c \in Channels, Work(c)
  PROVE  AllReleased'
<1> DEFINE k == chn[c]
<1>1. k \in Channel /\ Released(k) /\ (k.state \in ActiveStates => k.service # NoService)
  BY DEF DeviceInv, TypeOK, AllReleased, ActiveIsBound, Bound
<1>2. CASE OpeningWork(c)
  BY <1>1, <1>2, OpenReleased, BecomesReleased DEF OpeningWork, ActiveStates
<1>3. CASE ClosingWork(c)
  BY <1>1, <1>3, CloseReleased, BecomesReleased DEF ClosingWork, ActiveStates
<1>4. CASE ResettingWork(c)
  BY <1>1, <1>4, ResetReleased, BecomesReleased DEF ResettingWork
<1>5. CASE ActiveWork(c)
  <2> DEFINE Good(S) == \A k1 \in S : k1 \in Channel /\ Released(k1)
             S0 == {k}
             S1 == Stage(S0, "read", "PRE")
             S2 == Stage(S1, "read", "POST")
             S3 == Stage(S2, "write", "PRE")
             S4 == Stage(S3, "write", "POST")
  <2>1. Good(S0) /\ Becomes(c, S4)
    BY <1>1, <1>5 DEF ActiveWork
  <2> "read" \in Dirs /\ "write" \in Dirs
    BY DEF Dirs
  <2> HIDE DEF S0
  <2>2. Good(S1)
    BY <2>1, StageReleased
  <2> HIDE DEF S1
  <2>3. Good(S2)
    BY <2>2, StageReleased
  <2> HIDE DEF S2
  <2>4. Good(S3)
    BY <2>3, StageReleased
  <2> HIDE DEF S3
  <2>5. Good(S4)
    BY <2>4, StageReleased
  <2> HIDE DEF S4
  <2>6. QED
    BY <2>1, <2>5, BecomesReleased
<1>6. ~ChannelTask(c)
  BY <1>1 DEF ChannelTask, Released
<1>7. QED
  BY <1>2, <1>3, <1>4, <1>5, <1>6 DEF Work

LEMMA ReleasedNext ==
  ASSUME Careful, "interrupt" \notin Liberties, NothingFails,
         LinkInv, UsedInv, AllReleased, [LinkNext]_linkVars
  PROVE  AllReleased'
<1>1. \A c \in Channels : chn[c] \in Channel /\ Released(chn[c])
  BY DEF LinkInv, DeviceInv, TypeOK, AllReleased
<1>2. DeviceInv
  BY DEF LinkInv
<1>3. ASSUME NEW c \in Channels, ResetChannel(c) PROVE AllReleased'
  <2>1. Hang \/ Becomes(c, ResetWork(chn[c]))
    BY <1>3 DEF ResetChannel, LibReset, CmdReset
  <2>2. QED
    BY <1>1, <1>2, <2>1, ResetReleased, BecomesReleased, StayReleased DEF Hang
<1>4. ASSUME NEW c \in Channels, NEW mtu, SetMtu(c, mtu) PROVE AllReleased'
  <2>1. Hang \/ Becomes(c, {[chn[c] EXCEPT !.mtu = m] :
                              m \in MtuAnswers(HandlerOf(chn[c].service), mtu)})
    BY <1>4 DEF SetMtu, LibSetMtu, CmdSetMtu
  <2>2. \A m : Released([chn[c] EXCEPT !.mtu = m])
    BY <1>1 DEF Channel, Released
  <2>3. QED
    BY <1>2, <2>1, <2>2, BecomesReleased, StayReleased DEF Hang
<1>5. CASE FetchEvents
  <2>1. \A c \in Channels : chn'[c] = [chn[c] EXCEPT !.event = FALSE]
    BY <1>5 DEF FetchEvents, LibFetchEvents, CmdEventMask
  <2>2. \A c \in Channels : Released([chn[c] EXCEPT !.event = FALSE])
    BY <1>1 DEF Channel, Released
  <2>3. \A c \in Channels : Released(chn'[c])
    BY <2>1, <2>2
  <2>4. AllReleased' <=> \A c \in Channels : Released(chn'[c])
    BY DEF AllReleased, Released, UsedDirs
  <2>5. QED
    BY <2>3, <2>4
<1>6. ASSUME NEW c \in Channels, NEW d \in Dirs, NEW size \in Sizes[d],
             Request(c, d, size)
      PROVE  AllReleased'
  <2>1. CmdReq(c, d, size) /\ d \in UsedDirs
    BY <1>6 DEF Request, LibRequest, UsedDirs
  <2>2. QED
    BY <1>2, <2>1, TransferReleases
<1>7. ASSUME NEW c \in Channels, NEW d \in Dirs, Setup(c, d) \/ Block(c, d)
      PROVE  AllReleased'
  <2>1. d \in UsedDirs
    BY <1>7 DEF Setup, Block, UsedInv
  <2>2. CmdRes(c, d) \/ CmdBlk(c, d) \/ UNCHANGED deviceVars
    BY <1>7 DEF Setup, LibSetup, Block, LibBlock
  <2>3. QED
    BY <1>2, <2>1, <2>2, TransferReleases, StayReleased DEF deviceVars
<1>8. ASSUME NEW c \in Channels, GetMtu(c) \/ Update(c) PROVE AllReleased'
  BY <1>8, StayReleased DEF GetMtu, LibGetMtu, Update, LibUpdate, deviceVars
<1>9. ASSUME NEW c \in Channels, DeviceWork(c) PROVE AllReleased'
  BY <1>2, <1>9, WorkReleases DEF DeviceWork
<1>10. CASE UNCHANGED linkVars
  BY <1>10, StayReleased DEF linkVars
<1>11. QED
  BY <1>3, <1>4, <1>5, <1>6, <1>7, <1>8, <1>9, <1>10,
     OpenChannelReleases, CloseChannelReleases
     DEF LinkNext

(* A handler whose open() succeeded, or is under way, gets its close()     *)
(* before the channel is given up, as long as no request fails, no channel *)
(* task runs and the user does not close during a reset: those are the     *)
(* states in which the firmware takes bit 0 for a failed open.             *)
THEOREM HandlersGetTheirClose ==
  ASSUME CarefulUser, "interrupt" \notin Liberties, NothingFails
  PROVE  LinkSpec => []ClosedMeansReleased
<1>1. AllReleased => ClosedMeansReleased
  BY DEF AllReleased, Released, ClosedMeansReleased, Bound
<1>2. LinkInit => UsedInv /\ AllReleased
  <2>1. ASSUME LinkInit PROVE UsedInv
    BY <2>1, NoXferType DEF LinkInit, UsedInv
  <2>2. ASSUME LinkInit, NEW c \in Channels PROVE Released(chn[c])
    <3>1. /\ chn[c].state = "INACTIVE" /\ chn[c].session = "none" /\ chn[c].task = FALSE
          /\ \A d \in Dirs : chn[c].bits[d] = {}
      BY <2>2 DEF LinkInit, DeviceInit, FreshChannels
    <3>2. QED
      BY <3>1 DEF Released, Ended
  <2>3. QED
    BY <2>1, <2>2 DEF AllReleased
<1>3. UsedInv /\ [LinkNext]_linkVars => UsedInv'
  BY UsedStep
<1>4. LinkInv /\ UsedInv /\ AllReleased /\ [LinkNext]_linkVars => AllReleased'
  BY ReleasedNext DEF CarefulUser
<1>5. QED
  BY <1>1, <1>2, <1>3, <1>4, LinkInvariant, PTL DEF LinkSpec
=============================================================================
