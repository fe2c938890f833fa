--------------------------- MODULE GuiSurfaceProofs ---------------------------
(***************************************************************************)
(* Safety of the GUI protocol's surfaces for every number of windows, every  *)
(* width of the integers, every size and every bound: the socket's order is  *)
(* kept by a part of the invariant of its own (Order), and what is in the    *)
(* two queues, in the compositor's hands and in the surfaces is told apart   *)
(* buffer by buffer (Buffers, Fits, ShownIsPainted, InFlightIsOutstanding).  *)
(***************************************************************************)
EXTENDS GuiSurface, QueueProofs, TLAPS

Plain  == [type : {"create", "ack", "pong", "sync"}, n : 0 .. N]
Frames == [type : {"commit"}, win : Win, buf : 1 .. MaxBuf, dims : Dims]
Req    == Plain \cup Frames
Event  == [type : {"configure", "ping", "release", "done"}, n : 0 .. MaxBuf]

Types ==
  /\ main \in {"wait", "join", "stopped"} /\ shutdown \in BOOLEAN
  /\ pc \in {"connect", "create", "buffer", "frame", "update", "dispatch", "ended"}
  /\ at \in 1 .. N + 1 /\ (pc = "buffer" => at <= N)
  /\ dims \in [Win -> Dims] /\ active \subseteq Win /\ configured \subseteq Win
  /\ shm \in [Win -> 0 .. MaxBuf] /\ made \in 0 .. MaxBuf
  /\ size \in [1 .. MaxBuf -> Nat]
  /\ painted \subseteq 1 .. MaxBuf /\ released \subseteq 1 .. MaxBuf
  /\ polled \subseteq Win
  /\ requests \in Seq(Req) /\ events \in Seq(Event)
  /\ synced \in BOOLEAN /\ up \in BOOLEAN
  /\ window \in [Win -> {"none", "new", "sent", "acked"}]
  /\ shown \in [Win -> 0 .. MaxBuf] /\ held \subseteq 1 .. MaxBuf
  /\ error \in BOOLEAN /\ left \in 0 .. Events

Opened == IF pc = "connect" THEN 0 ELSE IF pc \in {"create", "buffer"} THEN at - 1 ELSE N

(* Nothing in hand or under way names a buffer that is not made yet, or no    *)
(* window.                                                                   *)
Buffers ==
  /\ made <= Opened + (Events - left)
  /\ \A w \in Win : shm[w] <= made /\ shown[w] <= made
  /\ held \subseteq 1 .. made
  /\ \A i \in 1 .. Len(requests) : requests[i].type = "commit" => requests[i].buf <= made
  /\ \A i \in 1 .. Len(events) : events[i].type = "release" => events[i].n \in 1 .. made
  /\ \A i \in 1 .. Len(events) : events[i].type = "configure" => events[i].n \in Win

Area(d) == 4 * d[1] * d[2]

Fits ==
  /\ \A w \in Win : shm[w] # 0 => size[shm[w]] = Area(dims[w]) /\ size[shm[w]] <= I32Max
  /\ \A i \in 1 .. Len(requests) : requests[i].type = "commit" =>
       size[requests[i].buf] = Area(requests[i].dims) /\ size[requests[i].buf] <= I32Max

(* The windows create_surface has begun.                                     *)
Begun(w) == pc # "connect" /\ (pc = "create" => w < at) /\ (pc = "buffer" => w <= at)

IsCommit(i, w) == requests[i].type = "commit" /\ requests[i].win = w
IsAck(i, w)    == requests[i].type = "ack" /\ requests[i].n = w
IsCreate(i, w) == requests[i].type = "create" /\ requests[i].n = w

Fresh(w) ==
  /\ window[w] = "none" /\ w \notin configured
  /\ \A i \in 1 .. Len(requests) : ~IsAck(i, w)
  /\ \A i \in 1 .. Len(events) : ~(events[i].type = "configure" /\ events[i].n = w)

(* A commit follows its window's acknowledgement, which follows its creation. *)
Order ==
  /\ \A w \in Win : \A i \in 1 .. Len(requests) : IsCommit(i, w) =>
       window[w] = "acked" \/ \E j \in 1 .. (i - 1) : IsAck(j, w)
  /\ \A w \in configured : up => window[w] = "acked" \/ \E j \in 1 .. Len(requests) : IsAck(j, w)
  /\ \A w \in Win : ~Begun(w) => Fresh(w) /\ \A i \in 1 .. Len(requests) : ~IsCreate(i, w)
  /\ \A w \in Win : \A i \in 1 .. Len(requests) : IsCreate(i, w) =>
       Fresh(w) /\ \A j \in 1 .. Len(requests) : IsCreate(j, w) => j = i

PingEvent == {e \in Event : e.type = "ping"}
PongReq   == {r \in Req : r.type = "pong"}

Pings ==
  /\ pings \in Nat /\ pings <= Events - left
  /\ up => pings = Count(events, PingEvent) + Count(requests, PongReq)

Offline ==
  /\ ~up => requests = <<>> /\ events = <<>>
  /\ pc = "connect" => ~up /\ made = 0 /\ pings = 0

IInv ==
  Types /\ Buffers /\ Fits /\ ShownIsPainted /\ InFlightIsOutstanding /\ Order /\ Pings /\ Offline
    /\ NoProtocolError

-----------------------------------------------------------------------------
(* The constants and the messages                                            *)

LEMMA Numbers == N \in Nat /\ Events \in Nat /\ MaxBuf \in Nat /\ MaxBuf = N + Events
  BY BoundAssumption DEF MaxBuf

LEMMA PictureSize ==
  ASSUME NEW d \in Dims
  PROVE  /\ d[1] \in Nat /\ d[2] \in Nat /\ Area(d) \in Nat /\ Area(d) = 4 * d[1] * d[2]
         /\ \A n \in ShmSize(d) : n \in Nat /\ n = Area(d) /\ n <= I32Max
         /\ FrameFits(d) <=> Area(d) <= MaxBytes
<1>1. d[1] \in Nat /\ d[2] \in Nat
  BY DimsAssumption, WidthAssumption
<1>2. 4 * d[1] * d[2] \in Nat /\ (d[1] * 4) * d[2] = 4 * d[1] * d[2] /\ d[1] * d[2] * 4 = 4 * d[1] * d[2]
  BY <1>1
<1>3. \A n \in ShmSize(d) : n = (d[1] * 4) * d[2] /\ n <= I32Max
  BY <1>1, WidthAssumption DEF ShmSize
<1>4. QED
  BY <1>1, <1>2, <1>3 DEF Area, FrameFits

LEMMA Kinds ==
  /\ \A m \in Req : m.type = "commit" => m.win \in Win /\ m.buf \in 1 .. MaxBuf /\ m.dims \in Dims
  /\ \A m \in Req : m.type # "commit" => m.type \in {"create", "ack", "pong", "sync"} /\ m.n \in 0 .. N
  /\ \A m \in Req : Hit(m, PongReq) = IF m.type = "pong" THEN 1 ELSE 0
  /\ \A e \in Event : e.type \in {"configure", "ping", "release", "done"} /\ e.n \in 0 .. MaxBuf
  /\ \A e \in Event : Hit(e, PingEvent) = IF e.type = "ping" THEN 1 ELSE 0
<1>1. /\ \A m \in Plain : m.type \in {"create", "ack", "pong", "sync"} /\ m.n \in 0 .. N
      /\ \A m \in Frames : m.type = "commit" /\ m.win \in Win /\ m.buf \in 1 .. MaxBuf /\ m.dims \in Dims
  BY DEF Plain, Frames
<1>2. QED
  BY <1>1 DEF Req, Event, PongReq, PingEvent, Hit

LEMMA Made ==
  /\ \A n \in 0 .. N : Msg("create", n) \in Req /\ Msg("ack", n) \in Req
  /\ Msg("pong", 0) \in Req /\ Msg("sync", 0) \in Req
  /\ \A n \in 0 .. MaxBuf : Msg("configure", n) \in Event /\ Msg("release", n) \in Event
  /\ Msg("ping", 0) \in Event /\ Msg("done", 0) \in Event
  /\ \A t, n : Msg(t, n).type = t /\ Msg(t, n).n = n
  BY Numbers DEF Req, Plain, Event, Msg

LEMMA Queued ==
  ASSUME Types
  PROVE  /\ requests \in Seq(Req) /\ events \in Seq(Event)
         /\ Len(requests) \in Nat /\ Len(events) \in Nat
         /\ \A i \in 1 .. Len(requests) : requests[i] \in Req
         /\ \A i \in 1 .. Len(events) : events[i] \in Event
         /\ Count(requests, PongReq) \in Nat /\ Count(events, PingEvent) \in Nat
<1>1. requests \in Seq(Req) /\ events \in Seq(Event)
  BY DEF Types
<1>2. Count(requests, PongReq) \in Nat /\ Count(events, PingEvent) \in Nat
  BY <1>1, CountType
<1>3. QED
  BY <1>1, <1>2, LenProperties, ElementOfSeq

-----------------------------------------------------------------------------
(* Steps that leave the buffers and the compositor alone, and the socket too, *)
(* unless they close it                                                      *)

Steady ==
  /\ dims' = dims /\ active' = active /\ configured' = configured
  /\ shm' = shm /\ made' = made /\ size' = size /\ released' = released
  /\ window' = window /\ shown' = shown /\ held' = held /\ pings' = pings /\ error' = error

Calm == Steady /\ requests' = requests /\ events' = events /\ up' = up
Down == Steady /\ requests' = <<>> /\ events' = <<>> /\ up' = FALSE

(* The thread goes on: no window that is begun is forgotten.                 *)
Onward ==
  /\ pc' = "connect" => pc = "connect"
  /\ \A w \in Win : Begun(w) => Begun(w)'
  /\ Opened' \in Nat /\ Opened <= Opened'
  /\ left' \in Nat /\ left' <= left /\ painted \subseteq painted'

LEMMA Scalars ==
  Types => /\ at \in Nat /\ 1 <= at /\ at <= N + 1 /\ (pc = "buffer" => at <= N)
           /\ left \in Nat /\ left <= Events /\ made \in Nat /\ made <= MaxBuf
           /\ Opened \in Nat /\ Opened <= N
           /\ configured \subseteq Win /\ active \subseteq Win
<1>1. Types => /\ at \in Nat /\ 1 <= at /\ at <= N + 1 /\ (pc = "buffer" => at <= N)
               /\ left \in Nat /\ left <= Events /\ made \in Nat /\ made <= MaxBuf
               /\ configured \subseteq Win /\ active \subseteq Win
  BY Numbers DEF Types
<1>2. QED
  BY <1>1, Numbers DEF Opened

LEMMA RoomLeft ==
  ASSUME IInv, Steady, Onward
  PROVE  /\ made' <= Opened' + (Events - left')
         /\ pings' \in Nat /\ pings' <= Events - left'
<1>1. Opened \in Nat /\ left \in Nat /\ Events \in Nat
  BY Scalars, Numbers DEF IInv
<1>2. PICK o \in Nat, k \in Nat : o = Opened' /\ k = left' /\ Opened <= o /\ k <= left
  BY DEF Onward
<1>3. made <= Opened + (Events - left) /\ made \in Nat /\ made' = made
  BY Scalars DEF IInv, Buffers, Steady
<1>4. pings \in Nat /\ pings <= Events - left /\ pings' = pings
  BY DEF IInv, Pings, Steady
<1>5. made <= o + (Events - k)
  <2>1. Opened <= o /\ k <= left
    BY <1>2
  <2>2. QED
    BY <1>1, <1>3, <2>1
<1>6. pings <= Events - k
  <2>1. k <= left
    BY <1>2
  <2>2. QED
    BY <1>1, <1>4, <2>1
<1>7. QED
  BY <1>2, <1>3, <1>4, <1>5, <1>6

LEMMA StillBegun ==
  ASSUME IInv, Onward
  PROVE  configured \subseteq Win /\ \A w \in Win : ~Begun(w)' => ~Begun(w)
  BY Scalars DEF IInv, Onward

LEMMA CalmStep ==
  ASSUME IInv, Calm, Onward, Types'
  PROVE  IInv'
<1> USE DEF Calm, Steady
<1>1. Buffers'
  BY RoomLeft DEF IInv, Buffers
<1>2. Fits' /\ NoProtocolError'
  BY DEF IInv, Fits, NoProtocolError
<1>3. ShownIsPainted'
  BY DEF IInv, ShownIsPainted, Committed, Onward
<1>4. InFlightIsOutstanding'
  BY DEF IInv, InFlightIsOutstanding, Committed
<1>5. Order'
  <2>1. \A w \in Win : Fresh(w) => Fresh(w)'
    BY DEF Fresh, IsAck
  <2>2. QED
    BY <2>1, StillBegun DEF IInv, Order, IsCommit, IsAck, IsCreate
<1>6. Pings' /\ Offline'
  BY RoomLeft DEF IInv, Pings, Offline, Onward
<1>7. QED
  BY <1>1, <1>2, <1>3, <1>4, <1>5, <1>6 DEF IInv

LEMMA DownStep ==
  ASSUME IInv, Down, Onward, Types'
  PROVE  IInv'
<1> USE DEF Down, Steady
<1>0. Len(requests') = 0 /\ Len(events') = 0
  OBVIOUS
<1>1. Buffers'
  BY <1>0, RoomLeft DEF IInv, Buffers
<1>2. Fits' /\ NoProtocolError'
  BY <1>0 DEF IInv, Fits, NoProtocolError
<1>3. ShownIsPainted'
  BY <1>0 DEF IInv, ShownIsPainted, Committed, Onward
<1>4. InFlightIsOutstanding'
  BY DEF InFlightIsOutstanding
<1>5. Order'
  <2>1. \A w \in Win : Fresh(w) => Fresh(w)'
    BY <1>0 DEF Fresh, IsAck
  <2>2. QED
    BY <1>0, <2>1, StillBegun DEF IInv, Order, IsCommit, IsAck, IsCreate
<1>6. Pings' /\ Offline'
  BY RoomLeft DEF IInv, Pings, Offline, Onward
<1>7. QED
  BY <1>1, <1>2, <1>3, <1>4, <1>5, <1>6 DEF IInv

LEMMA CalmActions ==
  ASSUME IInv,
         \/ CreateFails \/ EnterLoop \/ BeginFrame \/ Skip \/ EndDispatch \/ Signal \/ Join
         \/ \E w \in Win : UpdateWithoutBuffer(w) \/ UpdateFails(w)
  PROVE  IInv'
<1>1. /\ Types /\ N \in Nat /\ Events \in Nat
      /\ at \in Nat /\ 1 <= at /\ at <= N + 1 /\ (pc = "buffer" => at <= N) /\ left \in Nat
  BY Numbers, Scalars DEF IInv
<1> SUFFICES Calm /\ Onward /\ Types'
  BY CalmStep
<1>2. CASE CreateFails
  <2>1. Calm /\ Types'
    BY <1>1, <1>2 DEF CreateFails, NextWindow, surface, socket, server, Types, Calm, Steady
  <2>2. Onward
    BY <1>1, <1>2 DEF CreateFails, NextWindow, surface, socket, server, Onward, Begun, Opened, Win
  <2>3. QED
    BY <2>1, <2>2
<1>3. CASE EnterLoop
  <2>1. Calm /\ Types'
    BY <1>1, <1>3 DEF EnterLoop, surface, socket, server, Types, Calm, Steady
  <2>2. Onward
    BY <1>1, <1>3 DEF EnterLoop, surface, socket, server, Onward, Begun, Opened, Win
  <2>3. QED
    BY <2>1, <2>2
<1>4. CASE BeginFrame
  <2>1. Calm /\ Types'
    BY <1>1, <1>4 DEF BeginFrame, surface, socket, server, Types, Calm, Steady
  <2>2. Onward
    BY <1>1, <1>4 DEF BeginFrame, surface, socket, server, Onward, Begun, Opened, Win
  <2>3. QED
    BY <2>1, <2>2
<1>5. CASE Skip
  <2>1. Calm /\ Types'
    BY <1>1, <1>5 DEF Skip, Advance, socket, server, Types, Calm, Steady
  <2>2. Onward
    BY <1>1, <1>5 DEF Skip, Advance, socket, server, Onward, Begun, Opened, Win
  <2>3. QED
    BY <2>1, <2>2
<1>6. CASE EndDispatch
  <2>1. Calm /\ Types'
    BY <1>1, <1>6 DEF EndDispatch, surface, socket, server, Types, Calm, Steady
  <2>2. Onward
    BY <1>1, <1>6 DEF EndDispatch, surface, socket, server, Onward, Begun, Opened, Win
  <2>3. QED
    BY <2>1, <2>2
<1>7. CASE Signal
  <2>1. Calm /\ Types'
    BY <1>1, <1>7 DEF Signal, surface, socket, server, Types, Calm, Steady
  <2>2. Onward
    BY <1>1, <1>7 DEF Signal, surface, socket, server, Onward, Begun, Opened, Win
  <2>3. QED
    BY <2>1, <2>2
<1>8. CASE Join
  <2>1. Calm /\ Types'
    BY <1>1, <1>8 DEF Join, surface, socket, server, Types, Calm, Steady
  <2>2. Onward
    BY <1>1, <1>8 DEF Join, surface, socket, server, Onward, Begun, Opened, Win
  <2>3. QED
    BY <2>1, <2>2
<1>9. ASSUME NEW w \in Win, UpdateWithoutBuffer(w) PROVE Calm /\ Onward /\ Types'
  <2>1. w \in 1 .. N
    BY DEF Win
  <2>2. Calm /\ Types'
    BY <1>1, <1>9, <2>1 DEF UpdateWithoutBuffer, Dirty, Advance, socket, server, Types, Calm, Steady
  <2>3. Onward
    BY <1>1, <1>9, <2>1 DEF UpdateWithoutBuffer, Dirty, Advance, socket, server, Onward, Begun, Opened, Win
  <2>4. QED
    BY <2>2, <2>3
<1>10. ASSUME NEW w \in Win, UpdateFails(w) PROVE Calm /\ Onward /\ Types'
  <2>1. w \in 1 .. N
    BY DEF Win
  <2>2. Calm /\ Types'
    BY <1>1, <1>10, <2>1 DEF UpdateFails, Bounded, Dirty, Advance, socket, server, Types, Calm, Steady
  <2>3. Onward
    BY <1>1, <1>10, <2>1 DEF UpdateFails, Bounded, Dirty, Advance, socket, server, Onward, Begun, Opened, Win
  <2>4. QED
    BY <2>2, <2>3
<1>11. QED
  BY <1>2, <1>3, <1>4, <1>5, <1>6, <1>7, <1>8, <1>9, <1>10

LEMMA DownActions ==
  ASSUME IInv, ConnectFails \/ Leave \/ DispatchFails \/ Disconnect
  PROVE  IInv'
<1>1. /\ Types /\ N \in Nat /\ Events \in Nat
      /\ at \in Nat /\ 1 <= at /\ at <= N + 1 /\ (pc = "buffer" => at <= N) /\ left \in Nat
      /\ Opened \in Nat /\ <<>> \in Seq(Req) /\ <<>> \in Seq(Event)
  BY Numbers, Scalars DEF IInv
<1> SUFFICES Down /\ Onward /\ Types'
  BY DownStep
<1>2. CASE ConnectFails
  <2>1. Down /\ Types'
    BY <1>1, <1>2 DEF ConnectFails, EndThread, surface, server, Types, Down, Steady
  <2>2. Onward
    BY <1>1, <1>2 DEF ConnectFails, EndThread, surface, server, Onward, Begun, Opened, Win
  <2>3. QED
    BY <2>1, <2>2
<1>3. CASE Leave
  <2>1. Down /\ Types'
    BY <1>1, <1>3 DEF Leave, EndThread, surface, server, Types, Down, Steady
  <2>2. Onward
    BY <1>1, <1>3 DEF Leave, EndThread, surface, server, Onward, Begun, Opened, Win
  <2>3. QED
    BY <2>1, <2>2
<1>4. CASE DispatchFails
  <2>1. Down /\ Types'
    BY <1>1, <1>4 DEF DispatchFails, EndThread, surface, server, Types, Down, Steady
  <2>2. Onward
    BY <1>1, <1>4 DEF DispatchFails, EndThread, surface, server, Onward, Begun, Opened, Win
  <2>3. QED
    BY <2>1, <2>2
<1>5. CASE Disconnect
  <2>1. Down /\ Types'
    BY <1>1, <1>5 DEF Disconnect, threads, surface, server, Types, Down, Steady
  <2>2. Onward
    BY <1>1, <1>5 DEF Disconnect, threads, surface, server, Onward, Begun, Opened, Win
  <2>3. QED
    BY <2>1, <2>2
<1>6. QED
  BY <1>2, <1>3, <1>4, <1>5

LEMMA ConnectStep ==
  ASSUME IInv, Connect
  PROVE  IInv'
<1>1. /\ Types /\ N \in Nat /\ Events \in Nat
      /\ at \in Nat /\ 1 <= at /\ at <= N + 1 /\ left \in Nat /\ Opened \in Nat
  BY Numbers, Scalars DEF IInv
<1>2. /\ requests = <<>> /\ events = <<>> /\ made = 0 /\ pings = 0
      /\ Len(requests) = 0 /\ Len(events) = 0
  BY DEF IInv, Offline, Connect
<1>3. Onward
  BY <1>1 DEF Connect, surface, Onward, Begun, Opened, Win
<1>4. Steady /\ requests' = requests /\ events' = events /\ up' = TRUE /\ painted' = painted /\ pc' = "create"
  BY DEF Connect, Steady, surface, server
<1> USE <1>4 DEF Steady
<1>5. Types'
  BY <1>1 DEF Connect, surface, server, Types
<1>6. Buffers' /\ Fits' /\ NoProtocolError'
  BY RoomLeft, <1>3 DEF IInv, Buffers, Fits, NoProtocolError
<1>7. ShownIsPainted' /\ InFlightIsOutstanding'
  BY <1>2 DEF IInv, ShownIsPainted, InFlightIsOutstanding, Committed
<1>8. Order'
  <2>1. \A w \in Win : Fresh(w) => Fresh(w)'
    BY DEF Fresh, IsAck
  <2>2. configured = {}
    BY StillBegun, <1>3 DEF IInv, Order, Begun, Fresh, Connect
  <2>3. QED
    BY <1>2, <1>3, <2>1, <2>2, StillBegun DEF IInv, Order, IsCommit, IsAck, IsCreate
<1>9. Pings' /\ Offline'
  <2>1. Count(events, PingEvent) = 0 /\ Count(requests, PongReq) = 0
    BY <1>2, CountEmpty
  <2>2. QED
    BY <1>2, <1>3, <2>1, RoomLeft DEF Pings, Offline
<1>10. QED
  BY <1>5, <1>6, <1>7, <1>8, <1>9 DEF IInv

-----------------------------------------------------------------------------
(* Buffers made and dropped                                                  *)

(* Everything a step that gives window w a buffer leaves alone.              *)
AllocFrame ==
  /\ requests' = requests /\ events' = events /\ up' = up /\ configured' = configured
  /\ painted' = painted /\ window' = window /\ shown' = shown /\ held' = held
  /\ pings' = pings /\ error' = error

(* There is a number for one more buffer, and there is still one after it.   *)
RoomForOne ==
  /\ made + 1 <= MaxBuf
  /\ Opened' \in Nat /\ left' \in Nat
  /\ made + 1 <= Opened' + (Events - left')
  /\ pings <= Events - left'

LEMMA AllocateStep ==
  ASSUME IInv, NEW w \in Win, NEW d \in Dims,
         AllocFrame, Onward, RoomForOne, pc' # "connect",
         dims' = [dims EXCEPT ![w] = d],
         Allocate(w, d) \/ (shm' = [shm EXCEPT ![w] = 0] /\ UNCHANGED <<size, made, released>>)
  PROVE  /\ Buffers' /\ Fits' /\ ShownIsPainted' /\ InFlightIsOutstanding' /\ Order' /\ Pings'
         /\ Offline' /\ NoProtocolError'
         /\ shm' \in [Win -> 0 .. MaxBuf] /\ made' \in 0 .. MaxBuf /\ size' \in [1 .. MaxBuf -> Nat]
         /\ released' \subseteq 1 .. MaxBuf /\ dims' \in [Win -> Dims]
<1>1. /\ Types /\ made \in Nat /\ MaxBuf \in Nat /\ made + 1 \in 1 .. MaxBuf
      /\ dims' \in [Win -> Dims] /\ dims'[w] = d /\ \A v \in Win \ {w} : dims'[v] = dims[v]
  <2>1. Types /\ dims \in [Win -> Dims]
    BY DEF IInv, Types
  <2>2. made \in Nat /\ MaxBuf \in Nat /\ made + 1 \in 1 .. MaxBuf
    BY <2>1, Numbers, Scalars DEF RoomForOne
  <2>3. QED
    BY <2>1, <2>2
<1>2. shm' = [shm EXCEPT ![w] = made + 1] \/ shm' = [shm EXCEPT ![w] = 0]
  BY DEF Allocate, NewBuffer, NoBuffer
<1>3. /\ shm' \in [Win -> 0 .. MaxBuf] /\ \A v \in Win \ {w} : shm'[v] = shm[v]
      /\ shm'[w] = made + 1 \/ shm'[w] = 0
  <2>1. shm \in [Win -> 0 .. MaxBuf] /\ 0 \in 0 .. MaxBuf /\ made + 1 \in 0 .. MaxBuf
    BY <1>1 DEF Types
  <2>2. QED
    BY <1>2, <2>1
<1>4. \/ /\ UNCHANGED <<size, made, released>> /\ shm'[w] = 0
      \/ /\ made' = made + 1 /\ released' = released \cup {made + 1} /\ shm'[w] = made + 1
         /\ \E n \in ShmSize(d) : size' = [size EXCEPT ![made + 1] = n]
  BY <1>1 DEF Types, Allocate, NewBuffer, NoBuffer
<1>5. /\ made' = made \/ made' = made + 1
      /\ size' \in [1 .. MaxBuf -> Nat] /\ \A b \in 1 .. made : size'[b] = size[b]
      /\ released \subseteq released' /\ released' \subseteq 1 .. MaxBuf
      /\ shm'[w] # 0 => shm'[w] = made' /\ size'[shm'[w]] = Area(d) /\ size'[shm'[w]] <= I32Max
      /\ \A b \in 1 .. made' : b \in 1 .. made \/ b \in released'
  <2>1. CASE UNCHANGED <<size, made, released>> /\ shm'[w] = 0
    BY <1>1, <2>1 DEF Types
  <2>2. CASE /\ made' = made + 1 /\ released' = released \cup {made + 1} /\ shm'[w] = made + 1
             /\ \E n \in ShmSize(d) : size' = [size EXCEPT ![made + 1] = n]
    <3>1. PICK n \in ShmSize(d) : size' = [size EXCEPT ![made + 1] = n]
      BY <2>2
    <3>2. n \in Nat /\ n = Area(d) /\ n <= I32Max
      BY PictureSize
    <3>3. /\ size' \in [1 .. MaxBuf -> Nat] /\ size'[made + 1] = n
          /\ \A b \in 1 .. made : size'[b] = size[b]
      BY <1>1, <3>1, <3>2 DEF Types
    <3>4. QED
      BY <1>1, <2>2, <3>2, <3>3 DEF Types
  <2>3. QED
    BY <1>4, <2>1, <2>2
<1>6. /\ \A v \in Win : shm[v] # 0 => shm[v] \in 1 .. made
      /\ \A v \in Win : shown[v] \in 0 .. made
      /\ \A i \in 1 .. Len(requests) : requests[i].type = "commit" => requests[i].buf \in 1 .. made
  <2>1. \A v \in Win : shm[v] \in Nat /\ shown[v] \in Nat /\ shm[v] <= made /\ shown[v] <= made
    BY <1>1 DEF Types, IInv, Buffers
  <2>2. \A i \in 1 .. Len(requests) : requests[i].type = "commit" =>
          requests[i].buf \in 1 .. MaxBuf /\ requests[i].buf <= made
    BY <1>1, Queued, Kinds DEF IInv, Buffers
  <2>3. QED
    BY <1>1, <2>1, <2>2
<1>7. Buffers'
  <2>1. made' \in Nat /\ made <= made' /\ made' <= made + 1
    BY <1>1, <1>5
  <2>2. made' <= Opened' + (Events - left')
    <3>1. PICK o \in Nat, k \in Nat : o = Opened' /\ k = left' /\ made + 1 <= o + (Events - k)
      BY DEF RoomForOne
    <3>2. made + 1 <= o + (Events - k)
      BY <3>1
    <3>3. made' <= o + (Events - k)
      <4>1. made <= o + (Events - k)
        BY <1>1, <3>2, Numbers
      <4>2. QED
        BY <1>5, <3>2, <4>1
    <3>4. QED
      BY <3>1, <3>3
  <2>3. \A v \in Win : shm'[v] <= made' /\ shown'[v] <= made'
    <3>1. PICK m \in Nat : m = made' /\ made <= m
      BY <2>1
    <3>2. \A b \in 0 .. made : b <= m
      BY <1>1, <3>1
    <3>3. \A v \in Win \ {w} : shm'[v] \in 0 .. made
      BY <1>1, <1>3, <1>6
    <3>4. shm'[w] <= m
      BY <1>1, <1>5, <3>1
    <3>5. QED
      BY <1>6, <3>1, <3>2, <3>3, <3>4 DEF AllocFrame
  <2>4. 1 .. made \subseteq 1 .. made'
    BY <1>1, <1>5
  <2>5. \A b \in 1 .. made : b <= made'
    BY <2>4
  <2>6. QED
    BY <1>6, <2>2, <2>3, <2>4, <2>5 DEF IInv, Buffers, AllocFrame
<1>8. Fits'
  <2>1. \A v \in Win \ {w} : shm'[v] # 0 => size'[shm'[v]] = Area(dims'[v]) /\ size'[shm'[v]] <= I32Max
    BY <1>1, <1>3, <1>5, <1>6 DEF IInv, Fits
  <2>2. \A i \in 1 .. Len(requests) : requests[i].type = "commit" =>
          size'[requests[i].buf] = Area(requests[i].dims) /\ size'[requests[i].buf] <= I32Max
    BY <1>5, <1>6 DEF IInv, Fits
  <2>3. QED
    BY <1>1, <1>5, <2>1, <2>2 DEF Fits, AllocFrame
<1>9. ShownIsPainted'
  <2>1. \A v \in Win, b \in 1 .. MaxBuf : shown[v] = b \/ Committed(v, b) => b \in 1 .. made
    BY <1>6 DEF Committed
  <2>2. \A v \in Win, b \in 1 .. MaxBuf : Committed(v, b)' <=> Committed(v, b)
    BY DEF Committed, AllocFrame
  <2>3. QED
    BY <1>5, <2>1, <2>2 DEF IInv, ShownIsPainted, AllocFrame
<1>10. InFlightIsOutstanding'
  BY <1>5 DEF IInv, InFlightIsOutstanding, Committed, AllocFrame
<1>11. Order'
  <2>1. \A v \in Win : Fresh(v) => Fresh(v)'
    BY DEF Fresh, IsAck, AllocFrame
  <2>2. QED
    BY <2>1, StillBegun DEF IInv, Order, IsCommit, IsAck, IsCreate, AllocFrame
<1>12. Pings' /\ Offline' /\ NoProtocolError'
  BY DEF IInv, Pings, Offline, NoProtocolError, AllocFrame, RoomForOne
<1>13. made' \in 0 .. MaxBuf
  BY <1>1, <1>5
<1>14. QED
  BY <1>1, <1>3, <1>5, <1>7, <1>8, <1>9, <1>10, <1>11, <1>12, <1>13

LEMMA AllocateActions ==
  ASSUME IInv, EndCreate \/ ApiResize
  PROVE  IInv'
<1>1. /\ Types /\ N \in Nat /\ Events \in Nat /\ MaxBuf = N + Events
      /\ at \in Nat /\ 1 <= at /\ at <= N + 1 /\ (pc = "buffer" => at <= N)
      /\ left \in Nat /\ left <= Events /\ made \in Nat /\ Opened \in Nat /\ Opened <= N
      /\ made <= Opened + (Events - left) /\ pings \in Nat /\ pings <= Events - left
  BY Numbers, Scalars DEF IInv, Buffers, Pings
<1>2. CASE EndCreate
  <2>1. pc = "buffer" /\ pc' = "create" /\ at' = at + 1 /\ left' = left
    BY <1>2 DEF EndCreate, NextWindow
  <2>2. at \in Win /\ Opened = at - 1 /\ Opened' = at
    BY <1>1, <2>1 DEF Opened, Win
  <2>3. AllocFrame
    BY <1>2 DEF EndCreate, AllocFrame, socket, server
  <2>4. Onward
    <3>1. \A w \in Win : Begun(w) => Begun(w)'
      BY <1>1, <2>1 DEF Begun, Win
    <3>2. QED
      BY <1>1, <2>1, <2>2, <2>3, <3>1 DEF Onward, AllocFrame
  <2>5. RoomForOne
    <3>1. made + 1 <= MaxBuf /\ made + 1 <= at + (Events - left)
      BY <1>1, <2>1, <2>2
    <3>2. QED
      BY <1>1, <2>1, <2>2, <3>1 DEF RoomForOne
  <2>6. dims[at] \in Dims /\ dims' = [dims EXCEPT ![at] = dims[at]] /\ Allocate(at, dims[at])
    BY <1>1, <1>2, <2>2 DEF EndCreate, Types
  <2>7. /\ Buffers' /\ Fits' /\ ShownIsPainted' /\ InFlightIsOutstanding' /\ Order' /\ Pings'
        /\ Offline' /\ NoProtocolError'
        /\ shm' \in [Win -> 0 .. MaxBuf] /\ made' \in 0 .. MaxBuf /\ size' \in [1 .. MaxBuf -> Nat]
        /\ released' \subseteq 1 .. MaxBuf /\ dims' \in [Win -> Dims]
    BY <2>1, <2>2, <2>3, <2>4, <2>5, <2>6, AllocateStep
  <2>8. Types'
    <3>1. at' \in 1 .. N + 1 /\ active' \subseteq Win
      BY <1>1, <1>2, <2>1, <2>2 DEF EndCreate, Types
    <3>2. QED
      BY <1>1, <1>2, <2>1, <2>3, <2>7, <3>1 DEF EndCreate, NextWindow, socket, server, Types
  <2>9. QED
    BY <2>7, <2>8 DEF IInv
<1>3. ASSUME NEW w \in Win, NEW d \in Dims, Resize(w, d) \/ ResizeFails(w, d) PROVE IInv'
  <2>1. /\ pc = "frame" /\ UNCHANGED threads /\ left > 0 /\ left' = left - 1
        /\ dims' = [dims EXCEPT ![w] = d]
    BY <1>3 DEF Resize, ResizeFails, Bounded
  <2>2. Opened = N /\ Opened' = N
    BY <2>1 DEF Opened, threads
  <2>3. AllocFrame
    BY <1>3 DEF Resize, ResizeFails, AllocFrame, socket, server
  <2>4. Onward
    <3>1. \A v \in Win : Begun(v) => Begun(v)'
      BY <2>1 DEF Begun, threads
    <3>2. QED
      BY <1>1, <2>1, <2>2, <2>3, <3>1 DEF Onward, AllocFrame, threads
  <2>5. RoomForOne
    <3>1. /\ made + 1 <= MaxBuf /\ made + 1 <= N + (Events - (left - 1))
          /\ pings <= Events - (left - 1) /\ left - 1 \in Nat
      BY <1>1, <2>1, <2>2
    <3>2. QED
      BY <1>1, <2>1, <2>2, <3>1 DEF RoomForOne
  <2>6. Allocate(w, d) \/ (shm' = [shm EXCEPT ![w] = 0] /\ UNCHANGED <<size, made, released>>)
    BY <1>3 DEF Resize, ResizeFails
  <2>7. /\ Buffers' /\ Fits' /\ ShownIsPainted' /\ InFlightIsOutstanding' /\ Order' /\ Pings'
        /\ Offline' /\ NoProtocolError'
        /\ shm' \in [Win -> 0 .. MaxBuf] /\ made' \in 0 .. MaxBuf /\ size' \in [1 .. MaxBuf -> Nat]
        /\ released' \subseteq 1 .. MaxBuf /\ dims' \in [Win -> Dims]
    <3>1. pc' # "connect"
      BY <2>1 DEF threads
    <3>2. QED
      BY <2>1, <2>3, <2>4, <2>5, <2>6, <3>1, AllocateStep
  <2>8. Types'
    <3>1. left' \in 0 .. Events
      BY <1>1, <2>1
    <3>2. /\ UNCHANGED <<main, shutdown, pc, at, active, configured, painted, polled, requests, events,
                          synced, up, window, shown, held, error>>
      BY <1>3 DEF Resize, ResizeFails, threads, socket, server
    <3>3. QED
      BY <1>1, <2>7, <3>1, <3>2 DEF Types
  <2>9. QED
    BY <2>7, <2>8 DEF IInv
<1>4. QED
  BY <1>2, <1>3 DEF ApiResize

-----------------------------------------------------------------------------
(* The compositor's events                                                   *)

(* What is in the socket towards the client once event e is put there.       *)
LEMMA EventQueued ==
  ASSUME Types, NEW e \in Event, events' = Append(events, e)
  PROVE  /\ events' \in Seq(Event)
         /\ \A i \in 1 .. Len(events) : i \in 1 .. Len(events') /\ events'[i] = events[i]
         /\ Len(events) + 1 \in 1 .. Len(events') /\ events'[Len(events) + 1] = e
         /\ \A i \in 1 .. Len(events') : (i \in 1 .. Len(events) /\ events'[i] = events[i]) \/ events'[i] = e
         /\ Count(events', PingEvent) = Count(events, PingEvent) + Hit(e, PingEvent)
         /\ events' # <<>>
<1>1. events \in Seq(Event) /\ events' \in Seq(Event)
  BY Queued, AppendPlaces
<1>2. Count(events', PingEvent) = Count(events, PingEvent) + Hit(e, PingEvent)
  BY <1>1, CountAppend
<1>3. QED
  BY <1>1, <1>2, AppendPlaces

LEMMA FirstConfigureStep ==
  ASSUME IInv, NEW w \in Win, FirstConfigure(w)
  PROVE  IInv'
<1> DEFINE e == Msg("configure", w)
<1>0. /\ UNCHANGED <<main, shutdown, pc, at, dims, active, configured, shm, made, size, painted, released,
                     polled, requests, synced, up, shown, held, pings, error, left>>
      /\ up /\ window[w] = "new" /\ window' = [window EXCEPT ![w] = "sent"] /\ events' = Append(events, e)
  BY DEF FirstConfigure, threads, surface
<1>1. Types /\ e \in Event /\ e.type = "configure" /\ e.n = w /\ Hit(e, PingEvent) = 0
  BY Numbers, Made, Kinds DEF IInv, Win
<1>2. /\ window \in [Win -> {"none", "new", "sent", "acked"}]
      /\ window' \in [Win -> {"none", "new", "sent", "acked"}]
      /\ \A v \in Win \ {w} : window'[v] = window[v]
  BY <1>0, <1>1 DEF Types
<1> HIDE DEF e
<1>3. /\ events' \in Seq(Event) /\ events' # <<>>
      /\ \A i \in 1 .. Len(events) : i \in 1 .. Len(events') /\ events'[i] = events[i]
      /\ \A i \in 1 .. Len(events') : (i \in 1 .. Len(events) /\ events'[i] = events[i]) \/ events'[i] = e
      /\ Count(events', PingEvent) = Count(events, PingEvent)
  BY <1>0, <1>1, EventQueued, Queued
<1>4. Types'
  BY <1>0, <1>1, <1>2, <1>3 DEF Types
<1>5. Buffers' /\ Fits' /\ NoProtocolError'
  <2>1. Opened' = Opened
    BY <1>0 DEF Opened
  <2>2. QED
    BY <1>0, <1>1, <1>3, <2>1 DEF IInv, Buffers, Fits, NoProtocolError
<1>6. ShownIsPainted' /\ InFlightIsOutstanding'
  BY <1>0, <1>3 DEF IInv, ShownIsPainted, InFlightIsOutstanding, Committed
<1>7. Order'
  <2>1. \A v \in Win : Fresh(v) => Fresh(v)'
    BY <1>0, <1>1, <1>2, <1>3 DEF Fresh, IsAck
  <2>2. \A v \in Win : Begun(v)' <=> Begun(v)
    BY <1>0 DEF Begun
  <2>3. \A v \in Win : window[v] = "acked" => window'[v] = "acked"
    BY <1>0, <1>2
  <2>4. configured \subseteq Win
    BY <1>1 DEF Types
  <2>5. QED
    BY <1>0, <2>1, <2>2, <2>3, <2>4 DEF IInv, Order, IsCommit, IsAck, IsCreate
<1>8. Pings' /\ Offline'
  BY <1>0, <1>3 DEF IInv, Pings, Offline
<1>9. QED
  BY <1>4, <1>5, <1>6, <1>7, <1>8 DEF IInv

LEMMA PingStep ==
  ASSUME IInv, Ping
  PROVE  IInv'
<1> DEFINE e == Msg("ping", 0)
<1>0. /\ UNCHANGED <<main, shutdown, pc, at, dims, active, configured, shm, made, size, painted, released,
                     polled, requests, synced, up, window, shown, held, error>>
      /\ up /\ left > 0 /\ left' = left - 1 /\ pings' = pings + 1 /\ events' = Append(events, e)
  BY DEF Ping, Bounded, threads, surface
<1>1. /\ Types /\ e \in Event /\ e.type = "ping" /\ Hit(e, PingEvent) = 1
      /\ left \in Nat /\ left <= Events /\ Events \in Nat
      /\ made \in Nat /\ Opened \in Nat /\ pings \in Nat
      /\ made <= Opened + (Events - left) /\ pings <= Events - left
  BY Numbers, Scalars, Made, Kinds DEF IInv, Buffers, Pings
<1> HIDE DEF e
<1>2. /\ left - 1 \in 0 .. Events /\ made <= Opened + (Events - (left - 1))
      /\ pings + 1 <= Events - (left - 1) /\ pings + 1 \in Nat
  BY <1>0, <1>1
<1>3. /\ events' \in Seq(Event) /\ events' # <<>>
      /\ \A i \in 1 .. Len(events) : i \in 1 .. Len(events') /\ events'[i] = events[i]
      /\ \A i \in 1 .. Len(events') : (i \in 1 .. Len(events) /\ events'[i] = events[i]) \/ events'[i] = e
      /\ Count(events', PingEvent) = Count(events, PingEvent) + 1
  BY <1>0, <1>1, EventQueued
<1>4. Types'
  BY <1>0, <1>1, <1>2, <1>3 DEF Types
<1>5. Buffers' /\ Fits' /\ NoProtocolError'
  <2>1. Opened' = Opened
    BY <1>0 DEF Opened
  <2>2. made' <= Opened' + (Events - left')
    BY <1>0, <1>2, <2>1
  <2>3. QED
    BY <1>0, <1>1, <1>3, <2>2 DEF IInv, Buffers, Fits, NoProtocolError
<1>6. ShownIsPainted' /\ InFlightIsOutstanding'
  BY <1>0, <1>3 DEF IInv, ShownIsPainted, InFlightIsOutstanding, Committed
<1>7. Order'
  <2>1. \A v \in Win : Fresh(v) => Fresh(v)'
    BY <1>0, <1>1, <1>3 DEF Fresh, IsAck
  <2>2. \A v \in Win : Begun(v)' <=> Begun(v)
    BY <1>0 DEF Begun
  <2>3. configured \subseteq Win
    BY <1>1 DEF Types
  <2>4. QED
    BY <1>0, <2>1, <2>2, <2>3 DEF IInv, Order, IsCommit, IsAck, IsCreate
<1>8. Pings' /\ Offline'
  <2>1. pings + 1 = (Count(events, PingEvent) + 1) + Count(requests, PongReq)
    BY <1>0, <1>1, Queued DEF IInv, Pings
  <2>2. QED
    BY <1>0, <1>2, <1>3, <2>1 DEF IInv, Pings, Offline
<1>9. QED
  BY <1>4, <1>5, <1>6, <1>7, <1>8 DEF IInv

LEMMA ReleaseStep ==
  ASSUME IInv, NEW b \in 1 .. MaxBuf, ReleaseBuffer(b)
  PROVE  IInv'
<1> DEFINE e == Msg("release", b)
<1>0. /\ UNCHANGED <<main, shutdown, pc, at, dims, active, configured, shm, made, size, painted, released,
                     polled, requests, synced, up, window, shown, pings, error, left>>
      /\ up /\ b \in held /\ held' = held \ {b} /\ events' = Append(events, e)
  BY DEF ReleaseBuffer, threads, surface
<1>1. /\ Types /\ e \in Event /\ e.type = "release" /\ e.n = b /\ Hit(e, PingEvent) = 0
      /\ e.n \in 1 .. made
  BY <1>0, Numbers, Made, Kinds DEF IInv, Buffers
<1>2. /\ events' \in Seq(Event) /\ events' # <<>>
      /\ \A i \in 1 .. Len(events) : i \in 1 .. Len(events') /\ events'[i] = events[i]
      /\ Len(events) + 1 \in 1 .. Len(events') /\ events'[Len(events) + 1] = e
      /\ \A i \in 1 .. Len(events') : (i \in 1 .. Len(events) /\ events'[i] = events[i]) \/ events'[i] = e
      /\ Count(events', PingEvent) = Count(events, PingEvent)
  BY <1>0, <1>1, EventQueued, Queued
<1>3. InFlightIsOutstanding'
  <2>1. \E i \in 1 .. Len(events') : events'[i] = Msg("release", b)
    BY <1>2
  <2>2. QED
    BY <1>0, <1>2, <2>1 DEF IInv, InFlightIsOutstanding, Committed
<1> HIDE DEF e
<1>4. Types'
  BY <1>0, <1>1, <1>2 DEF Types
<1>5. Buffers' /\ Fits' /\ NoProtocolError'
  <2>1. Opened' = Opened
    BY <1>0 DEF Opened
  <2>2. QED
    BY <1>0, <1>1, <1>2, <2>1 DEF IInv, Buffers, Fits, NoProtocolError
<1>6. ShownIsPainted'
  BY <1>0 DEF IInv, ShownIsPainted, Committed
<1>7. Order'
  <2>1. \A v \in Win : Fresh(v) => Fresh(v)'
    BY <1>0, <1>1, <1>2 DEF Fresh, IsAck
  <2>2. \A v \in Win : Begun(v)' <=> Begun(v)
    BY <1>0 DEF Begun
  <2>3. configured \subseteq Win
    BY <1>1 DEF Types
  <2>4. QED
    BY <1>0, <2>1, <2>2, <2>3 DEF IInv, Order, IsCommit, IsAck, IsCreate
<1>8. Pings' /\ Offline'
  BY <1>0, <1>2 DEF IInv, Pings, Offline
<1>9. QED
  BY <1>3, <1>4, <1>5, <1>6, <1>7, <1>8 DEF IInv

-----------------------------------------------------------------------------
(* The compositor serves one request                                         *)

LEMMA ServeStep ==
  ASSUME IInv, Serve
  PROVE  IInv'
<1> DEFINE m == Head(requests)
           q == Tail(requests)
<1>0. /\ UNCHANGED <<main, shutdown, pc, at, dims, active, configured, shm, made, size, painted, released,
                     polled, synced, up, left>>
      /\ up /\ requests # <<>> /\ requests' = q
      /\ window' = CASE m.type = "create" -> [window EXCEPT ![m.n] = "new"]
                     [] m.type = "ack"    -> [window EXCEPT ![m.n] = "acked"]
                     [] OTHER             -> window
      /\ IF m.type = "commit"
         THEN /\ error' = (error \/ window[m.win] # "acked")
              /\ shown' = [shown EXCEPT ![m.win] = m.buf]
              /\ held' = held \cup {m.buf}
         ELSE UNCHANGED <<error, shown, held>>
      /\ pings' = IF m.type = "pong" THEN pings - 1 ELSE pings
      /\ events' = IF m.type = "sync" THEN Append(events, Msg("done", 0)) ELSE events
  BY DEF Serve, threads, surface
<1>1. /\ Types /\ q \in Seq(Req) /\ m \in Req
      /\ 1 \in 1 .. Len(requests) /\ m = requests[1]
      /\ \A i \in 1 .. Len(q) : i + 1 \in 1 .. Len(requests) /\ q[i] = requests[i + 1] /\ i + 1 # 1
      /\ \A i \in 1 .. Len(requests) :
           i = 1 \/ (i - 1 \in 1 .. Len(q) /\ q[i - 1] = requests[i] /\ (i - 1) + 1 = i)
      /\ Count(requests, PongReq) = Count(q, PongReq) + Hit(m, PongReq) /\ Count(q, PongReq) \in Nat
  <2>1. Types /\ requests \in Seq(Req) /\ requests # <<>>
    BY <1>0, Queued DEF IInv
  <2>2. q \in Seq(Req)
    BY <2>1, TailPlaces
  <2>3. QED
    BY <2>1, <2>2, TailPlaces, CountTail, CountType
<1> HIDE DEF m, q
<1>2. /\ m.type = "commit" => m.win \in Win /\ m.buf \in 1 .. MaxBuf /\ m.dims \in Dims
                              /\ m.buf <= made /\ m.buf \in 1 .. made
      /\ m.type # "commit" => m.type \in {"create", "ack", "pong", "sync"} /\ m.n \in 0 .. N
  <2>1. m.type = "commit" => m.win \in Win /\ m.buf \in 1 .. MaxBuf /\ m.dims \in Dims /\ m.buf <= made
    BY <1>1, Kinds DEF IInv, Buffers
  <2>2. m.type = "commit" => m.buf \in 1 .. made
    BY <1>1, <2>1, Scalars
  <2>3. QED
    BY <1>1, <2>1, <2>2, Kinds
<1>3. /\ events' \in Seq(Event)
      /\ \A i \in 1 .. Len(events) : i \in 1 .. Len(events') /\ events'[i] = events[i]
      /\ \A i \in 1 .. Len(events') : (i \in 1 .. Len(events) /\ events'[i] = events[i]) \/ events'[i].type = "done"
      /\ Count(events', PingEvent) = Count(events, PingEvent)
  <2>1. CASE m.type # "sync"
    BY <1>0, <1>1, <2>1, Queued
  <2>2. CASE m.type = "sync"
    <3>1. Msg("done", 0) \in Event /\ Hit(Msg("done", 0), PingEvent) = 0 /\ Msg("done", 0).type = "done"
      BY Made, Kinds
    <3>2. events' = Append(events, Msg("done", 0))
      BY <1>0, <2>2
    <3>3. QED
      BY <1>1, <3>1, <3>2, EventQueued, Queued
  <2>3. QED
    BY <2>1, <2>2
<1>4. \A w \in Win : window'[w] = IF m.type = "create" /\ m.n = w THEN "new"
                                  ELSE IF m.type = "ack" /\ m.n = w THEN "acked" ELSE window[w]
  BY <1>0, <1>1 DEF Types
<1>5. window' \in [Win -> {"none", "new", "sent", "acked"}]
  BY <1>0, <1>1 DEF Types
<1>6. \A w \in Win : shown'[w] = shown[w] \/ (m.type = "commit" /\ m.win = w /\ shown'[w] = m.buf)
  BY <1>0, <1>1 DEF Types
<1>7. \A w \in Win, b \in 1 .. MaxBuf :
        Committed(w, b) <=> Committed(w, b)' \/ (m.type = "commit" /\ m.win = w /\ m.buf = b)
  <2>1. ASSUME NEW w \in Win, NEW b \in 1 .. MaxBuf, NEW i \in 1 .. Len(requests),
               requests[i].type = "commit" /\ requests[i].win = w /\ requests[i].buf = b
        PROVE  Committed(w, b)' \/ (m.type = "commit" /\ m.win = w /\ m.buf = b)
    <3>1. CASE i = 1
      BY <1>1, <2>1, <3>1
    <3>2. CASE i # 1
      BY <1>0, <1>1, <2>1, <3>2 DEF Committed
    <3>3. QED
      BY <3>1, <3>2
  <2>2. ASSUME NEW w \in Win, NEW b \in 1 .. MaxBuf, NEW i \in 1 .. Len(q),
               q[i].type = "commit" /\ q[i].win = w /\ q[i].buf = b
        PROVE  Committed(w, b)
    BY <1>1, <2>2 DEF Committed
  <2>3. ASSUME NEW w \in Win, NEW b \in 1 .. MaxBuf, m.type = "commit" /\ m.win = w /\ m.buf = b
        PROVE  Committed(w, b)
    BY <1>1, <2>3 DEF Committed
  <2>4. \A w \in Win, b \in 1 .. MaxBuf : Committed(w, b)' <=>
          \E i \in 1 .. Len(q) : q[i].type = "commit" /\ q[i].win = w /\ q[i].buf = b
    BY <1>0 DEF Committed
  <2>5. \A w \in Win, b \in 1 .. MaxBuf : Committed(w, b) <=>
          \E i \in 1 .. Len(requests) :
            requests[i].type = "commit" /\ requests[i].win = w /\ requests[i].buf = b
    BY DEF Committed
  <2>6. QED
    BY <2>1, <2>2, <2>3, <2>4, <2>5
<1>8. Types'
  <2>1. shown' \in [Win -> 0 .. MaxBuf] /\ held' \subseteq 1 .. MaxBuf /\ error' \in BOOLEAN
    <3>1. shown \in [Win -> 0 .. MaxBuf] /\ held \subseteq 1 .. MaxBuf /\ error \in BOOLEAN
      BY <1>1 DEF Types
    <3>2. CASE m.type # "commit"
      BY <1>0, <3>1, <3>2
    <3>3. CASE m.type = "commit"
      <4>1. m.win \in Win /\ m.buf \in 0 .. MaxBuf /\ m.buf \in 1 .. MaxBuf
        BY <1>2, <3>3, Numbers
      <4>2. error' \in BOOLEAN
        BY <1>0, <3>1, <3>3
      <4>3. QED
        BY <1>0, <3>1, <3>3, <4>1, <4>2
    <3>4. QED
      BY <3>2, <3>3
  <2>2. QED
    BY <1>0, <1>1, <1>3, <1>5, <2>1 DEF Types
<1>9. Buffers'
  <2>1. Opened' = Opened
    BY <1>0 DEF Opened
  <2>2. held' \subseteq 1 .. made
    BY <1>0, <1>2 DEF IInv, Buffers
  <2>3. \A w \in Win : shm[w] <= made /\ shown'[w] <= made
    BY <1>2, <1>6 DEF IInv, Buffers
  <2>4. \A i \in 1 .. Len(q) : q[i].type = "commit" => q[i].buf <= made
    <3>1. \A i \in 1 .. Len(requests) : requests[i].type = "commit" => requests[i].buf <= made
      BY DEF IInv, Buffers
    <3>2. \A i \in 1 .. Len(q) : i + 1 \in 1 .. Len(requests) /\ q[i] = requests[i + 1]
      BY <1>1
    <3>3. QED
      BY <3>1, <3>2
  <2>5. /\ \A i \in 1 .. Len(events') : events'[i].type = "release" => events'[i].n \in 1 .. made
        /\ \A i \in 1 .. Len(events') : events'[i].type = "configure" => events'[i].n \in Win
    BY <1>3 DEF IInv, Buffers
  <2>6. QED
    BY <1>0, <2>1, <2>2, <2>3, <2>4, <2>5 DEF IInv, Buffers
<1>10. Fits'
  BY <1>0, <1>1 DEF IInv, Fits
<1>11. ShownIsPainted'
  BY <1>0, <1>6, <1>7 DEF IInv, ShownIsPainted
<1>12. InFlightIsOutstanding'
  <2>1. made \in Nat /\ 1 .. made \subseteq 1 .. MaxBuf
    BY <1>1, Numbers, Scalars
  <2>2. held \subseteq held' /\ (m.type = "commit" => m.buf \in held')
    BY <1>0
  <2>3. ASSUME NEW b \in 1 .. made, NEW w \in Win, Committed(w, b)
        PROVE  b \in held' \/ \E v \in Win : Committed(v, b)'
    BY <1>7, <2>1, <2>2, <2>3
  <2>4. ASSUME NEW b \in 1 .. made, NEW i \in 1 .. Len(events), events[i] = Msg("release", b)
        PROVE  \E k \in 1 .. Len(events') : events'[k] = Msg("release", b)
    BY <1>3, <2>4
  <2>5. \A b \in 1 .. made :
          \/ b \in released \/ b \in held
          \/ \E w \in Win : Committed(w, b)
          \/ \E i \in 1 .. Len(events) : events[i] = Msg("release", b)
    BY <1>0 DEF IInv, InFlightIsOutstanding
  <2>6. \A b \in 1 .. made :
          \/ b \in released \/ b \in held'
          \/ \E w \in Win : Committed(w, b)'
          \/ \E i \in 1 .. Len(events') : events'[i] = Msg("release", b)
    BY <2>2, <2>3, <2>4, <2>5
  <2>7. QED
    BY <1>0, <2>6 DEF InFlightIsOutstanding
<1>13. \A w \in Win : \A i \in 1 .. Len(requests) : IsCommit(i, w) =>
         window[w] = "acked" \/ \E j \in 1 .. (i - 1) : IsAck(j, w)
  BY DEF IInv, Order
<1>14. \A w \in Win : m.type = "create" /\ m.n = w => Fresh(w) /\ IsCreate(1, w)
  BY <1>1 DEF IInv, Order, IsCreate
<1>15. NoProtocolError'
  <2>1. m.type = "commit" => window[m.win] = "acked"
    BY <1>1, <1>2, <1>13 DEF IsCommit
  <2>2. QED
    BY <1>0, <2>1 DEF IInv, NoProtocolError
<1>16. Pings' /\ Offline'
  <2>1. /\ pings \in Nat /\ pings <= Events - left /\ Events \in Nat /\ left \in Nat
        /\ Count(events, PingEvent) \in Nat /\ Count(q, PongReq) \in Nat
    BY <1>1, Queued, Scalars, Numbers DEF IInv, Pings
  <2>2. /\ m.type = "pong" => /\ pings - 1 \in Nat /\ pings - 1 <= Events - left
                             /\ pings - 1 = Count(events, PingEvent) + Count(q, PongReq)
        /\ m.type # "pong" => pings = Count(events, PingEvent) + Count(q, PongReq)
    <3>1. pings = Count(events, PingEvent) + Count(requests, PongReq)
      BY <1>0 DEF IInv, Pings
    <3>2. Hit(m, PongReq) = IF m.type = "pong" THEN 1 ELSE 0
      BY <1>1, Kinds
    <3>3. CASE m.type = "pong"
      <4>1. Count(requests, PongReq) = Count(q, PongReq) + 1
        BY <1>1, <3>2, <3>3
      <4>2. QED
        BY <2>1, <3>1, <3>3, <4>1
    <3>4. CASE m.type # "pong"
      <4>1. Count(requests, PongReq) = Count(q, PongReq)
        BY <1>1, <3>2, <3>4
      <4>2. QED
        BY <2>1, <3>1, <3>4, <4>1
    <3>5. QED
      BY <3>3, <3>4
  <2>3. pc # "connect"
    BY <1>0 DEF IInv, Offline
  <2>4. QED
    BY <1>0, <1>3, <2>1, <2>2, <2>3 DEF Pings, Offline
<1>17. Order'
  <2>1. \A v \in Win : Begun(v)' <=> Begun(v)
    BY <1>0 DEF Begun
  <2>2. \A v \in Win : Fresh(v) /\ ~(m.type = "create" /\ m.n = v) => Fresh(v)'
    BY <1>0, <1>1, <1>3, <1>4 DEF Fresh, IsAck
  <2>3. ASSUME NEW w \in Win, NEW i \in 1 .. Len(q), q[i].type = "commit", q[i].win = w
        PROVE  window'[w] = "acked" \/ \E j \in 1 .. (i - 1) : q[j].type = "ack" /\ q[j].n = w
    <3>1. i \in Nat /\ i + 1 \in 1 .. Len(requests) /\ IsCommit(i + 1, w)
      BY <1>1, <2>3 DEF IsCommit
    <3>2. window[w] = "acked" \/ \E j \in 1 .. i : IsAck(j, w)
      BY <1>13, <3>1
    <3>3. ~(m.type = "create" /\ m.n = w)
      <4>1. \A j \in 1 .. i : j \in 1 .. Len(requests)
        BY <3>1, Queued, <1>1
      <4>2. QED
        BY <1>14, <3>2, <4>1 DEF Fresh
    <3>4. CASE window[w] = "acked"
      BY <1>4, <3>3, <3>4
    <3>5. ASSUME NEW j \in 1 .. i, IsAck(j, w)
          PROVE  window'[w] = "acked" \/ \E k \in 1 .. (i - 1) : q[k].type = "ack" /\ q[k].n = w
      <4>1. CASE j = 1
        BY <1>1, <1>4, <3>5, <4>1 DEF IsAck
      <4>2. CASE j # 1
        <5>1. j \in 1 .. Len(requests) /\ j - 1 \in 1 .. (i - 1)
          BY <1>1, <3>1, <4>2, Queued
        <5>2. q[j - 1].type = "ack" /\ q[j - 1].n = w
          BY <1>1, <3>5, <4>2, <5>1 DEF IsAck
        <5>3. QED
          BY <5>1, <5>2
      <4>3. QED
        BY <4>1, <4>2
    <3>6. QED
      BY <3>2, <3>4, <3>5
  <2>4. ASSUME NEW w \in configured
        PROVE  window'[w] = "acked" \/ \E j \in 1 .. Len(q) : q[j].type = "ack" /\ q[j].n = w
    <3>1. w \in Win /\ (window[w] = "acked" \/ \E j \in 1 .. Len(requests) : IsAck(j, w))
      BY <1>0, <1>1, <2>4 DEF IInv, Order, Types
    <3>2. ~(m.type = "create" /\ m.n = w)
      BY <1>14, <2>4, <3>1 DEF Fresh
    <3>3. ASSUME NEW j \in 1 .. Len(requests), IsAck(j, w)
          PROVE  window'[w] = "acked" \/ \E k \in 1 .. Len(q) : q[k].type = "ack" /\ q[k].n = w
      <4>1. CASE j = 1
        BY <1>1, <1>4, <3>1, <3>3, <4>1 DEF IsAck
      <4>2. CASE j # 1
        <5>1. j - 1 \in 1 .. Len(q) /\ q[j - 1] = requests[j]
          BY <1>1, <4>2
        <5>2. QED
          BY <3>3, <5>1 DEF IsAck
      <4>3. QED
        BY <4>1, <4>2
    <3>4. QED
      BY <1>4, <3>1, <3>2, <3>3
  <2>5. ASSUME NEW w \in Win, ~Begun(w)
        PROVE  Fresh(w)' /\ \A i \in 1 .. Len(q) : ~(q[i].type = "create" /\ q[i].n = w)
    <3>1. Fresh(w) /\ \A i \in 1 .. Len(requests) : ~IsCreate(i, w)
      BY <2>5 DEF IInv, Order
    <3>2. QED
      BY <1>1, <1>14, <2>2, <3>1 DEF IsCreate
  <2>6. ASSUME NEW w \in Win, NEW i \in 1 .. Len(q), q[i].type = "create", q[i].n = w
        PROVE  Fresh(w)' /\ \A j \in 1 .. Len(q) : q[j].type = "create" /\ q[j].n = w => j = i
    <3>1. i + 1 \in 1 .. Len(requests) /\ IsCreate(i + 1, w) /\ i + 1 # 1
      BY <1>1, <2>6 DEF IsCreate
    <3>2. Fresh(w) /\ \A j \in 1 .. Len(requests) : IsCreate(j, w) => j = i + 1
      BY <3>1 DEF IInv, Order
    <3>3. ~(m.type = "create" /\ m.n = w)
      BY <1>1, <1>14, <3>1, <3>2
    <3>4. ASSUME NEW j \in 1 .. Len(q), q[j].type = "create", q[j].n = w PROVE j = i
      <4>1. j + 1 \in 1 .. Len(requests) /\ IsCreate(j + 1, w)
        BY <1>1, <3>4 DEF IsCreate
      <4>2. j + 1 = i + 1
        BY <3>2, <4>1
      <4>3. QED
        BY <4>2
    <3>5. QED
      BY <2>2, <3>2, <3>3, <3>4
  <2>7. QED
    BY <1>0, <2>1, <2>3, <2>4, <2>5, <2>6 DEF Order, IsCommit, IsAck, IsCreate
<1>18. QED
  BY <1>8, <1>9, <1>10, <1>11, <1>12, <1>15, <1>16, <1>17 DEF IInv

-----------------------------------------------------------------------------
(* The client's requests                                                     *)

LEMMA RequestQueued ==
  ASSUME Types, NEW e \in Req, requests' = Append(requests, e)
  PROVE  /\ requests' \in Seq(Req) /\ requests' = requests \o <<e>>
         /\ \A i \in 1 .. Len(requests) : i \in 1 .. Len(requests') /\ requests'[i] = requests[i]
         /\ Len(requests) + 1 \in 1 .. Len(requests') /\ requests'[Len(requests) + 1] = e
         /\ \A i \in 1 .. Len(requests') :
              \/ i \in 1 .. Len(requests) /\ requests'[i] = requests[i]
              \/ i = Len(requests) + 1 /\ requests'[i] = e /\ 1 .. (i - 1) = 1 .. Len(requests)
         /\ Count(requests', PongReq) = Count(requests, PongReq) + Hit(e, PongReq)
<1>1. requests \in Seq(Req) /\ requests' \in Seq(Req) /\ requests' = requests \o <<e>>
  BY Queued, AppendPlaces
<1>2. Count(requests', PongReq) = Count(requests, PongReq) + Hit(e, PongReq)
  BY <1>1, CountAppend
<1>3. QED
  BY <1>1, <1>2, AppendPlaces

(* No request is forgotten, and those that are new are no commits or pongs,   *)
(* and acknowledge nothing.                                                  *)
Kept ==
  /\ requests' \in Seq(Req)
  /\ \A i \in 1 .. Len(requests) : i \in 1 .. Len(requests') /\ requests'[i] = requests[i]
  /\ \A i \in 1 .. Len(requests') :
       \/ i \in 1 .. Len(requests) /\ requests'[i] = requests[i]
       \/ requests'[i].type \in {"sync", "create"}
  /\ Count(requests', PongReq) = Count(requests, PongReq)

(* The part of the order that such a step cannot disturb.                    *)
LEMMA KeptOrder ==
  ASSUME IInv, Kept, UNCHANGED <<window, configured, up>>
  PROVE  /\ \A w \in Win : \A i \in 1 .. Len(requests') : IsCommit(i, w)' =>
              window'[w] = "acked" \/ \E j \in 1 .. (i - 1) : IsAck(j, w)'
         /\ \A w \in configured' : up' => window'[w] = "acked" \/ \E j \in 1 .. Len(requests') : IsAck(j, w)'
         /\ \A w \in Win : \A b : Committed(w, b)' <=> Committed(w, b)
         /\ Fits /\ UNCHANGED <<shm, dims, size>> => Fits'
<1>1. Len(requests) \in Nat /\ configured \subseteq Win
  BY Queued DEF IInv, Types
<1>2. ASSUME NEW w \in Win, NEW i \in 1 .. Len(requests'),
             requests'[i].type = "commit" /\ requests'[i].win = w
      PROVE  window[w] = "acked" \/ \E j \in 1 .. (i - 1) : requests'[j].type = "ack" /\ requests'[j].n = w
  <2>1. i \in 1 .. Len(requests) /\ IsCommit(i, w)
    BY <1>2 DEF Kept, IsCommit
  <2>2. window[w] = "acked" \/ \E j \in 1 .. (i - 1) : IsAck(j, w)
    BY <2>1 DEF IInv, Order
  <2>3. \A j \in 1 .. (i - 1) : requests'[j] = requests[j]
    BY <1>1, <2>1 DEF Kept
  <2>4. QED
    BY <2>2, <2>3 DEF IsAck
<1>3. ASSUME NEW w \in configured, up
      PROVE  window[w] = "acked" \/ \E j \in 1 .. Len(requests') : requests'[j].type = "ack" /\ requests'[j].n = w
  BY <1>1, <1>3 DEF IInv, Order, Kept, IsAck
<1>4. \A w \in Win : \A b : Committed(w, b)' <=> Committed(w, b)
  BY DEF Kept, Committed
<1>5. Fits /\ UNCHANGED <<shm, dims, size>> => Fits'
  BY DEF Kept, Fits
<1>6. QED
  BY <1>2, <1>3, <1>4, <1>5 DEF IsCommit, IsAck

LEMMA DispatchStep ==
  ASSUME IInv, BeginDispatch
  PROVE  IInv'
<1> DEFINE e == Msg("sync", 0)
<1>0. /\ UNCHANGED <<main, shutdown, at, dims, active, configured, shm, made, size, painted, released,
                     polled, events, up, window, shown, held, pings, error, left>>
      /\ pc = "update" /\ pc' = "dispatch" /\ synced' = FALSE
      /\ requests' = IF up THEN requests \o <<e>> ELSE requests
  BY DEF BeginDispatch, Send, surface, server
<1>1. /\ Types /\ e \in Req /\ e.type = "sync" /\ Hit(e, PongReq) = 0
      /\ requests \in Seq(Req) /\ Count(requests, PongReq) \in Nat
  BY Made, Kinds, Queued DEF IInv
<1> HIDE DEF e
<1>2. Kept
  <2>1. CASE up
    <3>1. Append(requests, e) = requests \o <<e>>
      BY <1>1, AppendPlaces
    <3>2. requests' = Append(requests, e)
      BY <1>0, <2>1, <3>1
    <3>3. Count(requests', PongReq) = Count(requests, PongReq)
      <4>1. Count(requests, PongReq) + Hit(e, PongReq) = Count(requests, PongReq)
        BY <1>1
      <4>2. Count(requests', PongReq) = Count(requests, PongReq) + Hit(e, PongReq)
        BY <1>1, <3>2, RequestQueued
      <4>3. QED
        BY <4>1, <4>2
    <3>4. \A i \in 1 .. Len(requests') :
            (i \in 1 .. Len(requests) /\ requests'[i] = requests[i]) \/ requests'[i] = e
      BY <1>1, <3>2, RequestQueued
    <3>5. QED
      BY <1>1, <3>2, <3>3, <3>4, RequestQueued DEF Kept
  <2>2. CASE ~up
    BY <1>0, <1>1, <2>2 DEF Kept
  <2>3. QED
    BY <2>1, <2>2
<1>3. Types'
  BY <1>0, <1>1, <1>2 DEF Types, Kept
<1>4. Buffers' /\ NoProtocolError' /\ Fits'
  <2>1. Opened' = Opened
    BY <1>0 DEF Opened
  <2>2. \A i \in 1 .. Len(requests') : requests'[i].type = "commit" => requests'[i].buf <= made
    BY <1>2 DEF IInv, Buffers, Kept
  <2>3. QED
    BY <1>0, <1>2, <2>1, <2>2, KeptOrder DEF IInv, Buffers, NoProtocolError
<1>5. ShownIsPainted' /\ InFlightIsOutstanding'
  BY <1>0, <1>2, KeptOrder DEF IInv, ShownIsPainted, InFlightIsOutstanding
<1>6. Order'
  <2>1. \A v \in Win : Begun(v) /\ Begun(v)'
    BY <1>0 DEF Begun
  <2>2. \A v \in Win : Fresh(v) => Fresh(v)'
    BY <1>0, <1>2 DEF Fresh, IsAck, Kept
  <2>3. \A v \in Win : \A i \in 1 .. Len(requests') : ~(i \in 1 .. Len(requests)) => requests'[i] = e
    <3>1. CASE up
      <4>1. requests' = Append(requests, e)
        BY <1>0, <1>1, <3>1, AppendPlaces
      <4>2. QED
        BY <1>1, <4>1, RequestQueued
    <3>2. CASE ~up
      BY <1>0, <3>2
    <3>3. QED
      BY <3>1, <3>2
  <2>4. \A v \in Win : \A i \in 1 .. Len(requests') : IsCreate(i, v)' =>
          i \in 1 .. Len(requests) /\ IsCreate(i, v)
    BY <1>1, <1>2, <2>3 DEF Kept, IsCreate
  <2>5. QED
    BY <1>0, <1>2, <2>1, <2>2, <2>4, KeptOrder DEF IInv, Order
<1>7. Pings' /\ Offline'
  BY <1>0, <1>2 DEF IInv, Pings, Offline, Kept
<1>8. QED
  BY <1>3, <1>4, <1>5, <1>6, <1>7 DEF IInv

LEMMA CreateStep ==
  ASSUME IInv, BeginCreate
  PROVE  IInv'
<1> DEFINE c == Msg("create", at)
           s == Msg("sync", 0)
           q == Append(requests, c)
<1>0. /\ UNCHANGED <<main, shutdown, at, dims, active, configured, shm, made, size, painted, released,
                     polled, events, up, window, shown, held, pings, error, left>>
      /\ pc = "create" /\ pc' = "buffer" /\ at <= N /\ synced' = FALSE
      /\ requests' = IF up THEN requests \o <<c, s>> ELSE requests
  BY DEF BeginCreate, Send, surface, server
<1>1. /\ Types /\ at \in Win /\ at \in Nat
      /\ c \in Req /\ c.type = "create" /\ c.n = at /\ Hit(c, PongReq) = 0
      /\ s \in Req /\ s.type = "sync" /\ Hit(s, PongReq) = 0
      /\ requests \in Seq(Req) /\ q \in Seq(Req) /\ Count(requests, PongReq) \in Nat
      /\ Len(requests) \in Nat
  <2>1. Types /\ at \in Nat /\ at \in Win /\ at \in 0 .. N
    BY <1>0, Scalars, Numbers DEF IInv, Win
  <2>2. c \in Req /\ s \in Req /\ c.type = "create" /\ c.n = at /\ s.type = "sync"
    BY <2>1, Made
  <2>3. Hit(c, PongReq) = 0 /\ Hit(s, PongReq) = 0
    BY <2>2, Kinds
  <2>4. QED
    BY <2>1, <2>2, <2>3, Queued, AppendPlaces
<1>2. /\ \A i \in 1 .. Len(requests) : i \in 1 .. Len(q) /\ q[i] = requests[i]
      /\ \A i \in 1 .. Len(q) : i \in 1 .. Len(requests) \/ (i = Len(requests) + 1 /\ q[i] = c)
      /\ Count(q, PongReq) = Count(requests, PongReq)
  <2>1. Count(q, PongReq) = Count(requests, PongReq) + Hit(c, PongReq)
    BY <1>1, CountAppend
  <2>2. q[Len(requests) + 1] = c
    BY <1>1, AppendPlaces
  <2>3. QED
    BY <1>1, <2>1, <2>2, AppendPlaces
<1>3. up => requests' = Append(q, s)
  BY <1>0, <1>1, AppendTwo
<1> HIDE DEF c, s, q
<1>4. /\ Kept
      /\ \A i \in 1 .. Len(requests') :
           \/ i \in 1 .. Len(requests) /\ requests'[i] = requests[i]
           \/ (i = Len(requests) + 1 /\ requests'[i] = c)
           \/ requests'[i] = s
  <2>1. CASE up
    <3>1. /\ requests' \in Seq(Req)
          /\ \A i \in 1 .. Len(q) : i \in 1 .. Len(requests') /\ requests'[i] = q[i]
          /\ \A i \in 1 .. Len(requests') : i \in 1 .. Len(q) \/ requests'[i] = s
          /\ Count(requests', PongReq) = Count(q, PongReq)
      <4>1. Count(Append(q, s), PongReq) = Count(q, PongReq) + Hit(s, PongReq)
        BY <1>1, CountAppend
      <4>2. Append(q, s)[Len(q) + 1] = s
        BY <1>1, AppendPlaces
      <4>3. Count(q, PongReq) + Hit(s, PongReq) = Count(q, PongReq)
        BY <1>1, <1>2
      <4>4. requests' = Append(q, s)
        BY <1>3, <2>1
      <4>5. QED
        BY <1>1, <4>1, <4>2, <4>3, <4>4, AppendPlaces
    <3>2. \A i \in 1 .. Len(requests) : i \in 1 .. Len(requests') /\ requests'[i] = requests[i]
      BY <1>2, <3>1
    <3>3. \A i \in 1 .. Len(requests') :
           \/ i \in 1 .. Len(requests) /\ requests'[i] = requests[i]
           \/ (i = Len(requests) + 1 /\ requests'[i] = c)
           \/ requests'[i] = s
      BY <1>2, <3>1
    <3>4. QED
      BY <1>1, <1>2, <3>1, <3>2, <3>3 DEF Kept
  <2>2. CASE ~up
    BY <1>0, <1>1, <2>2 DEF Kept
  <2>3. QED
    BY <2>1, <2>2
<1>5. Types'
  BY <1>0, <1>1, <1>4 DEF Types, Kept
<1>6. Buffers' /\ NoProtocolError' /\ Fits'
  <2>1. Opened' = Opened
    BY <1>0 DEF Opened
  <2>2. \A i \in 1 .. Len(requests') : requests'[i].type = "commit" => requests'[i].buf <= made
    BY <1>4 DEF IInv, Buffers, Kept
  <2>3. QED
    BY <1>0, <1>4, <2>1, <2>2, KeptOrder DEF IInv, Buffers, NoProtocolError
<1>7. ShownIsPainted' /\ InFlightIsOutstanding'
  BY <1>0, <1>4, KeptOrder DEF IInv, ShownIsPainted, InFlightIsOutstanding
<1>8. Order'
  <2>1. \A v \in Win : Fresh(v) => Fresh(v)'
    BY <1>0, <1>4 DEF Fresh, IsAck, Kept
  <2>2. ~Begun(at) /\ \A v \in Win : ~Begun(v)' => ~Begun(v) /\ v # at
    BY <1>0, <1>1 DEF Begun, Win
  <2>3. Fresh(at) /\ \A i \in 1 .. Len(requests) : ~IsCreate(i, at)
    BY <1>1, <2>2 DEF IInv, Order
  <2>4. \A v \in Win : v # at =>
          \A i \in 1 .. Len(requests') : IsCreate(i, v)' => i \in 1 .. Len(requests) /\ IsCreate(i, v)
    BY <1>1, <1>4 DEF IsCreate
  <2>5. \A v \in Win : v = at =>
          \A i \in 1 .. Len(requests') : IsCreate(i, v)' => i = Len(requests) + 1
    BY <1>0, <1>1, <1>4, <2>3 DEF IsCreate
  <2>6. \A v \in Win : ~Begun(v)' => Fresh(v)' /\ \A i \in 1 .. Len(requests') : ~IsCreate(i, v)'
    BY <2>1, <2>2, <2>4 DEF IInv, Order
  <2>7. ASSUME NEW v \in Win, NEW i \in 1 .. Len(requests'), IsCreate(i, v)'
        PROVE  Fresh(v)' /\ \A j \in 1 .. Len(requests') : IsCreate(j, v)' => j = i
    <3>1. CASE v = at
      <4>1. Fresh(v)
        BY <2>3, <3>1
      <4>2. i = Len(requests) + 1 /\ \A j \in 1 .. Len(requests') : IsCreate(j, v)' => j = Len(requests) + 1
        BY <2>5, <2>7, <3>1
      <4>3. QED
        BY <2>1, <4>1, <4>2
    <3>2. CASE v # at
      BY <2>1, <2>4, <2>7, <3>2 DEF IInv, Order
    <3>3. QED
      BY <3>1, <3>2
  <2>8. QED
    BY <1>0, <1>4, <2>6, <2>7, KeptOrder DEF Order
<1>9. Pings' /\ Offline'
  BY <1>0, <1>4 DEF IInv, Pings, Offline, Kept
<1>10. QED
  BY <1>5, <1>6, <1>7, <1>8, <1>9 DEF IInv

LEMMA UpdateStep ==
  ASSUME IInv, NEW w \in Win, UpdatePixels(w)
  PROVE  IInv'
<1> DEFINE b == shm[w]
           c == Commit(w, b)
<1>0. /\ UNCHANGED <<main, shutdown, pc, dims, active, configured, shm, made, size, synced, events, up,
                     window, shown, held, pings, error, left>>
      /\ pc = "update" /\ at = w /\ at' = at + 1 /\ w \in active \cap configured /\ b # 0
      /\ polled' = polled \cup {w}
      /\ painted' = IF FrameFits(dims[w]) THEN painted \cup {b} ELSE painted
      /\ released' = released \ {b}
      /\ requests' = IF up THEN requests \o <<c>> ELSE requests
  BY DEF UpdatePixels, Dirty, Advance, Send, server
<1>1. /\ Types /\ dims[w] \in Dims /\ b \in 1 .. MaxBuf /\ b \in 1 .. made /\ b <= made
      /\ requests \in Seq(Req) /\ Count(requests, PongReq) \in Nat /\ Len(requests) \in Nat
      /\ made \in Nat
  <2>1. Types /\ dims[w] \in Dims /\ b \in 0 .. MaxBuf /\ b <= made /\ made \in Nat
    BY Scalars DEF IInv, Types, Buffers
  <2>2. b \in 1 .. MaxBuf /\ b \in 1 .. made
    BY <1>0, <2>1, Numbers
  <2>3. QED
    BY <2>1, <2>2, Queued
<1>2. /\ c \in Req /\ c.type = "commit" /\ c.win = w /\ c.buf = b /\ c.dims = dims[w]
      /\ Hit(c, PongReq) = 0
  <2>1. c \in Frames /\ c.type = "commit" /\ c.win = w /\ c.buf = b /\ c.dims = dims[w]
    BY <1>1 DEF Commit, Frames
  <2>2. QED
    BY <2>1, Kinds DEF Req
<1> HIDE DEF b, c
<1>3. /\ requests' \in Seq(Req)
      /\ \A i \in 1 .. Len(requests) : i \in 1 .. Len(requests') /\ requests'[i] = requests[i]
      /\ up => Len(requests) + 1 \in 1 .. Len(requests') /\ requests'[Len(requests) + 1] = c
      /\ \A i \in 1 .. Len(requests') :
           \/ i \in 1 .. Len(requests) /\ requests'[i] = requests[i]
           \/ up /\ i = Len(requests) + 1 /\ requests'[i] = c /\ 1 .. (i - 1) = 1 .. Len(requests)
      /\ Count(requests', PongReq) = Count(requests, PongReq)
  <2>1. CASE up
    <3>1. requests' = Append(requests, c)
      BY <1>0, <1>1, <1>2, <2>1, AppendPlaces
    <3>2. Count(requests, PongReq) + Hit(c, PongReq) = Count(requests, PongReq)
      BY <1>1, <1>2
    <3>3. QED
      BY <1>1, <1>2, <2>1, <3>1, <3>2, RequestQueued
  <2>2. CASE ~up
    BY <1>0, <1>1, <2>2
  <2>3. QED
    BY <2>1, <2>2
<1>4. Types'
  <2>1. at' \in 1 .. N + 1
    BY <1>0, Numbers DEF Win
  <2>2. painted' \subseteq 1 .. MaxBuf /\ released' \subseteq 1 .. MaxBuf /\ polled' \subseteq Win
    BY <1>0, <1>1 DEF Types
  <2>3. pc # "buffer"
    BY <1>0
  <2>4. QED
    BY <1>0, <1>1, <1>3, <2>1, <2>2, <2>3 DEF Types
<1>5. Buffers' /\ NoProtocolError'
  <2>1. Opened' = Opened
    BY <1>0 DEF Opened
  <2>2. \A i \in 1 .. Len(requests') : requests'[i].type = "commit" => requests'[i].buf <= made
    BY <1>1, <1>2, <1>3 DEF IInv, Buffers
  <2>3. QED
    BY <1>0, <2>1, <2>2 DEF IInv, Buffers, NoProtocolError
<1>6. size[b] = Area(dims[w]) /\ size[b] <= I32Max
  BY <1>0 DEF IInv, Fits, b
<1>7. Fits'
  <2>1. \A i \in 1 .. Len(requests') : requests'[i].type = "commit" =>
          size[requests'[i].buf] = Area(requests'[i].dims) /\ size[requests'[i].buf] <= I32Max
    BY <1>2, <1>3, <1>6 DEF IInv, Fits
  <2>2. QED
    BY <1>0, <2>1 DEF IInv, Fits
<1>8. \A v \in Win : \A k : Committed(v, k)' => Committed(v, k) \/ (v = w /\ k = b)
  BY <1>2, <1>3 DEF Committed
<1>9. \A v \in Win : \A k : Committed(v, k) => Committed(v, k)'
  BY <1>3 DEF Committed
<1>10. ShownIsPainted'
  <2>1. b \in painted' \/ size[b] > MaxBytes
    <3>1. Area(dims[w]) \in Nat /\ (FrameFits(dims[w]) <=> Area(dims[w]) <= MaxBytes)
      BY <1>1, PictureSize
    <3>2. Area(dims[w]) <= MaxBytes \/ Area(dims[w]) > MaxBytes
      BY <3>1, WidthAssumption
    <3>3. QED
      BY <1>0, <1>6, <3>1, <3>2
  <2>2. painted \subseteq painted'
    BY <1>0
  <2>3. QED
    BY <1>0, <1>8, <2>1, <2>2 DEF IInv, ShownIsPainted
<1>11. InFlightIsOutstanding'
  <2>1. \A k : up /\ k = b => Committed(w, k)'
    BY <1>2, <1>3 DEF Committed
  <2>2. \A k \in 1 .. made : k # b /\ k \in released => k \in released'
    BY <1>0
  <2>3. QED
    BY <1>0, <1>9, <2>1, <2>2 DEF IInv, InFlightIsOutstanding
<1>12. Order'
  <2>1. \A v \in Win : Begun(v) /\ Begun(v)'
    BY <1>0 DEF Begun
  <2>2. \A v \in Win : Fresh(v) => Fresh(v)'
    BY <1>0, <1>2, <1>3 DEF Fresh, IsAck
  <2>3. \A v \in Win : \A i \in 1 .. Len(requests') : IsCreate(i, v)' =>
          i \in 1 .. Len(requests) /\ IsCreate(i, v)
    BY <1>2, <1>3 DEF IsCreate
  <2>4. ASSUME NEW v \in Win, NEW i \in 1 .. Len(requests'),
               requests'[i].type = "commit" /\ requests'[i].win = v
        PROVE  window[v] = "acked" \/ \E j \in 1 .. (i - 1) : requests'[j].type = "ack" /\ requests'[j].n = v
    <3>1. CASE i \in 1 .. Len(requests) /\ requests'[i] = requests[i]
      <4>1. window[v] = "acked" \/ \E j \in 1 .. (i - 1) : IsAck(j, v)
        BY <2>4, <3>1 DEF IInv, Order, IsCommit
      <4>2. \A j \in 1 .. (i - 1) : requests'[j] = requests[j]
        BY <1>1, <1>3, <3>1
      <4>3. QED
        BY <4>1, <4>2 DEF IsAck
    <3>2. CASE up /\ requests'[i] = c /\ 1 .. (i - 1) = 1 .. Len(requests)
      <4>1. v = w /\ (window[w] = "acked" \/ \E j \in 1 .. Len(requests) : IsAck(j, w))
        BY <1>0, <1>2, <2>4, <3>2 DEF IInv, Order
      <4>2. QED
        BY <1>3, <3>2, <4>1 DEF IsAck
    <3>3. QED
      BY <1>3, <3>1, <3>2
  <2>5. ASSUME NEW v \in configured, up
        PROVE  window[v] = "acked" \/ \E j \in 1 .. Len(requests') : requests'[j].type = "ack" /\ requests'[j].n = v
    BY <1>3, <2>5 DEF IInv, Order, IsAck
  <2>6. window' = window /\ configured' = configured /\ up' = up
    BY <1>0
  <2>7. \A v \in Win : \A i \in 1 .. Len(requests') : IsCreate(i, v)' =>
          Fresh(v)' /\ \A j \in 1 .. Len(requests') : IsCreate(j, v)' => j = i
    BY <2>2, <2>3 DEF IInv, Order
  <2>8. QED
    BY <2>1, <2>4, <2>5, <2>6, <2>7 DEF Order, IsCommit, IsAck
<1>13. Pings' /\ Offline'
  <2>1. ~up => requests' = requests
    BY <1>0
  <2>2. QED
    BY <1>0, <1>3, <2>1 DEF IInv, Pings, Offline
<1>14. QED
  BY <1>4, <1>5, <1>7, <1>10, <1>11, <1>12, <1>13 DEF IInv

LEMMA EventStep ==
  ASSUME IInv, HandleEvent
  PROVE  IInv'
<1> DEFINE e == Head(events)
           t == Tail(events)
           a == IF e.type = "configure" THEN Msg("ack", e.n) ELSE Msg("pong", 0)
<1>0. /\ UNCHANGED <<main, shutdown, pc, at, dims, active, shm, made, size, painted, polled, up,
                     window, shown, held, pings, error, left>>
      /\ events # <<>> /\ events' = t
      /\ configured' = IF e.type = "configure" THEN configured \cup {e.n} ELSE configured
      /\ released' = IF e.type = "release" THEN released \cup {e.n} ELSE released
      /\ synced' = (synced \/ e.type = "done")
      /\ requests' = IF up /\ e.type \in {"configure", "ping"} THEN requests \o <<a>> ELSE requests
  <2>1. CASE e.type = "configure"
    BY <2>1 DEF HandleEvent, threads, server, Send
  <2>2. CASE e.type = "ping"
    BY <2>2 DEF HandleEvent, threads, server, Send
  <2>3. CASE e.type \notin {"configure", "ping"}
    BY <2>3 DEF HandleEvent, threads, server, Send
  <2>4. QED
    BY <2>1, <2>2, <2>3
<1>1. /\ Types /\ t \in Seq(Event) /\ e \in Event
      /\ 1 \in 1 .. Len(events) /\ e = events[1]
      /\ \A i \in 1 .. Len(t) : i + 1 \in 1 .. Len(events) /\ t[i] = events[i + 1]
      /\ \A i \in 1 .. Len(events) : i = 1 \/ (i - 1 \in 1 .. Len(t) /\ t[i - 1] = events[i])
      /\ Count(events, PingEvent) = Count(t, PingEvent) + Hit(e, PingEvent)
      /\ Count(t, PingEvent) \in Nat /\ Count(requests, PongReq) \in Nat
      /\ requests \in Seq(Req) /\ Len(requests) \in Nat
  <2>1. Types /\ events \in Seq(Event) /\ events # <<>>
    BY <1>0, Queued DEF IInv
  <2>2. t \in Seq(Event)
    BY <2>1, TailPlaces
  <2>3. QED
    BY <2>1, <2>2, TailPlaces, CountTail, CountType, Queued
<1>2. up
  BY <1>0 DEF IInv, Offline
<1>3. /\ e.type \in {"configure", "ping", "release", "done"} /\ e.n \in 0 .. MaxBuf
      /\ e.type = "configure" => e.n \in Win /\ e.n \in 0 .. N
      /\ e.type = "release" => e.n \in 1 .. made /\ e.n \in 1 .. MaxBuf
      /\ Hit(e, PingEvent) = IF e.type = "ping" THEN 1 ELSE 0
  <2>1. /\ e.type = "configure" => e.n \in Win
        /\ e.type = "release" => e.n \in 1 .. made
    BY <1>1 DEF IInv, Buffers
  <2>2. Win \subseteq 0 .. N /\ 1 .. made \subseteq 1 .. MaxBuf
    BY <1>1, Numbers, Scalars DEF Win
  <2>3. QED
    BY <1>1, <2>1, <2>2, Kinds
<1>4. e.type \in {"configure", "ping"} =>
        /\ a \in Req /\ a.type \in {"ack", "pong"}
        /\ e.type = "configure" => a.type = "ack" /\ a.n = e.n
        /\ e.type = "ping" => a.type = "pong"
        /\ Hit(a, PongReq) = Hit(e, PingEvent)
  <2>1. CASE e.type = "configure"
    <3>1. a = Msg("ack", e.n) /\ a \in Req /\ a.type = "ack" /\ a.n = e.n
      BY <1>3, <2>1, Made
    <3>2. QED
      BY <1>3, <2>1, <3>1, Kinds
  <2>2. CASE e.type = "ping"
    <3>1. a = Msg("pong", 0) /\ a \in Req /\ a.type = "pong"
      BY <2>2, Made
    <3>2. QED
      BY <1>3, <2>2, <3>1, Kinds
  <2>3. QED
    BY <2>1, <2>2
<1> HIDE DEF e, t, a
<1>5. /\ requests' \in Seq(Req)
      /\ \A i \in 1 .. Len(requests) : i \in 1 .. Len(requests') /\ requests'[i] = requests[i]
      /\ e.type = "configure" => \E i \in 1 .. Len(requests') : requests'[i] = a
      /\ \A i \in 1 .. Len(requests') :
           \/ i \in 1 .. Len(requests) /\ requests'[i] = requests[i]
           \/ e.type \in {"configure", "ping"} /\ requests'[i] = a
      /\ Count(requests', PongReq) = Count(requests, PongReq) + Hit(e, PingEvent)
  <2>1. CASE e.type \in {"configure", "ping"}
    <3>1. requests' = Append(requests, a) /\ a \in Req
      BY <1>0, <1>1, <1>2, <1>4, <2>1, AppendPlaces
    <3>2. Count(requests', PongReq) = Count(requests, PongReq) + Hit(a, PongReq)
      BY <1>1, <3>1, RequestQueued
    <3>3. QED
      BY <1>1, <1>4, <2>1, <3>1, <3>2, RequestQueued
  <2>2. CASE e.type \notin {"configure", "ping"}
    <3>1. requests' = requests
      BY <1>0, <2>2
    <3>2. Count(requests, PongReq) = Count(requests, PongReq) + Hit(e, PingEvent)
      BY <1>1, <1>3, <2>2
    <3>3. QED
      BY <1>1, <2>2, <3>1, <3>2
  <2>3. QED
    BY <2>1, <2>2
<1>6. Types'
  <2>1. released' \subseteq 1 .. MaxBuf /\ configured' \subseteq Win /\ synced' \in BOOLEAN
    <3>1. released \subseteq 1 .. MaxBuf /\ configured \subseteq Win /\ synced \in BOOLEAN
      BY <1>1 DEF Types
    <3>2. released' \subseteq 1 .. MaxBuf
      BY <1>0, <1>3, <3>1
    <3>3. configured' \subseteq Win
      BY <1>0, <1>3, <3>1
    <3>4. synced' \in BOOLEAN
      BY <1>0
    <3>5. QED
      BY <3>2, <3>3, <3>4
  <2>2. QED
    BY <1>0, <1>1, <1>5, <2>1 DEF Types
<1>7. Buffers' /\ NoProtocolError'
  <2>1. Opened' = Opened
    BY <1>0 DEF Opened
  <2>2. \A i \in 1 .. Len(requests') : requests'[i].type = "commit" => requests'[i].buf <= made
    BY <1>4, <1>5 DEF IInv, Buffers
  <2>3. /\ \A i \in 1 .. Len(t) : t[i].type = "release" => t[i].n \in 1 .. made
        /\ \A i \in 1 .. Len(t) : t[i].type = "configure" => t[i].n \in Win
    <3>1. /\ \A i \in 1 .. Len(events) : events[i].type = "release" => events[i].n \in 1 .. made
          /\ \A i \in 1 .. Len(events) : events[i].type = "configure" => events[i].n \in Win
      BY DEF IInv, Buffers
    <3>2. QED
      BY <1>1, <3>1
  <2>4. QED
    BY <1>0, <2>1, <2>2, <2>3 DEF IInv, Buffers, NoProtocolError
<1>8. Fits'
  <2>1. \A i \in 1 .. Len(requests') : requests'[i].type = "commit" =>
          size[requests'[i].buf] = Area(requests'[i].dims) /\ size[requests'[i].buf] <= I32Max
    BY <1>4, <1>5 DEF IInv, Fits
  <2>2. QED
    BY <1>0, <2>1 DEF IInv, Fits
<1>9. \A v \in Win : \A k : Committed(v, k)' <=> Committed(v, k)
  BY <1>4, <1>5 DEF Committed
<1>10. ShownIsPainted'
  BY <1>0, <1>9 DEF IInv, ShownIsPainted
<1>11. InFlightIsOutstanding'
  <2>1. ASSUME NEW k \in 1 .. made, NEW i \in 1 .. Len(events), events[i] = Msg("release", k)
        PROVE  k \in released' \/ \E j \in 1 .. Len(t) : t[j] = Msg("release", k)
    <3>1. CASE i = 1
      BY <1>0, <1>1, <2>1, <3>1, Made
    <3>2. CASE i # 1
      BY <1>1, <2>1, <3>2
    <3>3. QED
      BY <3>1, <3>2
  <2>2. released \subseteq released'
    BY <1>0
  <2>3. QED
    BY <1>0, <1>2, <1>9, <2>1, <2>2 DEF IInv, InFlightIsOutstanding
<1>12. Order'
  <2>1. \A v \in Win : Begun(v)' <=> Begun(v)
    BY <1>0 DEF Begun
  <2>2. \A v \in Win : Fresh(v) => Fresh(v)'
    <3>1. \A v \in Win : Fresh(v) => ~(e.type = "configure" /\ e.n = v)
      BY <1>1 DEF Fresh
    <3>2. QED
      BY <1>0, <1>1, <1>4, <1>5, <3>1 DEF Fresh, IsAck
  <2>3. \A v \in Win : \A i \in 1 .. Len(requests') : IsCreate(i, v)' =>
          i \in 1 .. Len(requests) /\ IsCreate(i, v)
    BY <1>4, <1>5 DEF IsCreate
  <2>4. ASSUME NEW v \in Win, NEW i \in 1 .. Len(requests'),
               requests'[i].type = "commit" /\ requests'[i].win = v
        PROVE  window[v] = "acked" \/ \E j \in 1 .. (i - 1) : requests'[j].type = "ack" /\ requests'[j].n = v
    <3>1. i \in 1 .. Len(requests) /\ requests'[i] = requests[i]
      BY <1>4, <1>5, <2>4
    <3>2. window[v] = "acked" \/ \E j \in 1 .. (i - 1) : IsAck(j, v)
      BY <2>4, <3>1 DEF IInv, Order, IsCommit
    <3>3. \A j \in 1 .. (i - 1) : requests'[j] = requests[j]
      BY <1>1, <1>5, <3>1
    <3>4. QED
      BY <3>2, <3>3 DEF IsAck
  <2>5. ASSUME NEW v \in configured'
        PROVE  window[v] = "acked" \/ \E j \in 1 .. Len(requests') : requests'[j].type = "ack" /\ requests'[j].n = v
    <3>1. CASE v \in configured
      BY <1>2, <1>5, <3>1 DEF IInv, Order, IsAck
    <3>2. CASE v \notin configured
      BY <1>0, <1>4, <1>5, <2>5, <3>2
    <3>3. QED
      BY <3>1, <3>2
  <2>6. window' = window /\ up' = up
    BY <1>0
  <2>7. \A v \in Win : \A i \in 1 .. Len(requests') : IsCreate(i, v)' =>
          Fresh(v)' /\ \A j \in 1 .. Len(requests') : IsCreate(j, v)' => j = i
    BY <2>2, <2>3 DEF IInv, Order
  <2>8. \A v \in Win : ~Begun(v)' => Fresh(v)' /\ \A i \in 1 .. Len(requests') : ~IsCreate(i, v)'
    BY <2>1, <2>2, <2>3 DEF IInv, Order
  <2>9. QED
    BY <2>4, <2>5, <2>6, <2>7, <2>8 DEF Order, IsCommit, IsAck
<1>13. Pings' /\ Offline'
  <2>1. /\ pings = Count(events, PingEvent) + Count(requests, PongReq)
        /\ Hit(e, PingEvent) \in Nat
    BY <1>2, <1>3 DEF IInv, Pings
  <2>2. pings = Count(t, PingEvent) + (Count(requests, PongReq) + Hit(e, PingEvent))
    BY <1>1, <2>1
  <2>3. QED
    BY <1>0, <1>2, <1>5, <2>2 DEF IInv, Pings, Offline
<1>14. QED
  BY <1>6, <1>7, <1>8, <1>10, <1>11, <1>12, <1>13 DEF IInv

-----------------------------------------------------------------------------
(* The invariant and the theorems                                            *)

LEMMA InitIInv == Init => IInv
<1> SUFFICES ASSUME Init PROVE IInv
  OBVIOUS
<1>1. /\ requests = <<>> /\ events = <<>> /\ Len(requests) = 0 /\ Len(events) = 0
      /\ made = 0 /\ left = Events /\ pings = 0 /\ ~up /\ pc = "connect" /\ at = 1
      /\ <<>> \in Seq(Req) /\ <<>> \in Seq(Event)
  BY DEF Init
<1>2. Types
  <2>1. /\ at \in 1 .. N + 1 /\ 0 \in 0 .. MaxBuf /\ left \in 0 .. Events /\ made \in 0 .. MaxBuf
    BY <1>1, Numbers
  <2>2. dims \in [Win -> Dims]
    BY DimsAssumption DEF Init
  <2>3. /\ shm \in [Win -> 0 .. MaxBuf] /\ shown \in [Win -> 0 .. MaxBuf]
        /\ size \in [1 .. MaxBuf -> Nat] /\ window \in [Win -> {"none", "new", "sent", "acked"}]
    BY <2>1 DEF Init
  <2>4. /\ main \in {"wait", "join", "stopped"} /\ shutdown \in BOOLEAN /\ synced \in BOOLEAN
        /\ up \in BOOLEAN /\ error \in BOOLEAN
        /\ active \subseteq Win /\ configured \subseteq Win /\ polled \subseteq Win
        /\ painted \subseteq 1 .. MaxBuf /\ released \subseteq 1 .. MaxBuf /\ held \subseteq 1 .. MaxBuf
    BY DEF Init
  <2>5. QED
    BY <1>1, <2>1, <2>2, <2>3, <2>4 DEF Types
<1>3. Buffers /\ Fits
  BY <1>1, Numbers DEF Init, Buffers, Fits, Opened
<1>4. ShownIsPainted /\ InFlightIsOutstanding /\ NoProtocolError
  BY <1>1 DEF Init, ShownIsPainted, InFlightIsOutstanding, NoProtocolError, Committed
<1>5. Order
  BY <1>1 DEF Init, Order, Fresh
<1>6. Pings /\ Offline
  BY <1>1, Numbers DEF Pings, Offline
<1>7. QED
  BY <1>2, <1>3, <1>4, <1>5, <1>6 DEF IInv

LEMMA StepIInv == IInv /\ [Next]_vars => IInv'
<1> SUFFICES ASSUME IInv, [Next]_vars PROVE IInv'
  OBVIOUS
<1>1. CASE UNCHANGED vars
  <2>1. Calm /\ painted' = painted /\ left' = left /\ pc' = pc /\ at' = at
    BY <1>1 DEF vars, threads, surface, socket, server, Calm, Steady
  <2>2. Types'
    BY <1>1 DEF IInv, Types, vars, threads, surface, socket, server
  <2>3. Onward
    <3>1. Opened' = Opened /\ \A w \in Win : Begun(w) => Begun(w)'
      BY <2>1 DEF Opened, Begun
    <3>2. Opened \in Nat /\ left \in Nat
      BY Scalars DEF IInv
    <3>3. QED
      BY <2>1, <3>1, <3>2 DEF Onward
  <2>4. QED
    BY <2>1, <2>2, <2>3, CalmStep
<1>2. CASE WaylandThread
  <2>1. ASSUME NEW w \in Win, UpdatePixels(w) PROVE IInv'
    BY <2>1, UpdateStep
  <2>2. ASSUME NEW w \in Win, UpdateWithoutBuffer(w) \/ UpdateFails(w) PROVE IInv'
    BY <2>2, CalmActions
  <2>3. QED
    BY <1>2, <2>1, <2>2, ConnectStep, DownActions, CreateStep, AllocateActions, CalmActions, DispatchStep, EventStep
       DEF WaylandThread
<1>3. CASE ApiResize
  BY <1>3, AllocateActions
<1>4. CASE Signal \/ Join
  BY <1>4, CalmActions
<1>5. CASE Compositor
  <2>1. ASSUME NEW w \in Win, FirstConfigure(w) PROVE IInv'
    BY <2>1, FirstConfigureStep
  <2>2. ASSUME NEW b \in 1 .. MaxBuf, ReleaseBuffer(b) PROVE IInv'
    BY <2>2, ReleaseStep
  <2>3. QED
    BY <1>5, <2>1, <2>2, ServeStep, PingStep, DownActions DEF Compositor
<1>6. QED
  BY <1>1, <1>2, <1>3, <1>4, <1>5 DEF Next

THEOREM GuiInvariance == Spec => []IInv
<1>1. Init => IInv
  BY InitIInv
<1>2. IInv /\ [Next]_vars => IInv'
  BY StepIInv
<1>3. QED
  BY <1>1, <1>2, PTL DEF Spec

(* Every variable keeps its type and every counter its bound, whatever the    *)
(* compositor does: no buffer is made beyond the one per window and per       *)
(* resize, and never a pong more than there were pings.                      *)
THEOREM GuiTypeCorrect == Spec => []TypeOK
<1>1. IInv => TypeOK
  <2> SUFFICES ASSUME IInv PROVE TypeOK
    OBVIOUS
  <2>1. Types /\ Req = [type : {"create", "ack", "pong", "sync"}, n : 0 .. N]
                         \cup [type : {"commit"}, win : Win, buf : 1 .. MaxBuf, dims : Dims]
              /\ Event = [type : {"configure", "ping", "release", "done"}, n : 0 .. MaxBuf]
    BY DEF IInv, Req, Event, Plain, Frames
  <2>2. pings \in 0 .. Events
    BY Scalars, Numbers DEF IInv, Pings
  <2>3. QED
    BY <2>1, <2>2 DEF Types, TypeOK
<1>2. QED
  BY <1>1, GuiInvariance, PTL

(* No buffer is committed to a window before its first configure event was    *)
(* acknowledged, for any number of windows and in any order of events.       *)
THEOREM GuiKeepsProtocol == Spec => []NoProtocolError
<1>1. IInv => NoProtocolError
  BY DEF IInv
<1>2. QED
  BY <1>1, GuiInvariance, PTL

(* Every buffer, and every commit under way, has exactly the bytes of its     *)
(* picture, whatever sizes a guest asks for and however wide the integers.    *)
THEOREM GuiBufferFits == Spec => []BufferHoldsPicture
<1>1. IInv => BufferHoldsPicture
  <2> SUFFICES ASSUME IInv PROVE BufferHoldsPicture
    OBVIOUS
  <2>1. active \subseteq Win
    BY Scalars DEF IInv
  <2>2. QED
    BY <2>1 DEF IInv, Fits, Area, BufferHoldsPicture
<1>2. QED
  BY <1>1, GuiInvariance, PTL

(* What a window shows was painted whole, or is larger than MaxBytes.         *)
THEOREM GuiShowsWholePictures == Spec => []ShownIsPainted
<1>1. IInv => ShownIsPainted
  BY DEF IInv
<1>2. QED
  BY <1>1, GuiInvariance, PTL

(* No buffer is lost: one that is in flight is in the compositor's hands or   *)
(* in one of the two directions of the socket.                               *)
THEOREM GuiAccountsForBuffers == Spec => []InFlightIsOutstanding
<1>1. IInv => InFlightIsOutstanding
  BY DEF IInv
<1>2. QED
  BY <1>1, GuiInvariance, PTL

-----------------------------------------------------------------------------
(* GuiSurface implements WindowShow                                          *)

Stages == [w \in Win |-> Stage(w)]
OnWay  == [w \in Win |-> {b \in 1 .. made : Committed(w, b)}]

(* The pictures of a window are handed over in the order they were made, and  *)
(* the one it paints now is the newest.                                      *)
Newer ==
  /\ \A w \in Win : shm[w] # 0 => shown[w] <= shm[w]
  /\ \A i \in 1 .. Len(requests) : requests[i].type = "commit" =>
       /\ shown[requests[i].win] <= requests[i].buf
       /\ shm[requests[i].win] # 0 => requests[i].buf <= shm[requests[i].win]
       /\ \A j \in 1 .. Len(requests) :
            i <= j /\ requests[j].type = "commit" /\ requests[j].win = requests[i].win
              => requests[i].buf <= requests[j].buf

(* Who placed a window, and who agreed, knows it.                            *)
Told ==
  /\ \A i \in 1 .. Len(events) : events[i].type = "configure" => window[events[i].n] \in {"sent", "acked"}
  /\ \A i \in 1 .. Len(requests) : requests[i].type = "ack" => requests[i].n \in configured

Uses(w, b) == shm[w] = b \/ shown[w] = b \/ Committed(w, b)

JInv == IInv /\ OwnPicture /\ Newer /\ Told

LEMMA OwnIs == OwnPicture <=> \A v, w \in Win, b \in 1 .. made : Uses(v, b) /\ Uses(w, b) => v = w
  BY DEF OwnPicture, Uses

(* Where no window gets at another buffer, none gets at a foreign one.        *)
LEMMA OwnKept ==
  ASSUME OwnPicture, made' = made, \A w \in Win, b \in 1 .. made : Uses(w, b)' => Uses(w, b)
  PROVE  OwnPicture'
<1>1. \A v, w \in Win, b \in 1 .. made : Uses(v, b)' /\ Uses(w, b)' => v = w
  BY OwnIs
<1>2. QED
  BY <1>1 DEF OwnPicture, Uses

(* Where the commits under way stay as they are or end.                      *)
LEMMA NewerKept ==
  ASSUME Newer, shm' = shm, shown' = shown,
         \A i \in 1 .. Len(requests') : requests'[i].type = "commit" =>
           i \in 1 .. Len(requests) /\ requests'[i] = requests[i]
  PROVE  Newer'
  BY DEF Newer

LEMMA Numbered ==
  ASSUME IInv
  PROVE  /\ Types /\ made \in Nat
         /\ \A w \in Win : shm[w] \in 0 .. made /\ shown[w] \in 0 .. made
         /\ \A w \in Win : \A b : Committed(w, b) => b \in 1 .. made
         /\ \A i \in 1 .. Len(requests) : requests[i].type = "commit" =>
              requests[i].win \in Win /\ requests[i].buf \in 1 .. made
<1>1. Types /\ made \in Nat
  BY Scalars DEF IInv
<1>2. \A w \in Win : shm[w] \in 0 .. MaxBuf /\ shown[w] \in 0 .. MaxBuf /\ shm[w] <= made /\ shown[w] <= made
  BY <1>1 DEF IInv, Buffers, Types
<1>3. \A w \in Win : shm[w] \in 0 .. made /\ shown[w] \in 0 .. made
  BY <1>1, <1>2, Numbers
<1>4. \A i \in 1 .. Len(requests) : requests[i].type = "commit" =>
         requests[i].win \in Win /\ requests[i].buf \in 1 .. MaxBuf /\ requests[i].buf <= made
  BY <1>1, Queued, Kinds DEF IInv, Buffers
<1>5. \A i \in 1 .. Len(requests) : requests[i].type = "commit" =>
         requests[i].win \in Win /\ requests[i].buf \in 1 .. made
  BY <1>1, <1>4, Numbers
<1>6. QED
  BY <1>1, <1>3, <1>5 DEF Committed

(* Steps that do nothing to the socket.                                      *)
LEMMA CalmShow ==
  ASSUME JInv, Calm, pc' = "connect" <=> pc = "connect"
  PROVE  OwnPicture' /\ Newer' /\ Told' /\ UNCHANGED Show!vars
<1> USE DEF Calm, Steady
<1>1. OwnPicture' /\ Newer' /\ Told'
  BY DEF JInv, OwnPicture, Committed, Newer, Told
<1>2. Link' = Link
  BY DEF Link
<1>3. \A w \in Win : Stage(w)' = Stage(w)
  BY DEF Stage, Announced
<1>4. \A w \in Win : \A b : Committed(w, b)' <=> Committed(w, b)
  BY DEF Committed
<1>5. Stages' = Stages /\ OnWay' = OnWay
  BY <1>3, <1>4 DEF Stages, OnWay
<1>6. QED
  BY <1>1, <1>2, <1>5 DEF Show!vars, Stages, OnWay

(* The connection is closed, or was already.                                 *)
LEMMA DownShow ==
  ASSUME JInv, Down, pc' # "connect"
  PROVE  OwnPicture' /\ Newer' /\ Told' /\ [Show!Next]_(Show!vars)
<1> USE DEF Down, Steady
<1>1. Len(requests') = 0 /\ Len(events') = 0
  OBVIOUS
<1>2. \A w \in Win : \A b : ~Committed(w, b)'
  BY <1>1 DEF Committed
<1>3. OwnPicture'
  BY <1>2, OwnKept DEF JInv, Uses
<1>4. Newer' /\ Told'
  BY <1>1 DEF JInv, Newer, Told
<1>5. Link' = "over"
  BY DEF Link
<1>6. \A w \in Win : Stage(w)' = Stage(w) \/ (Stage(w) = "asked" /\ Stage(w)' = "none")
  BY <1>1 DEF Stage, Announced
<1>7. OnWay' = [w \in Win |-> {}]
  BY <1>2 DEF OnWay
<1>8. CASE Link = "over"
  <2>1. requests = <<>>
    BY <1>8 DEF Link, JInv, IInv, Offline
  <2>2. Len(requests) = 0
    BY <2>1
  <2>3. \A w \in Win : Stage(w)' = Stage(w)
    BY <1>1, <2>2 DEF Stage, Announced
  <2>4. OnWay = [w \in Win |-> {}]
    BY <2>2 DEF OnWay, Committed
  <2>5. Stages' = Stages
    BY <2>3 DEF Stages
  <2>6. QED
    BY <1>3, <1>4, <1>5, <1>7, <1>8, <2>4, <2>5 DEF Show!vars, Stages, OnWay
<1>9. CASE Link # "over"
  <2> DEFINE W == {w \in Win : Stage(w) = "asked" /\ Stage(w)' = "none"}
  <2>1. W \in SUBSET {w \in Win : Stages[w] = "asked"}
    BY DEF Stages
  <2>2. Stages' = [w \in Win |-> IF w \in W THEN "none" ELSE Stages[w]]
    BY <1>6 DEF Stages
  <2> HIDE DEF W
  <2>3. Show!Close
    BY <1>5, <1>7, <1>9, <2>1, <2>2 DEF Show!Close, Stages, OnWay
  <2>4. QED
    BY <1>3, <1>4, <2>3 DEF Show!Next
<1>10. QED
  BY <1>8, <1>9

LEMMA ConnectShow ==
  ASSUME JInv, Connect
  PROVE  OwnPicture' /\ Newer' /\ Told' /\ Show!Next
<1>1. Steady /\ requests' = requests /\ events' = events /\ up' = TRUE
      /\ pc = "connect" /\ pc' = "create"
  BY DEF Connect, Steady, surface, server
<1> USE <1>1 DEF Steady
<1>2. OwnPicture' /\ Newer' /\ Told'
  BY DEF JInv, OwnPicture, Committed, Newer, Told
<1>3. Link = "before" /\ Link' = "up"
  BY DEF Link
<1>4. \A w \in Win : Stage(w)' = Stage(w)
  BY DEF Stage, Announced
<1>5. \A w \in Win : \A b : Committed(w, b)' <=> Committed(w, b)
  BY DEF Committed
<1>6. Stages' = Stages /\ OnWay' = OnWay
  BY <1>4, <1>5 DEF Stages, OnWay
<1>7. Show!Connect
  BY <1>3, <1>6 DEF Show!Connect, Stages, OnWay
<1>8. QED
  BY <1>2, <1>7 DEF Show!Next

(* A window takes a new buffer, or none.                                     *)
LEMMA AllocateShow ==
  ASSUME JInv, EndCreate \/ ApiResize
  PROVE  OwnPicture' /\ Newer' /\ Told' /\ Show!Next
<1>1. PICK w \in Win :
        \/ made' = made + 1 /\ shm' = [shm EXCEPT ![w] = made + 1]
        \/ made' = made /\ shm' = [shm EXCEPT ![w] = 0]
  <2>1. CASE EndCreate
    <3>1. at \in Win
      BY <2>1, Scalars DEF EndCreate, JInv, IInv, Win
    <3>2. QED
      BY <2>1, <3>1 DEF EndCreate, Allocate, NewBuffer, NoBuffer
  <2>2. CASE ApiResize
    BY <2>2 DEF ApiResize, Resize, ResizeFails, Allocate, NewBuffer, NoBuffer
  <2>3. QED
    BY <2>1, <2>2
<1>2. AllocFrame /\ pc # "connect" /\ pc' # "connect"
  BY DEF EndCreate, ApiResize, Resize, ResizeFails, NextWindow, AllocFrame, socket, server, threads
<1> USE DEF AllocFrame
<1>3. /\ made \in Nat /\ made + 1 \notin 1 .. made /\ made + 1 # 0
      /\ \A v \in Win : shm[v] \in 0 .. made /\ shown[v] \in 0 .. made
      /\ \A v \in Win : \A b : Committed(v, b) => b \in 1 .. made
      /\ \A i \in 1 .. Len(requests) : requests[i].type = "commit" =>
           requests[i].win \in Win /\ requests[i].buf \in 1 .. made
      /\ shm \in [Win -> 0 .. MaxBuf]
  <2>1. made \in Nat /\ Types
    BY Numbered DEF JInv
  <2>2. made + 1 \notin 1 .. made /\ made + 1 # 0
    BY <2>1
  <2>3. QED
    BY <2>1, <2>2, Numbered DEF JInv, Types
<1>4. \A v \in Win : shm'[v] = IF v = w THEN shm'[w] ELSE shm[v]
  BY <1>1, <1>3
<1>5. \A v \in Win : \A b : Committed(v, b)' <=> Committed(v, b)
  BY <1>2 DEF Committed
<1>6. \/ made' = made + 1 /\ shm'[w] = made + 1 /\ 1 .. made' = 1 .. made \cup {made + 1}
      \/ made' = made /\ shm'[w] = 0
  BY <1>1, <1>3
<1>7. OwnPicture'
  <2>1. ASSUME NEW v \in Win, NEW u \in Win, NEW b \in 1 .. made', Uses(v, b)', Uses(u, b)'
        PROVE  v = u
    <3>1. CASE b \in 1 .. made
      <4>1. b # 0 /\ b # made + 1
        BY <1>3, <3>1
      <4>2. Uses(v, b) /\ Uses(u, b)
        BY <1>2, <1>4, <1>5, <1>6, <2>1, <4>1 DEF Uses
      <4>3. QED
        BY <3>1, <4>2, OwnIs DEF JInv
    <3>2. CASE b \notin 1 .. made
      <4>1. b = made + 1
        BY <1>6, <3>2
      <4>2. \A t \in Win : b \notin 0 .. made /\ shown[t] # b /\ shm[t] # b /\ ~Committed(t, b)
        BY <1>3, <4>1
      <4>3. v = w /\ u = w
        BY <1>2, <1>4, <1>5, <2>1, <4>2 DEF Uses
      <4>4. QED
        BY <4>3
    <3>3. QED
      BY <3>1, <3>2
  <2>2. QED
    BY <2>1 DEF OwnPicture, Uses
<1>8. Newer' /\ Told'
  <2>1. Told'
    BY <1>2 DEF JInv, Told
  <2>2. \A b \in 0 .. made : b <= made + 1
    BY <1>3
  <2>3. shm'[w] = made + 1 \/ shm'[w] = 0
    BY <1>6
  <2>4. \A v \in Win : shm'[v] # 0 => shown[v] <= shm'[v]
    BY <1>3, <1>4, <2>2, <2>3 DEF JInv, Newer
  <2>5. \A i \in 1 .. Len(requests) : requests[i].type = "commit" =>
          (shm'[requests[i].win] # 0 => requests[i].buf <= shm'[requests[i].win])
    BY <1>3, <1>4, <2>2, <2>3 DEF JInv, Newer
  <2>6. QED
    BY <1>2, <2>1, <2>4, <2>5 DEF JInv, Newer
<1>9. Link' = Link /\ Link # "before"
  BY <1>2 DEF Link
<1>10. \A v \in Win : Stage(v)' = Stage(v)
  BY <1>2 DEF Stage, Announced
<1>11. Stages' = Stages
  BY <1>10 DEF Stages
<1>12. OnWay' = OnWay
  <2>1. \A v \in Win : {b \in 1 .. made' : Committed(v, b)'} = {b \in 1 .. made : Committed(v, b)}
    BY <1>3, <1>5, <1>6
  <2>2. QED
    BY <2>1 DEF OnWay
<1>13. Show!Take(w)
  BY <1>1, <1>2, <1>9, <1>11, <1>12 DEF Show!Take, Stages, OnWay
<1>14. QED
  BY <1>7, <1>8, <1>13 DEF Show!Next

(* Only syncs, creations, pongs and events join what is under way.            *)
LEMMA SocketShow ==
  ASSUME JInv, UNCHANGED <<shm, made, shown, window, configured>>,
         \A i \in 1 .. Len(requests) : i \in 1 .. Len(requests') /\ requests'[i] = requests[i],
         \A i \in 1 .. Len(requests') : requests'[i].type \in {"commit", "ack"} =>
           i \in 1 .. Len(requests) /\ requests'[i] = requests[i],
         \A i \in 1 .. Len(events') : events'[i].type = "configure" =>
           \E j \in 1 .. Len(events) : events[j] = events'[i]
  PROVE  OwnPicture' /\ Newer' /\ Told' /\ OnWay' = OnWay
<1>1. \A w \in Win : \A b : Committed(w, b)' <=> Committed(w, b)
  BY DEF Committed
<1>2. OwnPicture'
  BY <1>1, OwnKept DEF JInv, Uses
<1>3. Newer'
  BY NewerKept DEF JInv
<1>4. Told'
  BY DEF JInv, Told
<1>5. OnWay' = OnWay
  BY <1>1 DEF OnWay
<1>6. QED
  BY <1>2, <1>3, <1>4, <1>5

LEMMA RequestSent ==
  ASSUME Types, NEW e \in Req, requests' = IF up THEN requests \o <<e>> ELSE requests
  PROVE  /\ \A i \in 1 .. Len(requests) : i \in 1 .. Len(requests') /\ requests'[i] = requests[i]
         /\ \A i \in 1 .. Len(requests') :
              \/ i \in 1 .. Len(requests) /\ requests'[i] = requests[i]
              \/ up /\ i = Len(requests) + 1 /\ requests'[i] = e
         /\ up => Len(requests) + 1 \in 1 .. Len(requests') /\ requests'[Len(requests) + 1] = e
<1>1. CASE up
  <2>1. requests \in Seq(Req)
    BY Queued
  <2>2. requests' = Append(requests, e)
    BY <1>1, <2>1, AppendPlaces
  <2>3. QED
    BY <1>1, <2>2, RequestQueued
<1>2. CASE ~up
  BY <1>2
<1>3. QED
  BY <1>1, <1>2

LEMMA DispatchShow ==
  ASSUME JInv, BeginDispatch
  PROVE  OwnPicture' /\ Newer' /\ Told' /\ UNCHANGED Show!vars
<1> DEFINE e == Msg("sync", 0)
<1>1. /\ UNCHANGED <<shm, made, shown, window, configured, events, up>>
      /\ pc # "connect" /\ pc' # "connect"
      /\ requests' = IF up THEN requests \o <<e>> ELSE requests
  BY DEF BeginDispatch, Send, surface, server
<1>2. Types /\ e \in Req /\ e.type = "sync"
  BY Made DEF JInv, IInv
<1> HIDE DEF e
<1>3. /\ \A i \in 1 .. Len(requests) : i \in 1 .. Len(requests') /\ requests'[i] = requests[i]
      /\ \A i \in 1 .. Len(requests') :
           (i \in 1 .. Len(requests) /\ requests'[i] = requests[i]) \/ requests'[i].type = "sync"
  BY <1>1, <1>2, RequestSent
<1>4. OwnPicture' /\ Newer' /\ Told' /\ OnWay' = OnWay
  BY <1>1, <1>3, SocketShow
<1>5. \A w \in Win : Stage(w)' = Stage(w)
  <2>1. \A w \in Win : Announced(w)' <=> Announced(w)
    BY <1>3 DEF Announced
  <2>2. QED
    BY <1>1, <2>1 DEF Stage
<1>6. Stages' = Stages /\ Link' = Link
  BY <1>1, <1>5 DEF Stages, Link
<1>7. QED
  BY <1>1, <1>4, <1>6 DEF Show!vars, Stages, OnWay

LEMMA CreateShow ==
  ASSUME JInv, BeginCreate
  PROVE  OwnPicture' /\ Newer' /\ Told' /\ [Show!Next]_(Show!vars)
<1> DEFINE s == Msg("sync", 0)
<1>0. PICK k, c : k = at /\ c = Msg("create", k)
  OBVIOUS
<1> DEFINE q == Append(requests, c)
<1>1. /\ UNCHANGED <<shm, made, shown, window, configured, events, up>>
      /\ pc = "create" /\ pc' = "buffer"
      /\ requests' = IF up THEN requests \o <<c, s>> ELSE requests
  BY <1>0 DEF BeginCreate, Send, surface, server
<1>2. k \in Win /\ k \in 0 .. N /\ Types
  BY <1>0, Scalars, Numbers DEF JInv, IInv, BeginCreate, Win
<1>3. c \in Req /\ c.type = "create" /\ c.n = k /\ s \in Req /\ s.type = "sync"
  BY <1>0, <1>2, Made
<1>4. CASE ~up
  <2>1. OwnPicture' /\ Newer' /\ Told' /\ OnWay' = OnWay
    BY <1>1, <1>4, SocketShow
  <2>2. \A w \in Win : Stage(w)' = Stage(w)
    BY <1>1, <1>4 DEF Stage, Announced
  <2>3. Stages' = Stages /\ Link' = Link
    BY <1>1, <1>4, <2>2 DEF Stages, Link
  <2>4. QED
    BY <1>1, <2>1, <2>3 DEF Show!vars, Stages, OnWay
<1>5. CASE up
  <2>1. requests \in Seq(Req) /\ q \in Seq(Req) /\ requests' = Append(q, s) /\ Len(requests) \in Nat
    BY <1>1, <1>2, <1>3, <1>5, Queued, AppendTwo, AppendPlaces
  <2>2. /\ \A i \in 1 .. Len(requests) : i \in 1 .. Len(q) /\ q[i] = requests[i]
        /\ \A i \in 1 .. Len(q) : i \in 1 .. Len(requests) \/ q[i] = c
        /\ Len(requests) + 1 \in 1 .. Len(q) /\ q[Len(requests) + 1] = c
    BY <1>3, <2>1, AppendPlaces
  <2> HIDE DEF s, q
  <2>3. /\ \A i \in 1 .. Len(q) : i \in 1 .. Len(requests') /\ requests'[i] = q[i]
        /\ \A i \in 1 .. Len(requests') : (i \in 1 .. Len(q) /\ requests'[i] = q[i]) \/ requests'[i] = s
    BY <1>3, <2>1, AppendPlaces
  <2>4. /\ \A i \in 1 .. Len(requests) : i \in 1 .. Len(requests') /\ requests'[i] = requests[i]
        /\ \A i \in 1 .. Len(requests') :
             \/ i \in 1 .. Len(requests) /\ requests'[i] = requests[i]
             \/ requests'[i] = c \/ requests'[i] = s
        /\ \E i \in 1 .. Len(requests') : requests'[i] = c
    BY <2>2, <2>3
  <2>5. OwnPicture' /\ Newer' /\ Told' /\ OnWay' = OnWay
    <3>1. \A i \in 1 .. Len(requests') : requests'[i].type \in {"commit", "ack"} =>
            i \in 1 .. Len(requests) /\ requests'[i] = requests[i]
      BY <1>3, <2>4
    <3>2. QED
      BY <1>1, <2>4, <3>1, SocketShow
  <2>6. ~Begun(k)
    BY <1>0, <1>1, <1>2 DEF Begun, Win
  <2>7. Fresh(k) /\ \A i \in 1 .. Len(requests) : ~IsCreate(i, k)
    BY <1>2, <2>6 DEF JInv, IInv, Order
  <2>8. \A w \in Win : Announced(w)' <=> Announced(w) \/ w = k
    BY <1>3, <2>4 DEF Announced
  <2>9. Stage(k) = "none" /\ Stage(k)' = "asked"
    BY <1>1, <1>2, <2>7, <2>8 DEF Stage, Announced, Fresh, IsCreate
  <2>10. \A w \in Win : w # k => Stage(w)' = Stage(w)
    BY <1>1, <2>8 DEF Stage
  <2>11. Stages' = [Stages EXCEPT ![k] = "asked"] /\ Stages[k] = "none"
    BY <1>2, <2>9, <2>10 DEF Stages
  <2>12. Link = "up" /\ Link' = "up"
    BY <1>1, <1>5 DEF Link
  <2>13. Show!Announce(k)
    BY <1>1, <2>5, <2>11, <2>12 DEF Show!Announce, Show!Move, Stages, OnWay
  <2>14. QED
    BY <1>2, <2>5, <2>13 DEF Show!Next
<1>6. QED
  BY <1>4, <1>5

(* A picture is handed over.                                                 *)
LEMMA UpdateShow ==
  ASSUME JInv, NEW w \in Win, UpdatePixels(w)
  PROVE  OwnPicture' /\ Newer' /\ Told' /\ [Show!Next]_(Show!vars)
<1>1. PICK b, c : b = shm[w] /\ c = Commit(w, b)
  OBVIOUS
<1>2. /\ UNCHANGED <<shm, made, shown, window, configured, events, up, pc>>
      /\ pc = "update" /\ w \in configured /\ b # 0
      /\ requests' = IF up THEN requests \o <<c>> ELSE requests
  BY <1>1 DEF UpdatePixels, Dirty, Advance, Send, server
<1>3. Types /\ dims[w] \in Dims /\ b \in 1 .. made /\ b \in 1 .. MaxBuf /\ made \in Nat
  <2>1. Types /\ dims[w] \in Dims /\ b \in 0 .. made /\ b \in 0 .. MaxBuf /\ made \in Nat
    BY <1>1, Numbered DEF JInv, Types
  <2>2. QED
    BY <1>2, <2>1, Numbers
<1>4. c \in Req /\ c.type = "commit" /\ c.win = w /\ c.buf = b
  BY <1>1, <1>3 DEF Commit, Frames, Req
<1>5. /\ \A i \in 1 .. Len(requests) : i \in 1 .. Len(requests') /\ requests'[i] = requests[i]
      /\ \A i \in 1 .. Len(requests') :
           \/ i \in 1 .. Len(requests) /\ requests'[i] = requests[i]
           \/ up /\ i = Len(requests) + 1 /\ requests'[i] = c
      /\ up => Len(requests) + 1 \in 1 .. Len(requests') /\ requests'[Len(requests) + 1] = c
  BY <1>2, <1>3, <1>4, RequestSent
<1>6. \A v \in Win : \A k : Committed(v, k)' <=> Committed(v, k) \/ (up /\ v = w /\ k = b)
  BY <1>4, <1>5 DEF Committed
<1>7. OwnPicture'
  <2>1. \A v \in Win, k \in 1 .. made : Uses(v, k)' => Uses(v, k)
    BY <1>1, <1>2, <1>6 DEF Uses
  <2>2. QED
    BY <1>2, <2>1, OwnKept DEF JInv
<1>8. Told'
  BY <1>2, <1>4, <1>5 DEF JInv, Told
<1>9. Newer'
  <2>1. Len(requests) \in Nat /\ b <= b /\ shown[w] <= b
    BY <1>1, <1>2, <1>3, Queued DEF JInv, Newer
  <2>2. ASSUME NEW i \in 1 .. Len(requests'), requests'[i].type = "commit"
        PROVE  /\ shown[requests'[i].win] <= requests'[i].buf
               /\ shm[requests'[i].win] # 0 => requests'[i].buf <= shm[requests'[i].win]
    BY <1>1, <1>4, <1>5, <2>1, <2>2 DEF JInv, Newer
  <2>3. ASSUME NEW i \in 1 .. Len(requests'), requests'[i].type = "commit",
               NEW j \in 1 .. Len(requests'), i <= j, requests'[j].type = "commit",
               requests'[j].win = requests'[i].win
        PROVE  requests'[i].buf <= requests'[j].buf
    <3>1. CASE j \in 1 .. Len(requests)
      <4>1. i \in 1 .. Len(requests)
        BY <2>1, <2>3, <3>1
      <4>2. QED
        BY <1>5, <2>3, <3>1, <4>1 DEF JInv, Newer
    <3>2. CASE requests'[j] = c
      <4>1. requests'[j].buf = b /\ requests'[i].win = w /\ shm[w] # 0
        BY <1>1, <1>2, <1>4, <2>3, <3>2
      <4>2. requests'[i].buf <= b
        BY <1>1, <2>2, <2>3, <4>1
      <4>3. QED
        BY <4>1, <4>2
    <3>3. QED
      BY <1>5, <3>1, <3>2
  <2>4. QED
    BY <1>2, <2>2, <2>3 DEF JInv, Newer
<1>10. Stages' = Stages /\ Stages[w] = "agreed" /\ Link' = Link
  <2>1. \A v \in Win : Announced(v)' <=> Announced(v)
    BY <1>4, <1>5 DEF Announced
  <2>2. \A v \in Win : Stage(v)' = Stage(v)
    BY <1>2, <2>1 DEF Stage
  <2>3. Stage(w) = "agreed"
    BY <1>2 DEF Stage
  <2>4. QED
    BY <1>2, <2>2, <2>3 DEF Stages, Link
<1>11. CASE ~up
  <2>1. OnWay' = OnWay
    BY <1>2, <1>6, <1>11 DEF OnWay
  <2>2. QED
    BY <1>2, <1>7, <1>8, <1>9, <1>10, <2>1 DEF Show!vars, Stages, OnWay
<1>12. CASE up
  <2>1. \A v \in Win : {k \in 1 .. made : Committed(v, k)'} =
          IF v = w THEN {k \in 1 .. made : Committed(v, k)} \cup {b} ELSE {k \in 1 .. made : Committed(v, k)}
    BY <1>3, <1>6, <1>12
  <2>2. OnWay' = [OnWay EXCEPT ![w] = @ \cup {shm[w]}]
    BY <1>1, <1>2, <2>1 DEF OnWay
  <2>3. Link = "up"
    BY <1>2, <1>12 DEF Link
  <2>4. Show!Hand(w)
    BY <1>1, <1>2, <1>10, <2>2, <2>3 DEF Show!Hand, Stages, OnWay
  <2>5. QED
    BY <1>7, <1>8, <1>9, <2>4 DEF Show!Next
<1>13. QED
  BY <1>11, <1>12

(* An event is handled: a configure event is agreed to, if it is the first.   *)
LEMMA EventShow ==
  ASSUME JInv, HandleEvent
  PROVE  OwnPicture' /\ Newer' /\ Told' /\ [Show!Next]_(Show!vars)
<1>1. PICK e, a : /\ e = Head(events)
                  /\ a = IF e.type = "configure" THEN Msg("ack", e.n) ELSE Msg("pong", 0)
  OBVIOUS
<1>2. /\ UNCHANGED <<shm, made, shown, window, up>>
      /\ pc # "connect" /\ pc' # "connect" /\ events # <<>> /\ events' = Tail(events)
      /\ configured' = IF e.type = "configure" THEN configured \cup {e.n} ELSE configured
      /\ requests' = IF up /\ e.type \in {"configure", "ping"} THEN requests \o <<a>> ELSE requests
  <2>1. CASE e.type = "configure"
    BY <1>1, <2>1 DEF HandleEvent, threads, server, Send
  <2>2. CASE e.type = "ping"
    BY <1>1, <2>2 DEF HandleEvent, threads, server, Send
  <2>3. CASE e.type \notin {"configure", "ping"}
    BY <1>1, <2>3 DEF HandleEvent, threads, server, Send
  <2>4. QED
    BY <2>1, <2>2, <2>3
<1>3. /\ Types /\ up
      /\ 1 \in 1 .. Len(events) /\ e = events[1] /\ e \in Event
      /\ \A i \in 1 .. Len(events') : i + 1 \in 1 .. Len(events) /\ events'[i] = events[i + 1]
  <2>1. Types /\ events \in Seq(Event) /\ up
    BY <1>2, Queued DEF JInv, IInv, Offline
  <2>2. QED
    BY <1>1, <1>2, <2>1, TailPlaces
<1>4. e.type = "configure" => e.n \in Win /\ e.n \in 0 .. N /\ window[e.n] \in {"sent", "acked"}
  BY <1>3, Numbers DEF JInv, IInv, Buffers, Told, Win
<1>5. /\ \A i \in 1 .. Len(requests) : i \in 1 .. Len(requests') /\ requests'[i] = requests[i]
      /\ \A i \in 1 .. Len(requests') :
           \/ i \in 1 .. Len(requests) /\ requests'[i] = requests[i]
           \/ e.type = "configure" /\ requests'[i].type = "ack" /\ requests'[i].n = e.n
           \/ requests'[i].type = "pong"
  <2>1. CASE e.type = "configure"
    <3>1. a \in Req /\ a.type = "ack" /\ a.n = e.n
      BY <1>1, <1>4, <2>1, Made
    <3>2. requests' = IF up THEN requests \o <<a>> ELSE requests
      BY <1>2, <2>1
    <3>3. QED
      BY <1>3, <2>1, <3>1, <3>2, RequestSent
  <2>2. CASE e.type = "ping"
    <3>1. a \in Req /\ a.type = "pong"
      BY <1>1, <2>2, Made
    <3>2. requests' = IF up THEN requests \o <<a>> ELSE requests
      BY <1>2, <2>2
    <3>3. QED
      BY <1>3, <3>1, <3>2, RequestSent
  <2>3. CASE e.type \notin {"configure", "ping"}
    BY <1>2, <2>3
  <2>4. QED
    BY <2>1, <2>2, <2>3
<1>6. configured \subseteq configured' /\ (e.type = "configure" => e.n \in configured')
  BY <1>2
<1>7. OnWay' = OnWay /\ OwnPicture'
  <2>1. \A v \in Win : \A b : Committed(v, b)' <=> Committed(v, b)
    BY <1>5 DEF Committed
  <2>2. QED
    BY <1>2, <2>1, OwnKept DEF JInv, Uses, OnWay
<1>8. Newer'
  BY <1>2, <1>5, NewerKept DEF JInv
<1>9. Told'
  <2>1. \A i \in 1 .. Len(events') : events'[i].type = "configure" => window[events'[i].n] \in {"sent", "acked"}
    BY <1>3 DEF JInv, Told
  <2>2. \A i \in 1 .. Len(requests') : requests'[i].type = "ack" => requests'[i].n \in configured'
    BY <1>5, <1>6 DEF JInv, Told
  <2>3. QED
    BY <1>2, <2>1, <2>2 DEF Told
<1>10. Link' = "up" /\ Link = "up"
  BY <1>2, <1>3 DEF Link
<1>11. \A v \in Win : Announced(v)' <=> Announced(v)
  BY <1>5 DEF Announced
<1>12. CASE configured' = configured
  <2>1. \A v \in Win : Stage(v)' = Stage(v)
    BY <1>2, <1>11, <1>12 DEF Stage
  <2>2. QED
    BY <1>2, <1>7, <1>8, <1>9, <1>10, <2>1 DEF Show!vars, Stages, OnWay
<1>13. CASE configured' # configured
  <2>1. PICK w \in Win : /\ e.type = "configure" /\ w = e.n /\ w \notin configured
                         /\ configured' = configured \cup {w}
    BY <1>2, <1>4, <1>13
  <2>2. Stage(w) = "placed" /\ Stage(w)' = "agreed"
    BY <1>4, <2>1 DEF Stage
  <2>3. \A v \in Win : v # w => Stage(v)' = Stage(v)
    BY <1>2, <1>11, <2>1 DEF Stage
  <2>4. Stages' = [Stages EXCEPT ![w] = "agreed"] /\ Stages[w] = "placed"
    BY <2>2, <2>3 DEF Stages
  <2>5. Show!Agree(w)
    BY <1>2, <1>7, <1>10, <2>4 DEF Show!Agree, Show!Move, Stages, OnWay
  <2>6. QED
    BY <1>7, <1>8, <1>9, <2>5 DEF Show!Next
<1>14. QED
  BY <1>12, <1>13

-----------------------------------------------------------------------------
(* The compositor                                                            *)

LEMMA FirstConfigureShow ==
  ASSUME JInv, NEW w \in Win, FirstConfigure(w)
  PROVE  OwnPicture' /\ Newer' /\ Told' /\ [Show!Next]_(Show!vars)
<1>1. PICK e : e = Msg("configure", w)
  OBVIOUS
<1>2. /\ UNCHANGED <<shm, made, shown, configured, requests, up, pc>>
      /\ up /\ window[w] = "new" /\ window' = [window EXCEPT ![w] = "sent"]
      /\ events' = Append(events, e)
  BY <1>1 DEF FirstConfigure, threads, surface
<1>3. Types /\ e \in Event /\ e.type = "configure" /\ e.n = w
  BY <1>1, Numbers, Made DEF JInv, IInv, Win
<1>4. window'[w] = "sent" /\ \A v \in Win : v # w => window'[v] = window[v]
  BY <1>2, <1>3 DEF Types
<1>5. \A i \in 1 .. Len(events') : (i \in 1 .. Len(events) /\ events'[i] = events[i]) \/ events'[i] = e
  BY <1>2, <1>3, EventQueued
<1>6. OwnPicture' /\ Newer' /\ OnWay' = OnWay
  BY <1>2 DEF JInv, OwnPicture, Committed, Newer, OnWay
<1>7. Told'
  <2>1. \A i \in 1 .. Len(events) : events[i].type = "configure" => events[i].n \in Win
    BY DEF JInv, IInv, Buffers
  <2>2. \A i \in 1 .. Len(events') : events'[i].type = "configure" => window'[events'[i].n] \in {"sent", "acked"}
    BY <1>3, <1>4, <1>5, <2>1 DEF JInv, Told
  <2>3. QED
    BY <1>2, <2>2 DEF JInv, Told
<1>8. Link = "up" /\ Link' = "up"
  BY <1>2 DEF Link, JInv, IInv, Offline
<1>9. \A v \in Win : v # w => Stage(v)' = Stage(v)
  BY <1>2, <1>4 DEF Stage, Announced
<1>10. CASE w \in configured
  <2>1. Stage(w)' = Stage(w)
    BY <1>2, <1>10 DEF Stage
  <2>2. Stages' = Stages
    BY <1>9, <2>1 DEF Stages
  <2>3. QED
    BY <1>2, <1>6, <1>7, <1>8, <2>2 DEF Show!vars, Stages, OnWay
<1>11. CASE w \notin configured
  <2>1. Stage(w) = "asked" /\ Stage(w)' = "placed"
    BY <1>2, <1>4, <1>11 DEF Stage
  <2>2. Stages' = [Stages EXCEPT ![w] = "placed"] /\ Stages[w] = "asked"
    BY <1>9, <2>1 DEF Stages
  <2>3. Show!Place(w)
    BY <1>2, <1>6, <1>8, <2>2 DEF Show!Place, Show!Move, Stages, OnWay
  <2>4. QED
    BY <1>6, <1>7, <2>3 DEF Show!Next
<1>12. QED
  BY <1>10, <1>11

LEMMA NewsShow ==
  ASSUME JInv, Ping \/ \E b \in 1 .. MaxBuf : ReleaseBuffer(b)
  PROVE  OwnPicture' /\ Newer' /\ Told' /\ UNCHANGED Show!vars
<1>1. PICK e \in Event :
        /\ UNCHANGED <<shm, made, shown, window, configured, requests, up, pc>>
        /\ e.type # "configure" /\ events' = Append(events, e)
  <2>1. CASE Ping
    BY <2>1, Made DEF Ping, threads, surface
  <2>2. ASSUME NEW b \in 1 .. MaxBuf, ReleaseBuffer(b)
        PROVE  /\ UNCHANGED <<shm, made, shown, window, configured, requests, up, pc>>
               /\ Msg("release", b) \in Event /\ Msg("release", b).type # "configure"
               /\ events' = Append(events, Msg("release", b))
    BY <2>2, Numbers, Made DEF ReleaseBuffer, threads, surface
  <2>3. QED
    BY <2>1, <2>2
<1>2. Types
  BY DEF JInv, IInv
<1>3. \A i \in 1 .. Len(events') : (i \in 1 .. Len(events) /\ events'[i] = events[i]) \/ events'[i] = e
  BY <1>1, <1>2, EventQueued
<1>4. OwnPicture' /\ Newer' /\ Told' /\ OnWay' = OnWay
  BY <1>1, <1>3, SocketShow
<1>5. \A w \in Win : Stage(w)' = Stage(w)
  BY <1>1 DEF Stage, Announced
<1>6. Stages' = Stages /\ Link' = Link
  BY <1>1, <1>5 DEF Stages, Link
<1>7. QED
  BY <1>1, <1>4, <1>6 DEF Show!vars, Stages, OnWay

LEMMA ServeShow ==
  ASSUME JInv, Serve
  PROVE  OwnPicture' /\ Newer' /\ Told' /\ [Show!Next]_(Show!vars)
<1>1. PICK m : m = Head(requests)
  OBVIOUS
<1>2. /\ UNCHANGED <<shm, made, configured, up, pc>>
      /\ up /\ requests # <<>> /\ requests' = Tail(requests)
      /\ window' = CASE m.type = "create" -> [window EXCEPT ![m.n] = "new"]
                     [] m.type = "ack"    -> [window EXCEPT ![m.n] = "acked"]
                     [] OTHER             -> window
      /\ shown' = IF m.type = "commit" THEN [shown EXCEPT ![m.win] = m.buf] ELSE shown
      /\ events' = IF m.type = "sync" THEN Append(events, Msg("done", 0)) ELSE events
  BY <1>1 DEF Serve, threads, surface
<1>3. /\ Types /\ 1 \in 1 .. Len(requests) /\ m = requests[1] /\ m \in Req
      /\ \A i \in 1 .. Len(requests') : i + 1 \in 1 .. Len(requests) /\ requests'[i] = requests[i + 1]
      /\ \A i \in 1 .. Len(requests) :
           i = 1 \/ (i - 1 \in 1 .. Len(requests') /\ requests'[i - 1] = requests[i])
      /\ Len(requests) \in Nat /\ requests' \in Seq(Req) /\ Len(requests') \in Nat
  <2>1. Types /\ requests \in Seq(Req)
    BY Queued DEF JInv, IInv
  <2>2. requests' \in Seq(Req)
    BY <1>2, <2>1, TailPlaces
  <2>3. QED
    BY <1>1, <1>2, <2>1, <2>2, TailPlaces, LenProperties
<1>4. m.type = "commit" => m.win \in Win /\ m.buf \in 1 .. made
  BY <1>3, Numbered DEF JInv
<1>5. \A i \in 1 .. Len(events') : (i \in 1 .. Len(events) /\ events'[i] = events[i]) \/ events'[i].type = "done"
  <2>1. CASE m.type # "sync"
    BY <1>2, <2>1
  <2>2. CASE m.type = "sync"
    <3>1. Msg("done", 0) \in Event /\ Msg("done", 0).type = "done"
      BY Made
    <3>2. events' = Append(events, Msg("done", 0))
      BY <1>2, <2>2
    <3>3. QED
      BY <1>3, <3>1, <3>2, EventQueued
  <2>3. QED
    BY <2>1, <2>2
<1>6. \A w \in Win : window'[w] = IF m.type = "create" /\ m.n = w THEN "new"
                                  ELSE IF m.type = "ack" /\ m.n = w THEN "acked" ELSE window[w]
  BY <1>2, <1>3 DEF Types
<1>7. \A w \in Win : shown'[w] = IF m.type = "commit" /\ m.win = w THEN m.buf ELSE shown[w]
  BY <1>2, <1>3 DEF Types
<1>8. \A w \in Win : m.type = "create" /\ m.n = w => Fresh(w)
  BY <1>3 DEF JInv, IInv, Order, IsCreate
<1>9. \A w \in Win : \A b :
        Committed(w, b) <=> Committed(w, b)' \/ (m.type = "commit" /\ m.win = w /\ m.buf = b)
  <2>1. ASSUME NEW w \in Win, NEW b, NEW i \in 1 .. Len(requests),
               requests[i].type = "commit" /\ requests[i].win = w /\ requests[i].buf = b
        PROVE  Committed(w, b)' \/ (m.type = "commit" /\ m.win = w /\ m.buf = b)
    <3>1. CASE i = 1
      BY <1>3, <2>1, <3>1
    <3>2. CASE i # 1
      BY <1>3, <2>1, <3>2 DEF Committed
    <3>3. QED
      BY <3>1, <3>2
  <2>2. ASSUME NEW w \in Win, NEW b, NEW i \in 1 .. Len(requests'),
               requests'[i].type = "commit" /\ requests'[i].win = w /\ requests'[i].buf = b
        PROVE  Committed(w, b)
    BY <1>3, <2>2 DEF Committed
  <2>3. ASSUME NEW w \in Win, NEW b, m.type = "commit" /\ m.win = w /\ m.buf = b
        PROVE  Committed(w, b)
    BY <1>3, <2>3 DEF Committed
  <2>4. QED
    BY <2>1, <2>2, <2>3 DEF Committed
<1>10. OwnPicture'
  <2>1. \A w \in Win, b \in 1 .. made : Uses(w, b)' => Uses(w, b)
    BY <1>2, <1>7, <1>9 DEF Uses
  <2>2. QED
    BY <1>2, <2>1, OwnKept DEF JInv
<1>11. Told'
  <2>1. ASSUME NEW i \in 1 .. Len(events'), events'[i].type = "configure"
        PROVE  window'[events'[i].n] \in {"sent", "acked"}
    <3>1. i \in 1 .. Len(events) /\ events'[i] = events[i] /\ events[i].type = "configure"
      BY <1>5, <2>1
    <3>2. events[i].n \in Win /\ window[events[i].n] \in {"sent", "acked"}
      BY <3>1 DEF JInv, IInv, Buffers, Told
    <3>3. ~(m.type = "create" /\ m.n = events[i].n)
      BY <1>8, <3>1, <3>2 DEF Fresh
    <3>4. QED
      BY <1>6, <3>1, <3>2, <3>3
  <2>2. \A i \in 1 .. Len(requests') : requests'[i].type = "ack" => requests'[i].n \in configured
    BY <1>3 DEF JInv, Told
  <2>3. QED
    BY <1>2, <2>1, <2>2 DEF Told
<1>12. Newer'
  <2>1. ASSUME NEW w \in Win, shm[w] # 0 PROVE shown'[w] <= shm[w]
    BY <1>3, <1>7, <2>1 DEF JInv, Newer
  <2>2. ASSUME NEW i \in 1 .. Len(requests'), requests'[i].type = "commit"
        PROVE  /\ shown'[requests'[i].win] <= requests'[i].buf
               /\ shm[requests'[i].win] # 0 => requests'[i].buf <= shm[requests'[i].win]
    <3>1. PICK k : k = i + 1 /\ k \in 1 .. Len(requests) /\ requests'[i] = requests[k] /\ 1 <= k
      BY <1>3, <2>2
    <3>2. requests[k].win \in Win
      BY <2>2, <3>1, Numbered DEF JInv
    <3>3. m.type = "commit" /\ m.win = requests[k].win => m.buf <= requests[k].buf
      BY <1>3, <2>2, <3>1 DEF JInv, Newer
    <3>4. /\ shown[requests[k].win] <= requests[k].buf
          /\ shm[requests[k].win] # 0 => requests[k].buf <= shm[requests[k].win]
      BY <2>2, <3>1 DEF JInv, Newer
    <3>5. QED
      BY <1>7, <3>1, <3>2, <3>3, <3>4
  <2>3. ASSUME NEW i \in 1 .. Len(requests'), requests'[i].type = "commit",
               NEW j \in 1 .. Len(requests'), i <= j, requests'[j].type = "commit",
               requests'[j].win = requests'[i].win
        PROVE  requests'[i].buf <= requests'[j].buf
    <3>1. PICK k, l : /\ k \in 1 .. Len(requests) /\ requests'[i] = requests[k]
                      /\ l \in 1 .. Len(requests) /\ requests'[j] = requests[l]
                      /\ k <= l
      <4>1. i + 1 <= j + 1
        BY <1>3, <2>3
      <4>2. QED
        BY <1>3, <2>3, <4>1
    <3>2. QED
      BY <2>3, <3>1 DEF JInv, Newer
  <2>4. QED
    BY <1>2, <2>1, <2>2, <2>3 DEF Newer
<1>13. Link = "up" /\ Link' = "up"
  BY <1>2 DEF Link, JInv, IInv, Offline
<1>14. Stages' = Stages
  <2>1. ASSUME NEW v \in Win, NEW i \in 1 .. Len(requests), requests[i].type = "create", requests[i].n = v,
               ~(m.type = "create" /\ m.n = v)
        PROVE  Announced(v)'
    BY <1>3, <2>1 DEF Announced
  <2>2. \A v \in Win : Announced(v)' => Announced(v)
    BY <1>3 DEF Announced
  <2>3. \A v \in Win : ~(m.type = "create" /\ m.n = v) => (Announced(v)' <=> Announced(v))
    BY <2>1, <2>2 DEF Announced
  <2>4. ASSUME NEW v \in Win PROVE Stage(v)' = Stage(v)
    <3>1. CASE m.type = "create" /\ m.n = v
      <4>1. window[v] = "none" /\ v \notin configured /\ window'[v] = "new" /\ Announced(v)
        BY <1>3, <1>6, <1>8, <3>1 DEF Fresh, Announced
      <4>2. QED
        BY <1>2, <4>1 DEF Stage
    <3>2. CASE m.type = "ack" /\ m.n = v
      <4>1. v \in configured
        BY <1>3, <3>2 DEF JInv, Told
      <4>2. QED
        BY <1>2, <4>1 DEF Stage
    <3>3. CASE ~(m.type = "create" /\ m.n = v) /\ ~(m.type = "ack" /\ m.n = v)
      BY <1>2, <1>6, <2>3, <3>3 DEF Stage
    <3>4. QED
      BY <3>1, <3>2, <3>3
  <2>5. QED
    BY <2>4 DEF Stages
<1>15. CASE m.type = "commit"
  <2>1. PICK w \in Win, b \in 1 .. made : w = m.win /\ b = m.buf
    BY <1>4, <1>15
  <2>2. shown' = [shown EXCEPT ![w] = b] /\ b >= shown[w]
    <3>1. shown[w] <= b
      BY <1>3, <1>15, <2>1 DEF JInv, Newer
    <3>2. shown[w] \in Nat /\ b \in Nat
      BY Numbered DEF JInv
    <3>3. QED
      BY <1>2, <1>15, <2>1, <3>1, <3>2
  <2>3. b \in OnWay[w]
    BY <1>9, <1>15, <2>1 DEF OnWay
  <2>4. \A v \in Win : v # w => {k \in 1 .. made : Committed(v, k)'} = {k \in 1 .. made : Committed(v, k)}
    BY <1>9, <2>1
  <2>5. CASE Committed(w, b)'
    <3>1. {k \in 1 .. made : Committed(w, k)'} = {k \in 1 .. made : Committed(w, k)}
      BY <1>9, <2>1, <2>5
    <3>2. OnWay' = OnWay
      BY <1>2, <2>4, <3>1 DEF OnWay
    <3>3. Show!Show(w)
      BY <1>2, <1>13, <1>14, <2>2, <2>3, <3>2 DEF Show!Show, Stages, OnWay
    <3>4. QED
      BY <1>10, <1>11, <1>12, <3>3 DEF Show!Next
  <2>6. CASE ~Committed(w, b)'
    <3>1. {k \in 1 .. made : Committed(w, k)'} = {k \in 1 .. made : Committed(w, k)} \ {b}
      BY <1>9, <1>15, <2>1, <2>6
    <3>2. OnWay' = [OnWay EXCEPT ![w] = @ \ {b}]
      BY <1>2, <2>4, <3>1 DEF OnWay
    <3>3. Show!Show(w)
      BY <1>2, <1>13, <1>14, <2>2, <2>3, <3>2 DEF Show!Show, Stages, OnWay
    <3>4. QED
      BY <1>10, <1>11, <1>12, <3>3 DEF Show!Next
  <2>7. QED
    BY <2>5, <2>6
<1>16. CASE m.type # "commit"
  <2>1. shown' = shown
    BY <1>2, <1>16
  <2>2. OnWay' = OnWay
    BY <1>2, <1>9, <1>16 DEF OnWay
  <2>3. QED
    BY <1>2, <1>10, <1>11, <1>12, <1>13, <1>14, <2>1, <2>2 DEF Show!vars, Stages, OnWay
<1>17. QED
  BY <1>15, <1>16

-----------------------------------------------------------------------------
(* The pictures, and the refinement                                          *)

LEMMA InitShow == Init => JInv /\ Show!Init
<1> SUFFICES ASSUME Init PROVE JInv /\ Show!Init
  OBVIOUS
<1>1. /\ requests = <<>> /\ events = <<>> /\ Len(requests) = 0 /\ Len(events) = 0
      /\ made = 0 /\ configured = {} /\ pc = "connect"
      /\ shm = [w \in Win |-> 0] /\ shown = [w \in Win |-> 0] /\ window = [w \in Win |-> "none"]
  BY DEF Init
<1>2. OwnPicture /\ Newer /\ Told
  BY <1>1 DEF OwnPicture, Newer, Told
<1>3. \A w \in Win : Stage(w) = "none"
  BY <1>1 DEF Stage, Announced
<1>4. \A w \in Win : {b \in 1 .. made : Committed(w, b)} = {}
  BY <1>1
<1>5. Show!Init
  BY <1>1, <1>3, <1>4 DEF Show!Init, Link
<1>6. QED
  BY <1>2, <1>5, InitIInv DEF JInv

LEMMA StepShow == JInv /\ [Next]_vars => JInv' /\ [Show!Next]_(Show!vars)
<1> SUFFICES ASSUME JInv, [Next]_vars PROVE OwnPicture' /\ Newer' /\ Told' /\ [Show!Next]_(Show!vars)
  BY StepIInv DEF JInv
<1>1. CASE \/ UNCHANGED vars
           \/ CreateFails \/ EnterLoop \/ BeginFrame \/ Skip \/ EndDispatch \/ Signal \/ Join
           \/ \E w \in Win : UpdateWithoutBuffer(w) \/ UpdateFails(w)
  <2>1. Calm /\ (pc' = "connect" <=> pc = "connect")
    <3>1. CASE \/ UNCHANGED vars \/ CreateFails \/ EnterLoop \/ BeginFrame \/ Skip \/ EndDispatch
      BY <3>1 DEF vars, CreateFails, NextWindow, EnterLoop, BeginFrame, Skip, Advance, EndDispatch,
                  threads, surface, socket, server, Calm, Steady
    <3>2. CASE \/ Signal \/ Join \/ \E w \in Win : UpdateWithoutBuffer(w) \/ UpdateFails(w)
      BY <3>2 DEF Signal, Join, UpdateWithoutBuffer, UpdateFails, Dirty, Advance,
                  surface, socket, server, Calm, Steady
    <3>3. QED
      BY <1>1, <3>1, <3>2
  <2>2. QED
    BY <2>1, CalmShow
<1>2. CASE ConnectFails \/ Leave \/ DispatchFails \/ Disconnect
  <2>1. Down
    BY <1>2 DEF ConnectFails, Leave, DispatchFails, Disconnect, EndThread, surface, server, Down, Steady
  <2>2. pc' # "connect"
    BY <1>2 DEF ConnectFails, Leave, DispatchFails, Disconnect, EndThread, threads, JInv, IInv, Offline
  <2>3. QED
    BY <2>1, <2>2, DownShow
<1>3. CASE \E w \in Win : UpdatePixels(w)
  BY <1>3, UpdateShow
<1>4. CASE \E w \in Win : FirstConfigure(w)
  BY <1>4, FirstConfigureShow
<1>5. CASE Connect \/ BeginCreate \/ EndCreate \/ BeginDispatch \/ HandleEvent \/ ApiResize
  BY <1>5, ConnectShow, CreateShow, AllocateShow, DispatchShow, EventShow
<1>6. CASE Serve \/ Ping \/ \E b \in 1 .. MaxBuf : ReleaseBuffer(b)
  BY <1>6, ServeShow, NewsShow
<1>7. QED
  BY <1>1, <1>2, <1>3, <1>4, <1>5, <1>6 DEF Next, WaylandThread, Compositor

(* No picture is ever in two windows: neither a resize nor a failed write nor  *)
(* a frame still under way makes a window use the buffer of another VM.       *)
THEOREM GuiOwnPictures == Spec => []OwnPicture
<1>1. Init => JInv
  BY InitShow
<1>2. JInv /\ [Next]_vars => JInv'
  BY StepShow
<1>3. JInv => OwnPicture
  BY DEF JInv
<1>4. QED
  BY <1>1, <1>2, <1>3, PTL DEF Spec

(* Every window is announced, placed and agreed on once and in this order,    *)
(* shows nothing before, and never an older picture after a newer one, for    *)
(* any number of windows and any order of the socket's two directions.        *)
THEOREM GuiShowsEachWindow == Spec => EachWindowItsShow
<1>1. Init => JInv /\ Show!Init
  BY InitShow
<1>2. JInv /\ [Next]_vars => JInv' /\ [Show!Next]_(Show!vars)
  BY StepShow
<1>3. QED
  BY <1>1, <1>2, PTL DEF Spec, EachWindowItsShow, Show!Spec

-----------------------------------------------------------------------------
(* One roundtrip, one callback                                               *)

SyncReq   == [type : {"sync"}, n : 0 .. N]
DoneEvent == [type : {"done"}, n : 0 .. MaxBuf]

Syncs == Count(requests, SyncReq)
Dones == Count(events, DoneEvent)

LEMMA CallbackKinds ==
  /\ \A m \in Req : Hit(m, SyncReq) = IF m.type = "sync" THEN 1 ELSE 0
  /\ \A e \in Event : Hit(e, DoneEvent) = IF e.type = "done" THEN 1 ELSE 0
<1>1. \A m \in Plain : m.type = "sync" => m \in SyncReq
  BY DEF Plain, SyncReq
<1>2. \A m \in Req : m.type = "sync" => m \in Plain
  BY DEF Req, Frames
<1>3. \A m \in Req : m \in SyncReq => m.type = "sync"
  BY DEF SyncReq
<1>4. \A e \in Event : e.type = "done" <=> e \in DoneEvent
  BY DEF Event, DoneEvent
<1>5. QED
  BY <1>1, <1>2, <1>3, <1>4 DEF Hit

LEMMA CallbackTypes ==
  ASSUME Types
  PROVE  Syncs \in Nat /\ Dones \in Nat
  BY Queued, CountType DEF Syncs, Dones

LEMMA CallbackIs ==
  /\ OneCallback <=> (up => Syncs + Dones = IF Waiting THEN 1 ELSE 0)
  /\ OneCallback' <=> (up' => Syncs' + Dones' = IF Waiting' THEN 1 ELSE 0)
  BY DEF OneCallback, Syncs, Dones, SyncReq, DoneEvent

LEMMA SyncsSent ==
  ASSUME Types, NEW e \in Req, requests' = requests \o <<e>>
  PROVE  /\ Syncs' = Syncs + IF e.type = "sync" THEN 1 ELSE 0
         /\ requests' \in Seq(Req)
<1>1. requests \in Seq(Req) /\ requests' = Append(requests, e)
  BY Queued, AppendPlaces
<1>2. Count(requests', SyncReq) = Count(requests, SyncReq) + Hit(e, SyncReq)
  BY <1>1, CountAppend
<1>3. QED
  BY <1>1, <1>2, CallbackKinds, AppendPlaces DEF Syncs

LEMMA DonesQueued ==
  ASSUME Types, NEW e \in Event, events' = Append(events, e)
  PROVE  Dones' = Dones + IF e.type = "done" THEN 1 ELSE 0
<1>1. Count(events', DoneEvent) = Count(events, DoneEvent) + Hit(e, DoneEvent)
  BY Queued, CountAppend
<1>2. QED
  BY <1>1, CallbackKinds DEF Dones

(* Steps that leave both queues alone, or close them.                        *)
LEMMA QuietCallback ==
  ASSUME OneCallback,
         \/ ConnectFails \/ Leave \/ DispatchFails \/ Disconnect
         \/ CreateFails \/ EnterLoop \/ BeginFrame \/ Skip \/ EndDispatch \/ EndCreate
         \/ Signal \/ Join \/ UNCHANGED vars
         \/ \E w \in Win : UpdateWithoutBuffer(w) \/ UpdateFails(w)
         \/ \E w \in Win, d \in Dims : Resize(w, d) \/ ResizeFails(w, d)
  PROVE  OneCallback'
<1>1. CASE ConnectFails \/ Leave \/ DispatchFails \/ Disconnect
  BY <1>1, CallbackIs DEF ConnectFails, Leave, DispatchFails, Disconnect, EndThread
<1>2. SUFFICES ASSUME ~(ConnectFails \/ Leave \/ DispatchFails \/ Disconnect)
               PROVE  UNCHANGED <<requests, events, up>> /\ (up => Waiting' = Waiting)
  BY <1>1, CallbackIs DEF Syncs, Dones
<1>3. CASE CreateFails \/ EnterLoop \/ BeginFrame \/ Skip \/ EndDispatch \/ EndCreate
  BY <1>3 DEF CreateFails, EnterLoop, BeginFrame, Skip, EndDispatch, EndCreate, NextWindow, Advance,
              socket, Waiting
<1>4. CASE Signal \/ Join \/ UNCHANGED vars
  BY <1>4 DEF Signal, Join, vars, threads, socket, Waiting
<1>5. ASSUME NEW w \in Win, UpdateWithoutBuffer(w) \/ UpdateFails(w)
      PROVE  UNCHANGED <<requests, events, up>> /\ (up => Waiting' = Waiting)
  BY <1>5 DEF UpdateWithoutBuffer, UpdateFails, Advance, socket, Waiting
<1>6. ASSUME NEW w \in Win, NEW d \in Dims, Resize(w, d) \/ ResizeFails(w, d)
      PROVE  UNCHANGED <<requests, events, up>> /\ (up => Waiting' = Waiting)
  BY <1>6 DEF Resize, ResizeFails, threads, socket, Waiting
<1>7. QED
  BY <1>2, <1>3, <1>4, <1>5, <1>6

LEMMA ConnectCallback ==
  ASSUME IInv, Connect
  PROVE  OneCallback'
<1>1. requests' = <<>> /\ events' = <<>> /\ ~Waiting'
  BY DEF IInv, Offline, Connect, Waiting
<1>2. Syncs' = 0 /\ Dones' = 0
  BY <1>1, CountEmpty DEF Syncs, Dones
<1>3. QED
  BY <1>1, <1>2, CallbackIs

(* A roundtrip begins when no callback is under way, with a request for one.  *)
LEMMA BeginCallback ==
  ASSUME IInv, OneCallback, BeginCreate \/ BeginDispatch, up
  PROVE  OneCallback'
<1> DEFINE s == Msg("sync", 0)
           c == Msg("create", at)
<1>1. ~Waiting /\ Waiting' /\ UNCHANGED <<events, up>>
  BY DEF BeginCreate, BeginDispatch, Waiting
<1>2. Types /\ Syncs \in Nat /\ Dones \in Nat /\ Syncs + Dones = 0 /\ requests \in Seq(Req)
  BY <1>1, CallbackIs, CallbackTypes, Queued DEF IInv
<1>3. s \in Req /\ s.type = "sync"
  BY Made
<1>4. Syncs' = Syncs + 1
  <2>1. CASE BeginDispatch
    <3>1. requests' = requests \o <<s>>
      BY <2>1 DEF BeginDispatch, Send
    <3>2. QED
      BY <1>2, <1>3, <3>1, SyncsSent
  <2>2. CASE BeginCreate
    <3>1. requests' = requests \o <<c, s>>
      BY <2>2 DEF BeginCreate, Send
    <3>2. c \in Req /\ c.type = "create"
      BY <1>2, <2>2, Made, Scalars, Numbers DEF BeginCreate
    <3> HIDE DEF s, c
    <3>3. Append(requests, c) \in Seq(Req) /\ requests' = Append(Append(requests, c), s)
      BY <1>2, <1>3, <3>1, <3>2, AppendPlaces, AppendTwo
    <3>4. Count(Append(requests, c), SyncReq) = Count(requests, SyncReq) + Hit(c, SyncReq)
      BY <1>2, <3>2, CountAppend
    <3>5. Count(requests', SyncReq) = Count(Append(requests, c), SyncReq) + Hit(s, SyncReq)
      BY <1>3, <3>3, CountAppend
    <3>6. Hit(c, SyncReq) = 0 /\ Hit(s, SyncReq) = 1
      BY <1>3, <3>2, CallbackKinds
    <3>7. QED
      BY <1>2, <3>4, <3>5, <3>6 DEF Syncs
  <2>3. QED
    BY <2>1, <2>2
<1>5. Dones' = Dones
  BY <1>1 DEF Dones
<1>6. QED
  BY <1>1, <1>2, <1>4, <1>5, CallbackIs

LEMMA UpdateCallback ==
  ASSUME IInv, OneCallback, NEW w \in Win, UpdatePixels(w)
  PROVE  OneCallback'
<1> DEFINE e == Commit(w, shm[w])
<1>1. /\ UNCHANGED <<events, up, Waiting>> /\ shm[w] # 0
      /\ requests' = IF up THEN requests \o <<e>> ELSE requests
  BY DEF UpdatePixels, Dirty, Advance, Send, Waiting
<1>2. Types /\ Syncs \in Nat /\ e \in Req /\ e.type = "commit"
  <2>1. shm[w] \in 0 .. MaxBuf /\ dims[w] \in Dims /\ Types
    BY DEF IInv, Types
  <2>2. e \in Frames /\ e.type = "commit"
    BY <1>1, <2>1, Numbers DEF Commit, Frames
  <2>3. QED
    BY <2>1, <2>2, CallbackTypes DEF Req
<1> HIDE DEF e
<1>3. up => Syncs' = Syncs
  BY <1>1, <1>2, SyncsSent
<1>4. Dones' = Dones
  BY <1>1 DEF Dones
<1>5. QED
  BY <1>1, <1>3, <1>4, CallbackIs

(* The callback that arrives is the one awaited, and it ends the wait.        *)
LEMMA EventCallback ==
  ASSUME IInv, OneCallback, HandleEvent
  PROVE  OneCallback'
<1> DEFINE e == Head(events)
           a == IF e.type = "configure" THEN Msg("ack", e.n) ELSE Msg("pong", 0)
<1>1. /\ UNCHANGED <<pc, up>> /\ pc \in {"buffer", "dispatch"} /\ events # <<>> /\ events' = Tail(events)
      /\ synced' = (synced \/ e.type = "done")
      /\ requests' = IF up /\ e.type \in {"configure", "ping"} THEN requests \o <<a>> ELSE requests
  <2>1. CASE e.type = "configure"
    BY <2>1 DEF HandleEvent, threads, server, Send
  <2>2. CASE e.type = "ping"
    BY <2>2 DEF HandleEvent, threads, server, Send
  <2>3. CASE e.type \notin {"configure", "ping"}
    BY <2>3 DEF HandleEvent, threads, server, Send
  <2>4. QED
    BY <2>1, <2>2, <2>3
<1>2. /\ Types /\ up /\ Syncs \in Nat /\ Dones \in Nat /\ synced \in BOOLEAN
      /\ e \in Event /\ Tail(events) \in Seq(Event) /\ 1 \in 1 .. Len(events) /\ e = events[1]
  BY <1>1, CallbackTypes, Queued, TailPlaces DEF IInv, Offline, Types
<1>3. /\ Dones' \in Nat
      /\ e.type = "done" => Dones = Dones' + 1
      /\ e.type # "done" => Dones = Dones'
  <2>1. Count(events, DoneEvent) = Count(Tail(events), DoneEvent) + Hit(e, DoneEvent)
    BY <1>1, Queued, <1>2, CountTail
  <2>2. Count(Tail(events), DoneEvent) \in Nat
    BY <1>2, CountType
  <2>3. QED
    BY <1>1, <1>2, <2>1, <2>2, CallbackKinds DEF Dones
<1>4. Syncs' = Syncs
  <2>1. CASE e.type \in {"configure", "ping"}
    <3>1. a \in Req /\ a.type # "sync"
      <4>1. e.type = "configure" => e.n \in Win
        BY <1>2 DEF IInv, Buffers
      <4>2. e.type = "configure" => e.n \in 0 .. N
        BY <4>1, Numbers DEF Win
      <4>3. QED
        BY <4>2, Made
    <3> HIDE DEF a
    <3>2. requests' = requests \o <<a>>
      BY <1>1, <1>2, <2>1
    <3>3. QED
      BY <1>2, <3>1, <3>2, SyncsSent
  <2>2. CASE e.type \notin {"configure", "ping"}
    BY <1>1, <2>2 DEF Syncs
  <2>3. QED
    BY <2>1, <2>2
<1>5. Waiting <=> ~synced
  BY <1>1 DEF Waiting
<1>6. Waiting' <=> ~synced /\ e.type # "done"
  BY <1>1 DEF Waiting
<1>7. Syncs + Dones = IF Waiting THEN 1 ELSE 0
  BY <1>2, CallbackIs
<1>8. Syncs + Dones' = IF Waiting' THEN 1 ELSE 0
  <2>1. PICK n \in Nat, d \in Nat, k \in Nat : n = Syncs /\ d = Dones /\ k = Dones'
    BY <1>2, <1>3
  <2>2. /\ e.type = "done" => d = k + 1
        /\ e.type # "done" => d = k
        /\ n + d = IF Waiting THEN 1 ELSE 0
    BY <1>3, <1>7, <2>1
  <2>3. CASE synced
    <3>1. n + d = 0 /\ ~Waiting'
      BY <1>5, <1>6, <2>2, <2>3
    <3>2. n + k = 0
      BY <2>2, <3>1
    <3>3. QED
      BY <2>1, <3>1, <3>2
  <2>4. CASE ~synced /\ e.type = "done"
    <3>1. n + d = 1 /\ d = k + 1 /\ ~Waiting'
      BY <1>5, <1>6, <2>2, <2>4
    <3>2. n + k = 0
      BY <3>1
    <3>3. QED
      BY <2>1, <3>1, <3>2
  <2>5. CASE ~synced /\ e.type # "done"
    BY <1>5, <1>6, <2>1, <2>2, <2>5
  <2>6. QED
    BY <2>3, <2>4, <2>5
<1>9. QED
  BY <1>4, <1>8, CallbackIs

(* The compositor turns a request for a callback into the callback.          *)
LEMMA ServeCallback ==
  ASSUME IInv, OneCallback, Serve
  PROVE  OneCallback'
<1> DEFINE m == Head(requests)
<1>1. /\ UNCHANGED <<pc, synced, up>> /\ up /\ requests # <<>> /\ requests' = Tail(requests)
      /\ events' = IF m.type = "sync" THEN Append(events, Msg("done", 0)) ELSE events
  BY DEF Serve, threads
<1>2. /\ Types /\ Syncs \in Nat /\ Dones \in Nat
      /\ m \in Req /\ Tail(requests) \in Seq(Req)
  BY <1>1, CallbackTypes, Queued, TailPlaces DEF IInv
<1>3. Syncs = Syncs' + (IF m.type = "sync" THEN 1 ELSE 0) /\ Syncs' \in Nat
  <2>1. Count(requests, SyncReq) = Count(Tail(requests), SyncReq) + Hit(m, SyncReq)
    BY <1>1, <1>2, Queued, CountTail
  <2>2. Count(Tail(requests), SyncReq) \in Nat
    BY <1>2, CountType
  <2>3. QED
    BY <1>1, <1>2, <2>1, <2>2, CallbackKinds DEF Syncs
<1>4. Dones' = Dones + IF m.type = "sync" THEN 1 ELSE 0
  <2>1. Msg("done", 0) \in Event /\ Msg("done", 0).type = "done"
    BY Made
  <2>2. CASE m.type = "sync"
    BY <1>1, <1>2, <2>1, <2>2, DonesQueued
  <2>3. CASE m.type # "sync"
    BY <1>1, <1>2, <2>3 DEF Dones
  <2>4. QED
    BY <2>2, <2>3
<1>5. Waiting' = Waiting
  BY <1>1 DEF Waiting
<1>6. Syncs' + Dones' = Syncs + Dones
  BY <1>2, <1>3, <1>4
<1>7. QED
  BY <1>1, <1>5, <1>6, CallbackIs

LEMMA NewsCallback ==
  ASSUME IInv, OneCallback,
         Ping \/ (\E w \in Win : FirstConfigure(w)) \/ \E b \in 1 .. MaxBuf : ReleaseBuffer(b)
  PROVE  OneCallback'
<1>1. PICK e \in Event : e.type # "done" /\ events' = Append(events, e)
  <2>1. CASE Ping
    BY <2>1, Made DEF Ping
  <2>2. ASSUME NEW w \in Win, FirstConfigure(w)
        PROVE  \E e \in Event : e.type # "done" /\ events' = Append(events, e)
    <3>1. w \in 0 .. MaxBuf
      BY Numbers DEF Win
    <3>2. QED
      BY <2>2, <3>1, Made DEF FirstConfigure
  <2>3. ASSUME NEW b \in 1 .. MaxBuf, ReleaseBuffer(b)
        PROVE  \E e \in Event : e.type # "done" /\ events' = Append(events, e)
    <3>1. b \in 0 .. MaxBuf
      BY Numbers
    <3>2. QED
      BY <2>3, <3>1, Made DEF ReleaseBuffer
  <2>4. QED
    BY <2>1, <2>2, <2>3
<1>2. UNCHANGED <<pc, synced, requests, up>>
  BY DEF Ping, FirstConfigure, ReleaseBuffer, threads
<1>3. Types /\ Dones \in Nat
  BY CallbackTypes DEF IInv
<1>4. Dones' = Dones
  BY <1>1, <1>3, DonesQueued
<1>5. Syncs' = Syncs /\ Waiting' = Waiting
  BY <1>2 DEF Syncs, Waiting
<1>6. QED
  BY <1>2, <1>4, <1>5, CallbackIs

LEMMA StepCallback ==
  ASSUME IInv, OneCallback, [Next]_vars
  PROVE  OneCallback'
<1>1. CASE (BeginCreate \/ BeginDispatch) /\ ~up
  BY <1>1, CallbackIs DEF BeginCreate, BeginDispatch
<1>2. QED
  BY <1>1, QuietCallback, ConnectCallback, BeginCallback, UpdateCallback, EventCallback, ServeCallback,
     NewsCallback DEF Next, WaylandThread, ApiResize, Compositor

(* The safety half of "a signal ends both threads" and "every ping is          *)
(* answered": for any number of windows and in any order of events, a          *)
(* roundtrip that waits has its own callback under way, and no other is.      *)
THEOREM GuiOneCallback == Spec => []OneCallback
<1>1. Init => OneCallback
  BY CallbackIs DEF Init
<1>2. Spec => []OneCallback
  BY <1>1, StepCallback, GuiInvariance, PTL DEF Spec
<1>3. QED
  BY <1>2
=============================================================================
