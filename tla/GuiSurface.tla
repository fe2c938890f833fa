----------------------------- MODULE GuiSurface -----------------------------
(***************************************************************************)
(* krypt-gui-protocol: a main thread that waits for SIGTERM and a Wayland    *)
(* thread that opens one window per AppVM and then, frame by frame, paints   *)
(* each window's one shared buffer, commits it and makes a roundtrip.        *)
(* Client and compositor talk over a socket: two queues.  The compositor     *)
(* configures windows, pings, and reads and releases buffers in its own time.*)
(* Of the contents of a shared-memory file only this is kept: it was painted *)
(* whole, or it was not.                                                     *)
(***************************************************************************)
EXTENDS Integers, Sequences, Queues

CONSTANTS N,        \* windows: the length of STUB_VMS
          Dims,     \* the <<width, height>> a surface may be given
          Stub,     \* window -> its first <<width, height>>, in STUB_VMS
          U32Max, I32Max, \* the largest u32 and i32
          MaxBytes, \* the largest frame trust_colored_frame fills (256 MiB)
          Events    \* bound: failing writes, resizes and pings

Win    == 1 .. N
MaxBuf == N + Events \* bound: buffers that are ever made

ASSUME BoundAssumption == N \in Nat /\ Events \in Nat
ASSUME WidthAssumption == U32Max \in Nat /\ I32Max \in Nat /\ MaxBytes \in Nat /\ I32Max <= U32Max
ASSUME DimsAssumption  == Dims \subseteq (0 .. U32Max) \X (0 .. U32Max) /\ Stub \in [Win -> Dims]

VARIABLES main,     \* the main thread: "wait", "join" or "stopped"
          shutdown, \* the flag the two threads share
          pc, at,   \* the Wayland thread: where it is, and for which window
          dims,     \* config.width and config.height
          active,   \* windows in the vector "surfaces"
          configured, \* per window, the flag its configure event sets
          shm,      \* window -> its buffer, 0 for none
          made,     \* SHM_COUNTER: the buffers made so far
          size,     \* buffer -> bytes in its file
          painted,  \* buffers whose file holds one whole frame
          released, \* buffers whose flag "released" is set
          polled,   \* windows whose last poll found them dirty
          requests, events, \* the two directions of the socket
          synced,   \* the callback of this roundtrip has fired
          up,       \* the connection stands
          window,   \* compositor: "none", "new", "sent" (configure) or "acked"
          shown,    \* compositor: window -> the buffer it shows, 0 for none
          held,     \* compositor: buffers it still reads from
          pings,    \* compositor: pings without a pong
          error,    \* compositor: the client broke the protocol
          left      \* bound: what remains of Events

threads == <<main, shutdown, pc, at>>
surface == <<dims, active, configured, shm, made, size, painted, released, polled>>
socket  == <<requests, events, synced, up>>
server  == <<window, shown, held, pings, error>>
vars    == <<threads, surface, socket, server, left>>

Commit(w, b) == [type |-> "commit", win |-> w, buf |-> b, dims |-> dims[w]]
Msg(type, n) == [type |-> type, n |-> n]

TypeOK ==
  /\ main \in {"wait", "join", "stopped"} /\ shutdown \in BOOLEAN
  /\ pc \in {"connect", "create", "buffer", "frame", "update", "dispatch", "ended"}
  /\ at \in 1 .. N + 1
  /\ dims \in [Win -> Dims] /\ active \subseteq Win /\ configured \subseteq Win
  /\ shm \in [Win -> 0 .. MaxBuf] /\ made \in 0 .. MaxBuf
  /\ size \in [1 .. MaxBuf -> Nat]
  /\ painted \subseteq 1 .. MaxBuf /\ released \subseteq 1 .. MaxBuf
  /\ polled \subseteq Win
  /\ requests \in Seq([type : {"create", "ack", "pong", "sync"}, n : 0 .. N]
                        \cup [type : {"commit"}, win : Win, buf : 1 .. MaxBuf, dims : Dims])
  /\ events \in Seq([type : {"configure", "ping", "release", "done"}, n : 0 .. MaxBuf])
  /\ synced \in BOOLEAN /\ up \in BOOLEAN
  /\ window \in [Win -> {"none", "new", "sent", "acked"}]
  /\ shown \in [Win -> 0 .. MaxBuf] /\ held \subseteq 1 .. MaxBuf
  /\ pings \in 0 .. Events /\ error \in BOOLEAN /\ left \in 0 .. Events

Init ==
  /\ main = "wait" /\ shutdown = FALSE /\ pc = "connect" /\ at = 1
  /\ dims = Stub
  /\ active = {} /\ configured = {} /\ shm = [w \in Win |-> 0] /\ made = 0
  /\ size = [b \in 1 .. MaxBuf |-> 0] /\ painted = {} /\ released = {} /\ polled = {}
  /\ requests = <<>> /\ events = <<>> /\ synced = FALSE /\ up = FALSE
  /\ window = [w \in Win |-> "none"] /\ shown = [w \in Win |-> 0] /\ held = {}
  /\ pings = 0 /\ error = FALSE /\ left = Events

Bounded == left > 0 /\ left' = left - 1
Send(ms) == requests' = IF up THEN requests \o ms ELSE requests

----------------------------------------------------------------------------
(* Sizes                                                                     *)

ShmSize_Wraps(d) ==
  LET stride == (d[1] * 4) % (U32Max + 1)
      bytes  == (stride * d[2]) % (U32Max + 1)
  IN  IF bytes <= I32Max THEN {bytes} ELSE {}

(* ShmBuf::new: the size, or nothing where a checked_mul or try_into fails.   *)
ShmSize(d) ==
  LET stride == d[1] * 4
      bytes  == stride * d[2]
  IN  IF stride <= U32Max /\ bytes <= U32Max /\ {bytes, stride, d[1], d[2]} \subseteq 0 .. I32Max
      THEN {bytes} ELSE {}

FrameFits_Strict(d) == d[1] * d[2] * 4 < MaxBytes

FrameFits(d) == d[1] * d[2] * 4 <= MaxBytes  \* if not, trust_colored_frame is empty

NewBuffer(w, d) ==     \* ShmBuf::new for window w succeeds
  /\ d[1] > 0 /\ d[2] > 0
  /\ \E n \in ShmSize(d) : size' = [size EXCEPT ![made + 1] = n]
  /\ made' = made + 1
  /\ shm' = [shm EXCEPT ![w] = made + 1]
  /\ released' = released \cup {made + 1}

NoBuffer(w, d) ==      \* the surface has no area: none is made
  /\ d[1] = 0 \/ d[2] = 0
  /\ shm' = [shm EXCEPT ![w] = 0]
  /\ UNCHANGED <<size, made, released>>

Allocate(w, d) == NewBuffer(w, d) \/ NoBuffer(w, d)

(* It is too large, or, whatever its size, the file cannot be made.           *)
Refused(d) == d[1] > 0 /\ d[2] > 0

----------------------------------------------------------------------------
(* The Wayland thread                                                        *)

Connect ==             \* registry roundtrip: the globals are there
  /\ pc = "connect"
  /\ pc' = "create" /\ up' = TRUE
  /\ UNCHANGED <<main, shutdown, at, surface, requests, events, synced, server, left>>

EndThread ==           \* wayland_loop returns an error; Compositor is dropped
  pc' = "ended" /\ up' = FALSE /\ requests' = <<>> /\ events' = <<>>

ConnectFails ==        \* no socket, or a global is missing
  /\ pc = "connect"
  /\ EndThread
  /\ UNCHANGED <<main, shutdown, at, surface, synced, server, left>>

BeginCreate_NoCommit ==
  /\ pc = "create" /\ at <= N
  /\ Send(<<Msg("sync", 0)>>)
  /\ pc' = "buffer" /\ synced' = FALSE
  /\ UNCHANGED <<main, shutdown, at, surface, events, up, server, left>>

BeginCreate ==         \* create_surface up to its roundtrip
  /\ pc = "create" /\ at <= N
  /\ Send(<<Msg("create", at), Msg("sync", 0)>>)
  /\ pc' = "buffer" /\ synced' = FALSE
  /\ UNCHANGED <<main, shutdown, at, surface, events, up, server, left>>

NextWindow == pc' = "create" /\ at' = at + 1 /\ UNCHANGED <<main, shutdown>>

EndCreate ==
  /\ pc = "buffer" /\ synced
  /\ Allocate(at, dims[at])
  /\ active' = active \cup {at}
  /\ NextWindow
  /\ UNCHANGED <<dims, configured, painted, polled, socket, server, left>>

CreateFails_Retries ==
  /\ pc = "buffer"
  /\ (~up /\ ~synced) \/ (synced /\ Refused(dims[at]))
  /\ pc' = "create"
  /\ UNCHANGED <<main, shutdown, at, surface, socket, server, left>>

CreateFails ==         \* a warning, and on to the next one
  /\ pc = "buffer"
  /\ (~up /\ ~synced) \/ (synced /\ Refused(dims[at]))
  /\ NextWindow
  /\ UNCHANGED <<surface, socket, server, left>>

EnterLoop ==
  /\ pc = "create" /\ at > N
  /\ pc' = "frame"
  /\ UNCHANGED <<main, shutdown, at, surface, socket, server, left>>

BeginFrame ==
  /\ pc = "frame" /\ ~shutdown
  /\ pc' = "update" /\ at' = 1
  /\ UNCHANGED <<main, shutdown, surface, socket, server, left>>

Leave ==               \* shutdown is seen: a clean exit
  /\ pc = "frame" /\ shutdown
  /\ EndThread
  /\ UNCHANGED <<main, shutdown, at, surface, synced, server, left>>

Advance == at' = at + 1 /\ UNCHANGED <<main, shutdown, pc>>

Skip_PastEnd ==
  /\ pc = "update"
  /\ \/ at \notin active \cap configured /\ UNCHANGED polled
     \/ at \in active \cap configured \cap polled /\ polled' = polled \ {at}
  /\ Advance
  /\ UNCHANGED <<dims, active, configured, shm, made, size, painted, released, socket, server, left>>

Skip ==                \* no such window, not configured, or not dirty
  /\ pc = "update" /\ at <= N
  /\ \/ at \notin active \cap configured /\ UNCHANGED polled
     \/ at \in active \cap configured \cap polled /\ polled' = polled \ {at}
  /\ Advance
  /\ UNCHANGED <<dims, active, configured, shm, made, size, painted, released, socket, server, left>>

Dirty_Unconfigured(w) == pc = "update" /\ at = w /\ w \in active /\ polled' = polled \cup {w}

Dirty(w) == pc = "update" /\ at = w /\ w \in active \cap configured /\ polled' = polled \cup {w}

UpdatePixels(w) ==
  /\ Dirty(w) /\ shm[w] # 0
  /\ painted' = IF FrameFits(dims[w]) THEN painted \cup {shm[w]} ELSE painted
  /\ released' = released \ {shm[w]}
  /\ Send(<<Commit(w, shm[w])>>)
  /\ Advance
  /\ UNCHANGED <<dims, active, configured, shm, made, size, events, synced, up, server, left>>

UpdateWithoutBuffer(w) ==
  /\ Dirty(w) /\ shm[w] = 0
  /\ Advance
  /\ UNCHANGED <<dims, active, configured, shm, made, size, painted, released, socket, server, left>>

UpdateFails_MarkedFirst(w) ==
  /\ Dirty(w) /\ shm[w] # 0
  /\ Bounded
  /\ released' = released \ {shm[w]}
  /\ Advance
  /\ UNCHANGED <<dims, active, configured, shm, made, size, painted, socket, server>>

UpdateFails(w) ==      \* write_pixels fails: nothing is marked or committed
  /\ Dirty(w) /\ shm[w] # 0
  /\ Bounded
  /\ Advance
  /\ UNCHANGED <<dims, active, configured, shm, made, size, painted, released, socket, server>>

BeginDispatch ==
  /\ pc = "update" /\ at > N
  /\ Send(<<Msg("sync", 0)>>)
  /\ pc' = "dispatch" /\ synced' = FALSE
  /\ UNCHANGED <<main, shutdown, at, surface, events, up, server, left>>

EndDispatch_Pending ==
  /\ pc = "dispatch"
  /\ pc' = "frame"
  /\ UNCHANGED <<main, shutdown, at, surface, socket, server, left>>

EndDispatch ==         \* then it sleeps for what is left of 16 ms
  /\ pc = "dispatch" /\ synced
  /\ pc' = "frame"
  /\ UNCHANGED <<main, shutdown, at, surface, socket, server, left>>

DispatchFails ==       \* the connection is gone: the thread ends, main waits on
  /\ pc = "dispatch" /\ ~up /\ ~synced
  /\ EndThread
  /\ UNCHANGED <<main, shutdown, at, surface, synced, server, left>>

(* resize_surface, part of the API that has no caller yet: the thread that    *)
(* owns the queue can call it between two frames.                            *)
Resize(w, d) ==
  /\ pc = "frame" /\ w \in active /\ Bounded
  /\ dims' = [dims EXCEPT ![w] = d]
  /\ Allocate(w, d)
  /\ UNCHANGED <<threads, active, configured, painted, polled, socket, server>>

ResizeFails(w, d) ==   \* the old buffer and size are gone all the same
  /\ pc = "frame" /\ w \in active /\ Bounded
  /\ d[1] > 0 /\ d[2] > 0
  /\ dims' = [dims EXCEPT ![w] = d]
  /\ shm' = [shm EXCEPT ![w] = 0]
  /\ UNCHANGED <<threads, active, configured, made, size, painted, released, polled, socket, server>>

(* Dispatch: the handlers of one event, only ever run inside a roundtrip.     *)
HandleEvent_DropsPing ==
  /\ pc \in {"buffer", "dispatch"} /\ events # <<>>
  /\ LET e == Head(events) IN
       /\ configured' = IF e.type = "configure" THEN configured \cup {e.n} ELSE configured
       /\ released' = IF e.type = "release" THEN released \cup {e.n} ELSE released
       /\ synced' = (synced \/ e.type = "done")
       /\ CASE e.type = "configure" -> Send(<<Msg("ack", e.n)>>)
            [] OTHER -> UNCHANGED requests
  /\ events' = Tail(events)
  /\ UNCHANGED <<threads, dims, active, shm, made, size, painted, polled, up, server, left>>

HandleEvent ==
  /\ pc \in {"buffer", "dispatch"} /\ events # <<>>
  /\ LET e == Head(events) IN
       /\ configured' = IF e.type = "configure" THEN configured \cup {e.n} ELSE configured
       /\ released' = IF e.type = "release" THEN released \cup {e.n} ELSE released
       /\ synced' = (synced \/ e.type = "done")
       /\ CASE e.type = "configure" -> Send(<<Msg("ack", e.n)>>)
            [] e.type = "ping"      -> Send(<<Msg("pong", 0)>>)
            [] OTHER                -> UNCHANGED requests
  /\ events' = Tail(events)
  /\ UNCHANGED <<threads, dims, active, shm, made, size, painted, polled, up, server, left>>

WaylandThread ==
  \/ Connect \/ ConnectFails \/ BeginCreate \/ EndCreate \/ CreateFails \/ EnterLoop
  \/ BeginFrame \/ Leave \/ Skip \/ BeginDispatch \/ EndDispatch \/ DispatchFails \/ HandleEvent
  \/ \E w \in Win : UpdatePixels(w) \/ UpdateWithoutBuffer(w) \/ UpdateFails(w)

ApiResize == \E w \in Win, d \in Dims : Resize(w, d) \/ ResizeFails(w, d)

----------------------------------------------------------------------------
(* The main thread                                                           *)

Signal_WithoutFlag ==
  /\ main = "wait"
  /\ main' = "join"
  /\ UNCHANGED <<shutdown, pc, at, surface, socket, server, left>>

Signal ==              \* SIGTERM or Ctrl+C
  /\ main = "wait"
  /\ main' = "join" /\ shutdown' = TRUE
  /\ UNCHANGED <<pc, at, surface, socket, server, left>>

Join ==
  /\ main = "join" /\ pc = "ended"
  /\ main' = "stopped"
  /\ UNCHANGED <<shutdown, pc, at, surface, socket, server, left>>

----------------------------------------------------------------------------
(* The compositor, as far as the client relies on it                         *)

Serve ==               \* it handles one request
  /\ up /\ requests # <<>>
  /\ LET m == Head(requests) IN
       /\ window' = CASE m.type = "create" -> [window EXCEPT ![m.n] = "new"]
                      [] m.type = "ack"    -> [window EXCEPT ![m.n] = "acked"]
                      [] OTHER             -> window
       /\ IF m.type = "commit"
          THEN /\ error' = (error \/ window[m.win] # "acked")
               /\ shown' = [shown EXCEPT ![m.win] = m.buf]
               /\ held' = held \cup {m.buf}
          ELSE UNCHANGED <<error, shown, held>>
       /\ pings' = IF m.type = "pong" THEN pings - 1 ELSE pings
       /\ events' = IF m.type = "sync" THEN Append(events, Msg("done", 0)) ELSE events
  /\ requests' = Tail(requests)
  /\ UNCHANGED <<threads, surface, synced, up, left>>

FirstConfigure(w) ==
  /\ up /\ window[w] = "new"
  /\ window' = [window EXCEPT ![w] = "sent"]
  /\ events' = Append(events, Msg("configure", w))
  /\ UNCHANGED <<threads, surface, requests, synced, up, shown, held, pings, error, left>>

Ping ==
  /\ up /\ Bounded
  /\ pings' = pings + 1
  /\ events' = Append(events, Msg("ping", 0))
  /\ UNCHANGED <<threads, surface, requests, synced, up, window, shown, held, error>>

ReleaseBuffer(b) ==
  /\ up /\ b \in held
  /\ held' = held \ {b}
  /\ events' = Append(events, Msg("release", b))
  /\ UNCHANGED <<threads, surface, requests, synced, up, window, shown, pings, error, left>>

Disconnect ==          \* it ends or drops the client; what is in flight is lost
  /\ up
  /\ up' = FALSE /\ requests' = <<>> /\ events' = <<>>
  /\ UNCHANGED <<threads, surface, synced, server, left>>

Compositor ==
  \/ Serve \/ Ping \/ Disconnect
  \/ \E w \in Win : FirstConfigure(w)
  \/ \E b \in 1 .. MaxBuf : ReleaseBuffer(b)

Next == WaylandThread \/ ApiResize \/ Signal \/ Join \/ Compositor

Spec == Init /\ [][Next]_vars

(* The threads run on, the compositor serves the socket and configures every  *)
(* new window; nothing obliges it to release a buffer, or anyone to resize.   *)
FairSpec ==
  /\ Spec
  /\ WF_vars(WaylandThread) /\ WF_vars(Join)
  /\ WF_vars(Serve) /\ \A w \in Win : WF_vars(FirstConfigure(w))

----------------------------------------------------------------------------
(* Properties                                                                *)

(* xdg-shell forbids a buffer before the first configure is acknowledged: the *)
(* flag that update_pixels waits for is set by a handler that has queued the  *)
(* acknowledgement, whenever the compositor configures the window.           *)
NoProtocolError == ~error

Committed(w, b) == \E i \in 1 .. Len(requests) :
  requests[i].type = "commit" /\ requests[i].win = w /\ requests[i].buf = b

(* A buffer's file is exactly as large as the picture its surface has: no     *)
(* size from a guest wraps to a small one, a resize never leaves the old      *)
(* buffer with the new size, and a frame in flight carries its own size.     *)
BufferHoldsPicture ==
  /\ \A w \in active : shm[w] # 0 => size[shm[w]] = 4 * dims[w][1] * dims[w][2]
  /\ \A i \in 1 .. Len(requests) :
       LET m == requests[i] IN
       m.type = "commit" => size[m.buf] = 4 * m.dims[1] * m.dims[2] /\ size[m.buf] <= I32Max

(* What a window shows, or is about to, was painted whole in the colour of    *)
(* its VM, unless it is larger than MaxBytes (then it shows an empty file).   *)
ShownIsPainted ==
  \A w \in Win, b \in 1 .. MaxBuf :
    (shown[w] = b \/ Committed(w, b)) => b \in painted \/ size[b] > MaxBytes

(* A buffer is never marked in flight for good: its commit is on the way, the *)
(* compositor reads from it, or the release event is on the way.             *)
InFlightIsOutstanding ==
  up => \A b \in 1 .. made :
    \/ b \in released \/ b \in held
    \/ \E w \in Win : Committed(w, b)
    \/ \E i \in 1 .. Len(events) : events[i] = Msg("release", b)

(* No picture is in two windows: what a window paints, has on its way or      *)
(* shows is no other window's, or it would appear in the colour, and under    *)
(* the name, of another VM.                                                  *)
OwnPicture ==
  \A v, w \in Win : v # w => \A b \in 1 .. made :
    ~ /\ shm[v] = b \/ shown[v] = b \/ Committed(v, b)
      /\ shm[w] = b \/ shown[w] = b \/ Committed(w, b)

Waiting == pc \in {"buffer", "dispatch"} /\ ~synced

(* A roundtrip that waits has its callback under way, once, and no other      *)
(* callback is: it neither waits for what nobody will send, nor is ended by   *)
(* the answer to an earlier one, whose events it would then not have seen.   *)
OneCallback ==
  up => Count(requests, [type : {"sync"}, n : 0 .. N]) + Count(events, [type : {"done"}, n : 0 .. MaxBuf])
          = IF Waiting THEN 1 ELSE 0

Link == IF pc = "connect" THEN "before" ELSE IF up THEN "up" ELSE "over"

Announced(w) ==
  \E i \in 1 .. Len(requests) : requests[i].type = "create" /\ requests[i].n = w

Stage(w) ==
  IF w \in configured THEN "agreed"
  ELSE IF window[w] \in {"sent", "acked"} THEN "placed"
  ELSE IF window[w] = "new" \/ Announced(w) THEN "asked"
  ELSE "none"

Show == INSTANCE WindowShow WITH
          link <- Link, stage <- [w \in Win |-> Stage(w)], mine <- shm,
          handed <- [w \in Win |-> {b \in 1 .. made : Committed(w, b)}]

(* Threads, roundtrips, socket and compositor together implement the show: a  *)
(* window is announced, placed and agreed on once, in this order and before   *)
(* its first picture; a picture of an old size never follows a newer one; a   *)
(* lost connection ends everything, whatever the threads still do.           *)
EachWindowItsShow == Show!Spec

Alive == up /\ ~shutdown

(* Every window that has a buffer is shown in the end, and every ping is      *)
(* answered, unless the connection ends or a shutdown begins.                *)
WindowsAppear == \A w \in Win : (w \in active /\ shm[w] # 0) ~> (shown[w] # 0 \/ shm[w] = 0 \/ ~Alive)
PingsAnswered == pings > 0 ~> (pings = 0 \/ ~Alive)

(* A signal ends both threads, wherever the Wayland thread is.                *)
ShutdownEnds == main = "join" ~> main = "stopped"
=============================================================================
