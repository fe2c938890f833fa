--------------------------- MODULE IpcFramingProofs ---------------------------
(***************************************************************************)
(* The framed stream implements one call at a time, for bodies, buffers and  *)
(* frames of every length.  The invariant says, for each of the six stages a *)
(* connection can be in, whose bytes are where: the cells that the reader has*)
(* got, those in the socket and those still to be written are, in this order,*)
(* the rest of one frame and nothing else.                                   *)
(***************************************************************************)
EXTENDS IpcFraming, SequenceTheorems, TLAPS

Now     == asked[Len(asked)]
Waiting == Len(asked) = Len(results) + 1
Gone    == client = "away" /\ Len(results) = Len(asked)
Left    == Gone /\ results[Len(results)] = "left"

Served  == \E i \in 1 .. Len(served) : served[i].call = Len(asked)
Unserved == Len(served) < Len(asked) /\ \A i \in 1 .. Len(served) : served[i].call < Len(asked)

(* Cell k of the frame with body m of length n.                              *)
FrameCell(m, n, k) == IF k <= HeaderLen THEN [len |-> n, msg |-> None] ELSE [len |-> 0, msg |-> m]

(* q holds the cells of that frame from number k + 1 on.                     *)
Holds(q, m, n, k) == \A i \in 1 .. Len(q) : q[i] = FrameCell(m, n, k + i)

CallDone  == IF task = "body" THEN HeaderLen ELSE 0
ReplyDone == IF client = "body" THEN HeaderLen ELSE 0

ClientQuiet == cOut = <<>> /\ cGot = <<>>
TaskQuiet   == sOut = <<>> /\ sGot = <<>> /\ req = None
Pipes       == c2s = <<>> /\ s2c = <<>>

(* No call is under way.                                                     *)
Quiet ==
  /\ client \in {"idle", "away"} /\ task \in {"none", "backlog", "head", "ended"}
  /\ task = "none" => client = "away"
  /\ Len(results) = Len(asked)
  /\ ClientQuiet /\ TaskQuiet /\ Pipes

(* The call's frame is being written and read.                               *)
OnWay ==
  /\ asked # <<>> /\ Unserved
  /\ (client \in {"write", "head"} /\ Waiting) \/ Left
  /\ client = "write" <=> cOut # <<>>
  /\ task \in {"backlog", "head", "body"}
  /\ task = "backlog" => sGot = <<>>
  /\ task = "body" => sLen = CallLen[Now]
  /\ Holds(sGot, Now, CallLen[Now], CallDone)
  /\ Holds(c2s, Now, CallLen[Now], CallDone + Len(sGot))
  /\ Holds(cOut, Now, CallLen[Now], CallDone + Len(sGot) + Len(c2s))
  /\ CallDone + Len(sGot) + Len(c2s) + Len(cOut) <= HeaderLen + CallLen[Now]
  /\ client # "away" => CallDone + Len(sGot) + Len(c2s) + Len(cOut) = HeaderLen + CallLen[Now]
  /\ cGot = <<>> /\ s2c = <<>> /\ sOut = <<>> /\ req = None

(* The task is over and the caller does not know yet.                        *)
Cut ==
  /\ client \in {"write", "head"} /\ Waiting /\ (client = "write" <=> cOut # <<>>)
  /\ task = "ended" /\ TaskQuiet
  /\ cGot = <<>> /\ Pipes

Serving ==
  /\ asked # <<>> /\ Served
  /\ (client = "head" /\ Waiting) \/ Left
  /\ task = "serve" /\ req = Now
  /\ ClientQuiet /\ Pipes /\ sOut = <<>> /\ sGot = <<>>

(* The reply's frame is being written and read.                              *)
Replying ==
  /\ asked # <<>> /\ Served
  /\ client \in {"head", "body"} /\ Waiting
  /\ task = (IF sOut = <<>> THEN "head" ELSE "write")
  /\ req = (IF sOut = <<>> THEN None ELSE Now)
  /\ ReplyLen[Now] <= MaxFrame
  /\ client = "body" => cLen = ReplyLen[Now]
  /\ Holds(cGot, Now, ReplyLen[Now], ReplyDone)
  /\ Holds(s2c, Now, ReplyLen[Now], ReplyDone + Len(cGot))
  /\ Holds(sOut, Now, ReplyLen[Now], ReplyDone + Len(cGot) + Len(s2c))
  /\ ReplyDone + Len(cGot) + Len(s2c) + Len(sOut) = HeaderLen + ReplyLen[Now]
  /\ cOut = <<>> /\ c2s = <<>> /\ sGot = <<>>

(* It is being written and nobody reads it.                                  *)
Abandoned ==
  /\ Gone /\ task = "write" /\ sOut # <<>>
  /\ ClientQuiet /\ Pipes /\ sGot = <<>>

Stage == Quiet \/ OnWay \/ Cut \/ Serving \/ Replying \/ Abandoned

Tally ==
  /\ asked \in Seq(Call) /\ results \in Seq(Call \cup {"error", "left"})
  /\ served \in Seq([call : Nat, msg : Call])
  /\ Len(results) <= Len(asked) /\ Len(served) <= Len(asked)
  /\ \A i \in 1 .. Len(served) : served[i].call <= Len(asked)

Buffers ==
  /\ \A q \in {c2s, s2c} : q \in Seq(Cell) /\ Len(q) <= Cap
  /\ cOut \in Seq(Cell) /\ sOut \in Seq(Cell)
  /\ cGot \in Seq(Cell) /\ Len(cGot) <= (IF client = "body" THEN cLen ELSE HeaderLen)
  /\ sGot \in Seq(Cell) /\ Len(sGot) <= (IF task = "body" THEN sLen ELSE HeaderLen)
  /\ cLen \in 0 .. MaxFrame /\ sLen \in 0 .. MaxFrame
  /\ backoff \in 0 .. MaxBackoff /\ req \in Call \cup {None}

IInv == Tally /\ Buffers /\ Stage
(* A step is one of the abstract service or none of its business.            *)
Abstract == Calls!Next \/ UNCHANGED history

----------------------------------------------------------------------------
(* Queues of cells                                                           *)

LEMMA Lengths == /\ MaxFrame \in Nat /\ HeaderLen \in Nat \ {0} /\ Cap \in Nat /\ MaxBackoff \in Nat
                 /\ \A m \in Call : CallLen[m] \in Nat \ {0} /\ ReplyLen[m] \in Nat \ {0} /\ m # None
BY LengthAssumption, CallAssumption

LEMMA TakeOne ==
  ASSUME NEW S, NEW q \in Seq(S), q # <<>>
  PROVE  /\ Len(q) \in Nat \ {0} /\ Head(q) = q[1] /\ Head(q) \in S
         /\ Tail(q) \in Seq(S) /\ Len(Tail(q)) = Len(q) - 1
         /\ \A i \in 1 .. Len(Tail(q)) : Tail(q)[i] = q[i + 1]
BY HeadTailProperties, EmptySeq, LenProperties

LEMMA PutOne ==
  ASSUME NEW S, NEW q \in Seq(S), NEW x \in S
  PROVE  /\ Append(q, x) \in Seq(S) /\ Len(q) \in Nat /\ Len(Append(q, x)) = Len(q) + 1
         /\ Append(q, x) # <<>> /\ Append(q, x)[Len(q) + 1] = x
         /\ \A i \in 1 .. Len(q) : Append(q, x)[i] = q[i]
BY AppendProperties, LenProperties

LEMMA FrameFacts ==
  ASSUME NEW m \in Call, NEW n \in Nat
  PROVE  LET f == Header(n) \o Body(m, n) IN
         /\ f \in Seq(Cell) /\ f # <<>> /\ Len(f) = HeaderLen + n
         /\ Holds(f, m, n, 0)
<1> DEFINE f == Header(n) \o Body(m, n)
<1>1. Header(n) \in Seq(Cell) /\ Len(Header(n)) = HeaderLen
      /\ \A i \in 1 .. HeaderLen : Header(n)[i] = [len |-> n, msg |-> None]
  BY Lengths DEF Header, Cell
<1>2. Body(m, n) \in Seq(Cell) /\ Len(Body(m, n)) = n
      /\ \A i \in 1 .. n : Body(m, n)[i] = [len |-> 0, msg |-> m]
  BY DEF Body, Cell
<1>3. f \in Seq(Cell) /\ Len(f) = HeaderLen + n
      /\ \A i \in 1 .. (HeaderLen + n) : f[i] = IF i <= HeaderLen THEN Header(n)[i] ELSE Body(m, n)[i - HeaderLen]
  <2> HIDE DEF f
  <2> DEFINE h == Header(n)
             b == Body(m, n)
  <2>1. h \in Seq(Cell) /\ b \in Seq(Cell) /\ Len(h) = HeaderLen /\ Len(b) = n /\ f = h \o b
    BY <1>1, <1>2 DEF f
  <2> HIDE DEF h, b
  <2>2. f \in Seq(Cell) /\ Len(f) = HeaderLen + n
        /\ \A i \in 1 .. (HeaderLen + n) : f[i] = IF i <= HeaderLen THEN h[i] ELSE b[i - HeaderLen]
    BY <2>1, ConcatProperties
  <2> QED BY <2>2 DEF h, b
<1>4. f # <<>>
  BY <1>3, Lengths
<1>5. Holds(f, m, n, 0)
  <2> SUFFICES ASSUME NEW i \in 1 .. (HeaderLen + n) PROVE f[i] = FrameCell(m, n, 0 + i)
    BY <1>3 DEF Holds
  <2>1. CASE i <= HeaderLen
    BY <1>1, <1>3, <2>1, Lengths DEF FrameCell
  <2>2. CASE ~(i <= HeaderLen)
    <3>1. i - HeaderLen \in 1 .. n
      BY <2>2, Lengths
    <3> QED BY <1>2, <1>3, <2>2, <3>1, Lengths DEF FrameCell
  <2> QED BY <2>1, <2>2
<1> QED BY <1>3, <1>4, <1>5

(* One cell passes from the queue q to what has been read or written before. *)
LEMMA PassOne ==
  ASSUME NEW got \in Seq(Cell), NEW q \in Seq(Cell), q # <<>>, NEW m, NEW n, NEW k \in Nat,
         Holds(got, m, n, k), Holds(q, m, n, k + Len(got))
  PROVE  /\ Append(got, Head(q)) \in Seq(Cell) /\ Len(Append(got, Head(q))) = Len(got) + 1
         /\ Append(got, Head(q)) # <<>>
         /\ Holds(Append(got, Head(q)), m, n, k)
         /\ Tail(q) \in Seq(Cell) /\ Len(Tail(q)) = Len(q) - 1
         /\ Holds(Tail(q), m, n, k + Len(Append(got, Head(q))))
         /\ Len(got) \in Nat /\ Len(q) \in Nat \ {0}
<1>1. /\ Len(q) \in Nat \ {0} /\ Head(q) = q[1] /\ Head(q) \in Cell
      /\ Tail(q) \in Seq(Cell) /\ Len(Tail(q)) = Len(q) - 1
      /\ \A i \in 1 .. Len(Tail(q)) : Tail(q)[i] = q[i + 1]
  BY TakeOne
<1>2. /\ Append(got, Head(q)) \in Seq(Cell) /\ Len(got) \in Nat /\ Len(Append(got, Head(q))) = Len(got) + 1
      /\ Append(got, Head(q)) # <<>> /\ Append(got, Head(q))[Len(got) + 1] = Head(q)
      /\ \A i \in 1 .. Len(got) : Append(got, Head(q))[i] = got[i]
  BY <1>1, PutOne
<1>3. Holds(Append(got, Head(q)), m, n, k)
  <2> SUFFICES ASSUME NEW i \in 1 .. (Len(got) + 1) PROVE Append(got, Head(q))[i] = FrameCell(m, n, k + i)
    BY <1>2 DEF Holds
  <2>1. CASE i \in 1 .. Len(got)
    BY <1>2, <2>1 DEF Holds
  <2>2. CASE i = Len(got) + 1
    <3>1. 1 \in 1 .. Len(q) /\ k + Len(got) + 1 = k + (Len(got) + 1)
      BY <1>1, <1>2
    <3> QED BY <1>1, <1>2, <2>2, <3>1 DEF Holds
  <2> QED BY <1>2, <2>1, <2>2
<1>4. Holds(Tail(q), m, n, k + Len(Append(got, Head(q))))
  <2> SUFFICES ASSUME NEW i \in 1 .. (Len(q) - 1)
               PROVE Tail(q)[i] = FrameCell(m, n, k + (Len(got) + 1) + i)
    BY <1>1, <1>2 DEF Holds
  <2>1. i + 1 \in 1 .. Len(q) /\ k + Len(got) + (i + 1) = k + (Len(got) + 1) + i
    BY <1>1, <1>2
  <2> QED BY <1>1, <2>1 DEF Holds
<1> QED BY <1>1, <1>2, <1>3, <1>4

(* A header that has been read gives the length, a body the message.         *)
LEMMA HeaderRead ==
  ASSUME NEW q, NEW m, NEW n, Holds(q, m, n, 0), Len(q) = HeaderLen
  PROVE  q[1].len = n
<1>1. 1 \in 1 .. Len(q) /\ 0 + 1 <= HeaderLen
  BY Lengths
<1>2. q[1] = [len |-> n, msg |-> None]
  BY <1>1 DEF Holds, FrameCell
<1> QED BY <1>2

LEMMA BodyRead ==
  ASSUME NEW q \in Seq(Cell), NEW m \in Call, NEW n \in Nat \ {0}, Holds(q, m, n, HeaderLen), Len(q) = n
  PROVE  Whole(q) /\ Message(q) = m
<1>1. \A i \in 1 .. Len(q) : q[i] = [len |-> 0, msg |-> m]
  <2> TAKE i \in 1 .. Len(q)
  <2>1. ~(HeaderLen + i <= HeaderLen)
    BY Lengths
  <2> QED BY <2>1 DEF Holds, FrameCell
<1>2. q # <<>> /\ 1 \in 1 .. Len(q) /\ m # None
  BY Lengths
<1> QED BY <1>1, <1>2 DEF Whole, Message

----------------------------------------------------------------------------
(* The client's steps                                                        *)

LEMMA StageOf ==
  ASSUME IInv
  PROVE  /\ client = "idle" => Quiet
         /\ client = "write" => OnWay \/ Cut
         /\ client = "body" => Replying
         /\ client = "away" => Quiet \/ OnWay \/ Serving \/ Abandoned
         /\ task = "backlog" => Quiet \/ OnWay
         /\ task = "body" => OnWay
         /\ task = "serve" => Serving
         /\ task = "write" => Replying \/ Abandoned
         /\ task = "none" => Quiet
         /\ task = "ended" => Quiet \/ Cut
BY DEF IInv, Stage, Quiet, OnWay, Cut, Serving, Replying, Abandoned, Gone, Left

LEMMA ServedFacts ==
  ASSUME IInv
  PROVE  /\ served \in Seq([call : Nat, msg : Call]) /\ Len(served) \in Nat /\ Len(served) <= Len(asked)
         /\ \A i \in 1 .. Len(served) : served[i].call \in Nat /\ served[i].call <= Len(asked)
         /\ Len(asked) \in Nat /\ Len(results) \in Nat /\ Len(results) <= Len(asked)
         /\ asked # <<>> => Len(asked) \in 1 .. Len(asked) /\ Now \in Call
<1>1. \A i \in 1 .. Len(served) : served[i] \in [call : Nat, msg : Call]
  BY ElementOfSeq DEF IInv, Tally
<1>2. asked # <<>> => Len(asked) \in 1 .. Len(asked)
  BY LenProperties, EmptySeq DEF IInv, Tally
<1>3. asked # <<>> => Now \in Call
  BY <1>2, ElementOfSeq DEF IInv, Tally, Now
<1> QED BY <1>1, <1>2, <1>3, LenProperties DEF IInv, Tally

LEMMA ConnectStep ==
  ASSUME IInv, Connect
  PROVE  IInv' /\ Abstract
<1>1. Quiet
  BY StageOf DEF Connect, OnWay, Serving, Abandoned
<1>2. Quiet' /\ history' = history
  BY <1>1 DEF Quiet, Connect, ClientQuiet, TaskQuiet, Pipes, history
<1>3. Tally' /\ Buffers'
  BY <1>1, Lengths DEF IInv, Tally, Buffers, Connect, history, Quiet, ClientQuiet, TaskQuiet
<1> QED BY <1>2, <1>3 DEF IInv, Stage, Abstract, history

LEMMA RequestStep ==
  ASSUME IInv, NEW m \in Call, Request(m)
  PROVE  IInv' /\ Abstract
<1>1. Quiet /\ client = "idle"
  BY StageOf DEF Request
<1>2. /\ asked' = Append(asked, m) /\ asked' \in Seq(Call) /\ Len(asked) \in Nat
      /\ Len(asked') = Len(asked) + 1 /\ asked' # <<>> /\ Now' = m
  BY PutOne DEF Request, IInv, Tally, Now
<1>3. /\ Len(results) = Len(asked) /\ served' = served /\ served \in Seq([call : Nat, msg : Call])
      /\ Len(served) \in Nat /\ Len(served) <= Len(asked)
      /\ \A i \in 1 .. Len(served) : served[i].call \in Nat /\ served[i].call <= Len(asked)
  BY <1>1, ServedFacts DEF Request, Quiet
<1> DEFINE f == IF m \in Unchecked THEN Header(CallLen[m]) \o Body(m, CallLen[m]) ELSE Frame(m, CallLen[m])
<1>4. \/ f = <<>>
      \/ f \in Seq(Cell) /\ f # <<>> /\ Len(f) = HeaderLen + CallLen[m] /\ Holds(f, m, CallLen[m], 0)
  BY FrameFacts, Lengths DEF Frame
<1>5. CASE f = <<>>
  <2>1. /\ results' = Append(results, "error") /\ UNCHANGED <<clientVars, taskVars, c2s, s2c>>
    BY <1>5 DEF Request, clientVars
  <2>2. results' \in Seq(Call \cup {"error", "left"}) /\ Len(results') = Len(asked')
    BY <1>2, <1>3, <2>1, PutOne DEF IInv, Tally
  <2>3. Tally'
    <3>1. PICK n \in Nat : n = Len(asked') /\ n = Len(asked) + 1
      BY <1>2
    <3>2. /\ served' \in Seq([call : Nat, msg : Call]) /\ Len(served') <= n
          /\ \A i \in 1 .. Len(served') : served'[i].call <= n
      BY <1>3, <3>1
    <3> QED BY <1>2, <2>2, <3>1, <3>2 DEF Tally
  <2>4. Buffers' /\ Quiet'
    BY <1>1, <2>1, <2>2 DEF IInv, Buffers, Quiet, ClientQuiet, TaskQuiet, Pipes, clientVars, taskVars
  <2>5. Calls!Refuse(m)
    BY <1>2, <1>3, <2>1 DEF Calls!Refuse, Calls!Waiting
  <2> QED BY <2>3, <2>4, <2>5 DEF IInv, Stage, Abstract, Calls!Next
<1>6. CASE f # <<>>
  <2>1. /\ client' = "write" /\ cOut' = f /\ results' = results
        /\ UNCHANGED <<cGot, cLen, task, sOut, sGot, sLen, req, backoff, c2s, s2c>>
    BY <1>6 DEF Request, taskVars
  <2> HIDE DEF f
  <2>2. Tally'
    <3>1. PICK n \in Nat : n = Len(asked') /\ n = Len(asked) + 1
      BY <1>2
    <3>2. results' \in Seq(Call \cup {"error", "left"}) /\ Len(results') <= n
      BY <1>3, <2>1, <3>1 DEF IInv, Tally
    <3>3. /\ served' \in Seq([call : Nat, msg : Call]) /\ Len(served') <= n
          /\ \A i \in 1 .. Len(served') : served'[i].call <= n
      BY <1>3, <3>1
    <3> QED BY <1>2, <3>1, <3>2, <3>3 DEF Tally
  <2>3. Buffers'
    BY <1>1, <1>4, <1>6, <2>1, LenProperties, Lengths DEF IInv, Buffers, Quiet, ClientQuiet
  <2>4. Waiting'
    BY <1>2, <1>3, <2>1 DEF Waiting
  <2>5. ASSUME task = "ended" PROVE Stage'
    BY <1>1, <1>6, <2>1, <2>4, <2>5 DEF Quiet, Cut, Stage, ClientQuiet, TaskQuiet, Pipes
  <2>6. ASSUME task # "ended" PROVE Stage'
    <3>1. /\ task' \in {"backlog", "head"} /\ CallDone' = 0
          /\ sGot' = <<>> /\ c2s' = <<>> /\ Len(sGot') = 0 /\ Len(c2s') = 0
          /\ cGot' = <<>> /\ s2c' = <<>> /\ sOut' = <<>> /\ req' = None
      BY <1>1, <2>1, <2>6 DEF Quiet, CallDone, TaskQuiet, ClientQuiet, Pipes
    <3>2. Holds(cOut, Now, CallLen[Now], 0)' /\ Len(cOut') = HeaderLen + CallLen[Now]'
      BY <1>2, <1>4, <1>6, <2>1 DEF Holds
    <3>3. Unserved'
      BY <1>2, <1>3, <2>1 DEF Unserved
    <3> QED BY <1>2, <1>6, <2>1, <2>4, <3>1, <3>2, <3>3, Lengths DEF OnWay, Holds, Stage
  <2>7. Calls!Ask(m)
    BY <1>2, <1>3, <2>1 DEF Calls!Ask, Calls!Waiting
  <2> QED BY <2>2, <2>3, <2>5, <2>6, <2>7 DEF IInv, Abstract, Calls!Next
<1> QED BY <1>5, <1>6

LEMMA ClientWritesStep ==
  ASSUME IInv, ClientWrites
  PROVE  IInv' /\ Abstract
<1>1. OnWay /\ client = "write" /\ cOut # <<>>
  BY StageOf DEF ClientWrites, Cut, OnWay
<1>2. /\ c2s' = Append(c2s, Head(cOut)) /\ cOut' = Tail(cOut) /\ cGot' = <<>>
      /\ client' = IF Tail(cOut) = <<>> THEN "head" ELSE "write"
      /\ UNCHANGED <<cLen, task, sOut, sGot, sLen, req, backoff, s2c, asked, served, results>>
      /\ Len(c2s) < Cap
  BY DEF ClientWrites, taskVars, history
<1> DEFINE k == CallDone + Len(sGot)
<1>3. k \in Nat /\ Now' = Now /\ CallDone' = CallDone /\ k' = k /\ CallDone \in Nat
  BY <1>2, LenProperties, Lengths DEF IInv, Buffers, CallDone, Now
<1>4. /\ c2s' \in Seq(Cell) /\ Len(c2s') = Len(c2s) + 1 /\ Holds(c2s', Now, CallLen[Now], k)
      /\ cOut' \in Seq(Cell) /\ Len(cOut') = Len(cOut) - 1 /\ Holds(cOut', Now, CallLen[Now], k + Len(c2s'))
      /\ Len(c2s) \in Nat /\ Len(cOut) \in Nat \ {0}
  <2>1. c2s \in Seq(Cell) /\ cOut \in Seq(Cell) /\ Holds(c2s, Now, CallLen[Now], k)
        /\ Holds(cOut, Now, CallLen[Now], k + Len(c2s))
    BY <1>1 DEF IInv, Buffers, OnWay
  <2> HIDE DEF k
  <2> QED BY <1>1, <1>2, <1>3, <2>1, PassOne
<1>5. OnWay'
  <2>1. Unserved' /\ Waiting'
    BY <1>1, <1>2 DEF OnWay, Unserved, Waiting, Left, Gone
  <2>2. /\ Holds(c2s, Now, CallLen[Now], k)' /\ Holds(cOut, Now, CallLen[Now], k + Len(c2s))'
        /\ Holds(sGot, Now, CallLen[Now], CallDone)'
    BY <1>1, <1>2, <1>3, <1>4 DEF Holds, OnWay
  <2>3. /\ k' + Len(c2s') + Len(cOut') <= HeaderLen + CallLen'[Now']
        /\ client # "away" => k' + Len(c2s') + Len(cOut') = HeaderLen + CallLen'[Now']
    BY <1>1, <1>2, <1>3, <1>4 DEF OnWay
  <2> QED BY <1>1, <1>2, <1>3, <2>1, <2>2, <2>3 DEF OnWay
<1>6. Tally' /\ Buffers'
  BY <1>1, <1>2, <1>4, Lengths DEF IInv, Tally, Buffers
<1> QED BY <1>2, <1>5, <1>6 DEF IInv, Stage, Abstract, history

LEMMA ClientReadsStep ==
  ASSUME IInv, ClientReads
  PROVE  IInv' /\ Abstract
<1>1. Replying /\ client \in {"head", "body"} /\ s2c # <<>>
  BY DEF ClientReads, IInv, Stage, Quiet, OnWay, Cut, Serving, Abandoned, Pipes, Gone, Left
<1>2. /\ cGot' = Append(cGot, Head(s2c)) /\ s2c' = Tail(s2c)
      /\ Len(cGot) < (IF client = "head" THEN HeaderLen ELSE cLen)
      /\ UNCHANGED <<client, cOut, cLen, task, sOut, sGot, sLen, req, backoff, c2s, asked, served, results>>
  BY DEF ClientReads, taskVars, history
<1>3. ReplyDone \in Nat /\ Now' = Now /\ ReplyDone' = ReplyDone
  BY <1>2, Lengths DEF ReplyDone, Now
<1> DEFINE n == ReplyLen[Now]
<1>4. /\ cGot' \in Seq(Cell) /\ Len(cGot') = Len(cGot) + 1 /\ Holds(cGot', Now, n, ReplyDone)
      /\ s2c' \in Seq(Cell) /\ Len(s2c') = Len(s2c) - 1 /\ Holds(s2c', Now, n, ReplyDone + Len(cGot'))
      /\ Len(cGot) \in Nat /\ Len(s2c) \in Nat \ {0}
  <2>1. cGot \in Seq(Cell) /\ s2c \in Seq(Cell) /\ Holds(cGot, Now, n, ReplyDone)
        /\ Holds(s2c, Now, n, ReplyDone + Len(cGot))
    BY <1>1 DEF IInv, Buffers, Replying
  <2> HIDE DEF n
  <2> QED BY <1>1, <1>2, <1>3, <2>1, PassOne
<1>5. Replying'
  <2>1. Served' /\ Waiting'
    BY <1>1, <1>2 DEF Replying, Served, Waiting
  <2>2. /\ Holds(cGot, Now, ReplyLen[Now], ReplyDone)'
        /\ Holds(s2c, Now, ReplyLen[Now], ReplyDone + Len(cGot))'
    BY <1>2, <1>3, <1>4 DEF Holds
  <2>3. ReplyDone + Len(cGot') + Len(s2c') = ReplyDone + Len(cGot) + Len(s2c)
    BY <1>3, <1>4
  <2>4. Holds(sOut, Now, ReplyLen[Now], ReplyDone + Len(cGot) + Len(s2c))'
    BY <1>1, <1>2, <1>3, <2>3 DEF Holds, Replying
  <2>5. ReplyDone' + Len(cGot') + Len(s2c') + Len(sOut') = HeaderLen + ReplyLen[Now]
    BY <1>1, <1>2, <1>3, <2>3 DEF Replying
  <2> QED BY <1>1, <1>2, <1>3, <2>1, <2>2, <2>4, <2>5 DEF Replying
<1>6. Tally' /\ Buffers'
  BY <1>1, <1>2, <1>4, Lengths DEF IInv, Tally, Buffers
<1> QED BY <1>2, <1>5, <1>6 DEF IInv, Stage, Abstract, history

LEMMA ClientHasHeaderStep ==
  ASSUME IInv, ClientHasHeader
  PROVE  IInv' /\ Abstract
<1>1. Replying /\ client = "head" /\ Len(cGot) = HeaderLen
  <2>1. client = "head" /\ Len(cGot) = HeaderLen /\ cGot # <<>>
    BY Lengths DEF ClientHasHeader
  <2> QED BY <2>1 DEF IInv, Stage, Quiet, OnWay, Cut, Serving, Abandoned, ClientQuiet, Gone, Left
<1>2. cGot[1].len = ReplyLen[Now]
  BY <1>1, HeaderRead DEF Replying, ReplyDone
<1>3. ReplyLen[Now] \in Nat /\ ReplyLen[Now] <= MaxFrame
  BY <1>1, ServedFacts, Lengths DEF Replying
<1>4. /\ client' = "body" /\ cLen' = ReplyLen[Now] /\ cGot' = <<>>
      /\ UNCHANGED <<cOut, task, sOut, sGot, sLen, req, backoff, c2s, s2c, asked, served, results>>
  BY <1>2, <1>3, Lengths DEF ClientHasHeader, history, taskVars
<1>5. Replying'
  <2>1. Served' /\ Waiting' /\ Now' = Now
    BY <1>1, <1>4 DEF Replying, Served, Waiting, Now
  <2>2. ReplyDone = 0 /\ ReplyDone' = HeaderLen /\ Len(cGot') = 0 /\ Holds(cGot', Now, ReplyLen[Now], HeaderLen)
    BY <1>1, <1>4 DEF ReplyDone, Holds
  <2>3. ReplyDone + Len(cGot) = HeaderLen /\ (ReplyDone + Len(cGot))' = HeaderLen
    BY <1>1, <2>2, Lengths
  <2>4. Holds(s2c, Now, ReplyLen[Now], ReplyDone + Len(cGot))'
    BY <1>1, <1>4, <2>1, <2>3 DEF Replying, Holds
  <2>5. Holds(sOut, Now, ReplyLen[Now], ReplyDone + Len(cGot) + Len(s2c))'
    BY <1>1, <1>4, <2>1, <2>3 DEF Replying, Holds
  <2> QED BY <1>1, <1>3, <1>4, <2>1, <2>2, <2>3, <2>4, <2>5 DEF Replying
<1>6. Tally' /\ Buffers'
  BY <1>1, <1>3, <1>4, Lengths DEF IInv, Tally, Buffers
<1> QED BY <1>4, <1>5, <1>6 DEF IInv, Stage, Abstract, history

LEMMA ClientHasReplyStep ==
  ASSUME IInv, ClientHasReply
  PROVE  IInv' /\ Abstract
<1>1. Replying /\ client = "body" /\ Len(cGot) = cLen /\ cLen = ReplyLen[Now]
  BY StageOf DEF ClientHasReply, Replying
<1>2. /\ cGot \in Seq(Cell) /\ s2c \in Seq(Cell) /\ sOut \in Seq(Cell) /\ Now \in Call
      /\ ReplyLen[Now] \in Nat \ {0}
  BY <1>1, ServedFacts, Lengths DEF IInv, Buffers, Replying
<1>3. s2c = <<>> /\ sOut = <<>> /\ task = "head" /\ req = None
  <2>1. Len(s2c) \in Nat /\ Len(sOut) \in Nat /\ HeaderLen + ReplyLen[Now] + Len(s2c) + Len(sOut) = HeaderLen + ReplyLen[Now]
    BY <1>1, <1>2, LenProperties DEF Replying, ReplyDone
  <2>2. Len(s2c) = 0 /\ Len(sOut) = 0
    BY <1>2, <2>1, Lengths
  <2> QED BY <1>1, <1>2, <2>2, EmptySeq DEF Replying
<1>4. Whole(cGot) /\ Message(cGot) = Now
  BY <1>1, <1>2, BodyRead DEF Replying, ReplyDone
<1>5. /\ client' = "idle" /\ cGot' = <<>> /\ results' = Append(results, Now)
      /\ UNCHANGED <<cOut, cLen, task, sOut, sGot, sLen, req, backoff, c2s, s2c, asked, served>>
  BY <1>4 DEF ClientHasReply, Result, taskVars
<1>6. Len(results') = Len(asked) /\ results' \in Seq(Call \cup {"error", "left"})
  BY <1>1, <1>2, <1>5, PutOne DEF IInv, Tally, Replying, Waiting
<1>7. Quiet'
  BY <1>1, <1>3, <1>5, <1>6 DEF Quiet, ClientQuiet, TaskQuiet, Pipes, Replying
<1>8. Tally' /\ Buffers'
  BY <1>1, <1>5, <1>6, Lengths, ServedFacts DEF IInv, Tally, Buffers
<1>9. Calls!Return
  BY <1>1, <1>5 DEF Calls!Return, Calls!Waiting, Waiting, Replying, Served, Now
<1> QED BY <1>7, <1>8, <1>9 DEF IInv, Stage, Abstract, Calls!Next

LEMMA ClientFailsStep ==
  ASSUME IInv, ClientFails
  PROVE  IInv' /\ Abstract
<1>1. Cut
  BY StageOf DEF ClientFails, Quiet
<1>2. /\ client' = "idle" /\ cOut' = <<>> /\ cGot' = <<>> /\ results' = Append(results, "error")
      /\ UNCHANGED <<cLen, task, sOut, sGot, sLen, req, backoff, c2s, s2c, asked, served>>
  BY DEF ClientFails, Result, taskVars
<1>3. Len(results') = Len(asked) /\ results' \in Seq(Call \cup {"error", "left"})
  BY <1>1, <1>2, PutOne DEF IInv, Tally, Cut, Waiting
<1>4. Quiet'
  BY <1>1, <1>2, <1>3 DEF Quiet, ClientQuiet, TaskQuiet, Pipes, Cut
<1>5. Tally' /\ Buffers'
  BY <1>1, <1>2, <1>3, Lengths, ServedFacts DEF IInv, Tally, Buffers
<1>6. Calls!Fail
  BY <1>1, <1>2 DEF Calls!Fail, Calls!Waiting, Waiting, Cut
<1> QED BY <1>4, <1>5, <1>6 DEF IInv, Stage, Abstract, Calls!Next

LEMMA LeaveStep ==
  ASSUME IInv, Leave
  PROVE  IInv' /\ Abstract
<1>1. /\ client # "away" /\ client' = "away" /\ cOut' = <<>> /\ cGot' = <<>> /\ s2c' = <<>>
      /\ UNCHANGED <<cLen, task, sOut, sGot, sLen, req, backoff, c2s, asked, served>>
      /\ IF client = "idle" THEN results' = results ELSE results' = Append(results, "left")
  BY DEF Leave, taskVars
<1>2. Now' = Now /\ CallDone' = CallDone
  BY <1>1 DEF Now, CallDone
<1>3. CASE client = "idle"
  <2>1. Quiet /\ results' = results
    BY <1>1, <1>3, StageOf
  <2>2. Quiet'
    BY <1>1, <2>1 DEF Quiet, ClientQuiet, TaskQuiet, Pipes
  <2>3. Tally' /\ Buffers'
    BY <1>1, <2>1, Lengths DEF IInv, Tally, Buffers
  <2> QED BY <1>1, <2>1, <2>2, <2>3 DEF IInv, Stage, Abstract, history
<1>4. CASE client # "idle"
  <2>1. Waiting
    BY <1>1, <1>4 DEF IInv, Stage, Quiet, OnWay, Cut, Serving, Replying, Abandoned, Gone, Left
  <2>2. /\ results' = Append(results, "left") /\ Len(results') = Len(asked)
        /\ results' \in Seq(Call \cup {"error", "left"}) /\ results'[Len(results')] = "left"
    <3> DEFINE R == Call \cup {"error", "left"}
    <3>1. results \in Seq(R) /\ "left" \in R /\ results' = Append(results, "left")
      BY <1>1, <1>4 DEF IInv, Tally
    <3> HIDE DEF R
    <3>2. results' \in Seq(R) /\ Len(results') = Len(results) + 1 /\ results'[Len(results) + 1] = "left"
      BY <3>1, PutOne
    <3>3. Len(results) + 1 = Len(asked)
      BY <2>1 DEF Waiting
    <3> QED BY <3>1, <3>2, <3>3 DEF R
  <2>3. Left' /\ Gone'
    BY <1>1, <2>2 DEF Left, Gone
  <2>4. Tally' /\ Buffers'
    BY <1>1, <2>2, Lengths, ServedFacts DEF IInv, Tally, Buffers
  <2>5. Calls!Fail
    BY <1>1, <2>1, <2>2 DEF Calls!Fail, Calls!Waiting, Waiting
  <2>6. CASE OnWay
    <3>1. Unserved' /\ s2c' = <<>> /\ cOut' = <<>> /\ cGot' = <<>> /\ Len(cOut') = 0
      BY <1>1, <2>6 DEF Unserved, OnWay
    <3>2. /\ Holds(sGot, Now, CallLen[Now], CallDone)' /\ Holds(c2s, Now, CallLen[Now], CallDone + Len(sGot))'
          /\ Holds(cOut, Now, CallLen[Now], CallDone + Len(sGot) + Len(c2s))'
      BY <1>1, <1>2, <2>6, <3>1 DEF OnWay, Holds
    <3>3. Len(cOut) \in Nat /\ Len(sGot) \in Nat /\ Len(c2s) \in Nat /\ CallDone \in Nat
          /\ CallLen[Now] \in Nat
      BY <2>6, LenProperties, Lengths, ServedFacts DEF IInv, Buffers, CallDone, OnWay
    <3>4. CallDone + Len(sGot) + Len(c2s) + Len(cOut') <= HeaderLen + CallLen[Now]
      BY <2>6, <3>1, <3>3, Lengths DEF OnWay
    <3>5. OnWay'
      BY <1>1, <1>2, <2>3, <2>6, <3>1, <3>2, <3>4 DEF OnWay
    <3> QED BY <2>4, <2>5, <3>5 DEF IInv, Stage, Abstract, Calls!Next
  <2>7. CASE Cut
    <3>1. Quiet'
      BY <1>1, <2>2, <2>7 DEF Cut, Quiet, ClientQuiet, TaskQuiet, Pipes
    <3> QED BY <2>4, <2>5, <3>1 DEF IInv, Stage, Abstract, Calls!Next
  <2>8. CASE Serving
    <3>1. Serving'
      BY <1>1, <1>2, <2>3, <2>8 DEF Serving, Served, ClientQuiet, Pipes
    <3> QED BY <2>4, <2>5, <3>1 DEF IInv, Stage, Abstract, Calls!Next
  <2>9. CASE Replying
    <3>1. CASE sOut = <<>>
      <4>1. Quiet'
        BY <1>1, <2>2, <2>9, <3>1 DEF Replying, Quiet, ClientQuiet, TaskQuiet, Pipes
      <4> QED BY <2>4, <2>5, <4>1 DEF IInv, Stage, Abstract, Calls!Next
    <3>2. CASE sOut # <<>>
      <4>1. Abandoned'
        BY <1>1, <2>3, <2>9, <3>2 DEF Replying, Abandoned, ClientQuiet, Pipes
      <4> QED BY <2>4, <2>5, <4>1 DEF IInv, Stage, Abstract, Calls!Next
    <3> QED BY <3>1, <3>2
  <2> QED BY <1>1, <1>4, <2>6, <2>7, <2>8, <2>9 DEF IInv, Stage, Quiet, Abandoned, Gone
<1> QED BY <1>3, <1>4

----------------------------------------------------------------------------
(* The daemon's steps                                                        *)

LEMMA AcceptStep ==
  ASSUME IInv, Accept \/ AcceptFails
  PROVE  IInv' /\ Abstract
<1>1. /\ task = "backlog" /\ task' \in {"backlog", "head"} /\ backoff' \in 0 .. MaxBackoff
      /\ sGot' = sGot \/ (sGot' = <<>> /\ task' = "head")
      /\ task' = "backlog" => sGot' = sGot
      /\ UNCHANGED <<client, cOut, cGot, cLen, sOut, sLen, req, c2s, s2c, asked, served, results>>
  BY Lengths DEF Accept, AcceptFails, clientVars, history, IInv, Buffers
<1>2. sGot = <<>> /\ sGot' = <<>> /\ Len(sGot) = 0
  BY <1>1, StageOf DEF Quiet, TaskQuiet, OnWay
<1>3. Tally' /\ Buffers'
  BY <1>1, <1>2, Lengths DEF IInv, Tally, Buffers
<1>4. CASE Quiet
  <2>1. Quiet'
    BY <1>1, <1>2, <1>4 DEF Quiet, ClientQuiet, TaskQuiet, Pipes
  <2> QED BY <1>1, <1>3, <2>1 DEF IInv, Stage, Abstract, history
<1>5. CASE OnWay
  <2>1. CallDone = 0 /\ CallDone' = 0 /\ Now' = Now /\ sGot' = sGot
    BY <1>1, <1>2 DEF CallDone, Now
  <2>2. Unserved' /\ (Waiting' <=> Waiting) /\ (Left' <=> Left)
    BY <1>1, <1>5 DEF OnWay, Unserved, Waiting, Left, Gone
  <2>3. /\ Holds(sGot, Now, CallLen[Now], CallDone)' /\ Holds(c2s, Now, CallLen[Now], CallDone + Len(sGot))'
        /\ Holds(cOut, Now, CallLen[Now], CallDone + Len(sGot) + Len(c2s))'
        /\ (CallDone + Len(sGot) + Len(c2s) + Len(cOut) <= HeaderLen + CallLen[Now])'
        /\ (client # "away" => CallDone + Len(sGot) + Len(c2s) + Len(cOut) = HeaderLen + CallLen[Now])'
    BY <1>1, <1>5, <2>1 DEF OnWay, Holds
  <2>4. OnWay'
    BY <1>1, <1>2, <1>5, <2>1, <2>2, <2>3 DEF OnWay
  <2> QED BY <1>1, <1>3, <2>4 DEF IInv, Stage, Abstract, history
<1> QED BY <1>1, <1>4, <1>5, StageOf

LEMMA TaskReadsStep ==
  ASSUME IInv, TaskReads
  PROVE  IInv' /\ Abstract
<1>1. OnWay /\ task \in {"head", "body"} /\ c2s # <<>>
  BY DEF TaskReads, IInv, Stage, Quiet, Cut, Serving, Replying, Abandoned, Pipes
<1>2. /\ sGot' = Append(sGot, Head(c2s)) /\ c2s' = Tail(c2s)
      /\ Len(sGot) < (IF task = "head" THEN HeaderLen ELSE sLen)
      /\ UNCHANGED <<client, cOut, cGot, cLen, task, sOut, sLen, req, backoff, s2c, asked, served, results>>
  BY DEF TaskReads, clientVars, history
<1>3. CallDone \in Nat /\ Now' = Now /\ CallDone' = CallDone
  BY <1>2, Lengths DEF CallDone, Now
<1> DEFINE n == CallLen[Now]
<1>4. /\ sGot' \in Seq(Cell) /\ Len(sGot') = Len(sGot) + 1 /\ sGot' # <<>> /\ Holds(sGot', Now, n, CallDone)
      /\ c2s' \in Seq(Cell) /\ Len(c2s') = Len(c2s) - 1 /\ Holds(c2s', Now, n, CallDone + Len(sGot'))
      /\ Len(sGot) \in Nat /\ Len(c2s) \in Nat \ {0}
  <2>1. sGot \in Seq(Cell) /\ c2s \in Seq(Cell) /\ Holds(sGot, Now, n, CallDone)
        /\ Holds(c2s, Now, n, CallDone + Len(sGot))
    BY <1>1 DEF IInv, Buffers, OnWay
  <2> HIDE DEF n
  <2> QED BY <1>1, <1>2, <1>3, <2>1, PassOne
<1>5. OnWay'
  <2>1. Unserved' /\ (Waiting' <=> Waiting) /\ (Left' <=> Left)
    BY <1>1, <1>2 DEF OnWay, Unserved, Waiting, Left, Gone
  <2>2. /\ Holds(sGot, Now, CallLen[Now], CallDone)'
        /\ Holds(c2s, Now, CallLen[Now], CallDone + Len(sGot))'
    BY <1>2, <1>3, <1>4 DEF Holds
  <2>3. CallDone + Len(sGot') + Len(c2s') = CallDone + Len(sGot) + Len(c2s)
    BY <1>3, <1>4
  <2>4. Holds(cOut, Now, CallLen[Now], CallDone + Len(sGot) + Len(c2s))'
    BY <1>1, <1>2, <1>3, <2>3 DEF Holds, OnWay
  <2>5. /\ CallDone' + Len(sGot') + Len(c2s') + Len(cOut') <= HeaderLen + CallLen[Now]
        /\ client # "away" => CallDone' + Len(sGot') + Len(c2s') + Len(cOut') = HeaderLen + CallLen[Now]
    BY <1>1, <1>2, <1>3, <2>3 DEF OnWay
  <2> QED BY <1>1, <1>2, <1>3, <2>1, <2>2, <2>4, <2>5 DEF OnWay
<1>6. Tally' /\ Buffers'
  BY <1>1, <1>2, <1>4, Lengths DEF IInv, Tally, Buffers
<1> QED BY <1>2, <1>5, <1>6 DEF IInv, Stage, Abstract, history

(* The task ends before the call is dispatched or after the caller has left. *)
LEMMA CutInv ==
  ASSUME IInv, End, OnWay \/ (Serving /\ s2c = <<>>) \/ (Quiet /\ client = "away") \/ Abandoned,
         UNCHANGED <<clientVars, sLen, backoff, history>>
  PROVE  IInv'
<1>1. /\ task' = "ended" /\ sGot' = <<>> /\ sOut' = <<>> /\ req' = None /\ c2s' = <<>> /\ s2c' = s2c
      /\ UNCHANGED <<client, cOut, cGot, cLen, sLen, backoff, asked, served, results>>
  BY DEF End, clientVars, history
<1>2. Tally' /\ Buffers'
  BY <1>1, Lengths DEF IInv, Tally, Buffers
<1>3. s2c' = <<>> /\ cGot' = <<>> /\ TaskQuiet'
  BY <1>1 DEF OnWay, Serving, Quiet, Abandoned, Pipes, ClientQuiet, TaskQuiet
<1>4. CASE client \in {"write", "head"} /\ Waiting
  <2>1. OnWay \/ Serving
    BY <1>4 DEF Quiet, Abandoned, Gone
  <2>2. client = "write" <=> cOut # <<>>
    BY <1>4, <2>1 DEF OnWay, Serving, ClientQuiet, Left, Gone
  <2>3. Cut'
    BY <1>1, <1>3, <1>4, <2>2 DEF Cut, Waiting, Pipes
  <2> QED BY <1>2, <2>3 DEF IInv, Stage
<1>5. CASE ~(client \in {"write", "head"} /\ Waiting)
  <2>1. client = "away" /\ Len(results) = Len(asked) /\ cOut = <<>>
    BY <1>5 DEF OnWay, Serving, Quiet, Abandoned, Gone, Left, ClientQuiet
  <2>2. Quiet'
    BY <1>1, <1>3, <2>1 DEF Quiet, ClientQuiet, TaskQuiet, Pipes
  <2> QED BY <1>2, <2>2 DEF IInv, Stage
<1> QED BY <1>4, <1>5

LEMMA TaskHasHeaderStep ==
  ASSUME IInv, TaskHasHeader
  PROVE  IInv' /\ Abstract
<1>1. OnWay /\ task = "head" /\ Len(sGot) = HeaderLen
  <2>1. task = "head" /\ Len(sGot) = HeaderLen /\ sGot # <<>>
    BY Lengths DEF TaskHasHeader
  <2> QED BY <2>1 DEF IInv, Stage, Quiet, Cut, Serving, Replying, Abandoned, TaskQuiet
<1>2. sGot[1].len = CallLen[Now]
  BY <1>1, HeaderRead DEF OnWay, CallDone
<1>3. UNCHANGED history
  BY DEF TaskHasHeader
<1>4. CASE CallLen[Now] > MaxFrame
  <2>1. End /\ UNCHANGED <<clientVars, sLen, backoff, history>>
    BY <1>2, <1>4 DEF TaskHasHeader
  <2> QED BY <1>1, <1>3, <2>1, CutInv DEF Abstract
<1>5. CASE ~(CallLen[Now] > MaxFrame)
  <2>1. CallLen[Now] \in Nat /\ CallLen[Now] <= MaxFrame
    BY <1>1, <1>5, ServedFacts, Lengths DEF OnWay
  <2>2. /\ task' = "body" /\ sLen' = CallLen[Now] /\ sGot' = <<>>
        /\ UNCHANGED <<client, cOut, cGot, cLen, sOut, req, backoff, c2s, s2c, asked, served, results>>
    BY <1>2, <1>5 DEF TaskHasHeader, clientVars, history
  <2>3. Unserved' /\ (Waiting' <=> Waiting) /\ (Left' <=> Left) /\ Now' = Now
    BY <1>1, <2>2 DEF OnWay, Unserved, Waiting, Left, Gone, Now
  <2>4. CallDone = 0 /\ CallDone' = HeaderLen /\ Len(sGot') = 0 /\ Holds(sGot', Now, CallLen[Now], HeaderLen)
    BY <1>1, <2>2 DEF CallDone, Holds
  <2>5. CallDone + Len(sGot) = HeaderLen /\ (CallDone + Len(sGot))' = HeaderLen
    BY <1>1, <2>4, Lengths
  <2>6. /\ Holds(c2s, Now, CallLen[Now], CallDone + Len(sGot))'
        /\ Holds(cOut, Now, CallLen[Now], CallDone + Len(sGot) + Len(c2s))'
        /\ (CallDone + Len(sGot) + Len(c2s) + Len(cOut) <= HeaderLen + CallLen[Now])'
        /\ (client # "away" => CallDone + Len(sGot) + Len(c2s) + Len(cOut) = HeaderLen + CallLen[Now])'
    BY <1>1, <2>2, <2>3, <2>5 DEF OnWay, Holds
  <2>7. OnWay'
    BY <1>1, <2>2, <2>3, <2>4, <2>6 DEF OnWay
  <2>8. Tally' /\ Buffers'
    BY <2>1, <2>2, <2>4, Lengths DEF IInv, Tally, Buffers
  <2> QED BY <1>3, <2>7, <2>8 DEF IInv, Stage, Abstract
<1> QED BY <1>4, <1>5

LEMMA DispatchStep ==
  ASSUME IInv, Dispatch
  PROVE  IInv' /\ Abstract
<1>1. OnWay /\ task = "body" /\ Len(sGot) = sLen /\ sLen = CallLen[Now]
  BY StageOf DEF Dispatch, OnWay
<1>2. /\ sGot \in Seq(Cell) /\ c2s \in Seq(Cell) /\ cOut \in Seq(Cell) /\ Now \in Call
      /\ CallLen[Now] \in Nat \ {0} /\ asked # <<>>
  BY <1>1, ServedFacts, Lengths DEF IInv, Buffers, OnWay
<1>3. c2s = <<>> /\ cOut = <<>>
  <2>1. Len(c2s) \in Nat /\ Len(cOut) \in Nat /\ HeaderLen + CallLen[Now] + Len(c2s) + Len(cOut) <= HeaderLen + CallLen[Now]
    BY <1>1, <1>2, LenProperties DEF OnWay, CallDone
  <2>2. Len(c2s) = 0 /\ Len(cOut) = 0
    BY <1>2, <2>1, Lengths
  <2> QED BY <1>2, <2>2, EmptySeq
<1>4. Whole(sGot) /\ Message(sGot) = Now
  BY <1>1, <1>2, BodyRead DEF OnWay, CallDone
<1>5. CASE Now \in Garbled
  <2>1. End /\ UNCHANGED <<clientVars, sLen, backoff, history>>
    BY <1>4, <1>5 DEF Dispatch, history
  <2> QED BY <1>1, <2>1, CutInv DEF Abstract
<1>6. CASE Now \notin Garbled
  <2> DEFINE entry == [call |-> Len(asked), msg |-> Now]
  <2>1. /\ task' = "serve" /\ req' = Now /\ served' = Append(served, entry) /\ sGot' = <<>>
        /\ UNCHANGED <<client, cOut, cGot, cLen, sOut, sLen, backoff, c2s, s2c, asked, results>>
    BY <1>4, <1>6 DEF Dispatch, clientVars
  <2>2. entry \in [call : Nat, msg : Call] /\ entry.call = Len(asked) /\ entry.msg = Now
        /\ served \in Seq([call : Nat, msg : Call])
    BY <1>2, ServedFacts
  <2> HIDE DEF entry
  <2>3. /\ served' \in Seq([call : Nat, msg : Call]) /\ Len(served') = Len(served) + 1
        /\ served'[Len(served) + 1] = entry /\ Len(served) \in Nat
        /\ \A i \in 1 .. Len(served) : served'[i] = served[i]
    BY <2>1, <2>2, PutOne
  <2>4. Tally'
    BY <1>1, <2>1, <2>2, <2>3, ServedFacts DEF IInv, Tally, OnWay, Unserved
  <2>5. Buffers'
    BY <1>1, <1>2, <2>1, Lengths DEF IInv, Buffers
  <2>6. Served'
    BY <2>1, <2>2, <2>3 DEF Served
  <2>7. Serving'
    <3>1. (client = "head" /\ Waiting) \/ Left
      BY <1>1, <1>3 DEF OnWay
    <3>2. (client = "head" /\ Waiting)' \/ Left'
      BY <2>1, <3>1 DEF Waiting, Left, Gone
    <3> QED BY <1>1, <1>2, <1>3, <2>1, <2>6, <3>2 DEF Serving, OnWay, ClientQuiet, Pipes, Now
  <2>8. Calls!Serve
    <3>1. Calls!Waiting \/ (asked # <<>> /\ results[Len(results)] = "left")
      BY <1>1 DEF OnWay, Waiting, Left, Calls!Waiting
    <3>2. \A i \in 1 .. Len(served) : served[i].call # Len(asked)
      BY <1>1, ServedFacts DEF OnWay, Unserved
    <3>3. served' = Append(served, [call |-> Len(asked), msg |-> asked[Len(asked)]])
      BY <2>1 DEF entry, Now
    <3> QED BY <2>1, <3>1, <3>2, <3>3 DEF Calls!Serve
  <2> QED BY <2>4, <2>5, <2>7, <2>8 DEF IInv, Stage, Abstract, Calls!Next
<1> QED BY <1>5, <1>6

LEMMA ReplyStep ==
  ASSUME IInv, Reply
  PROVE  IInv' /\ Abstract
<1>1. Serving /\ req = Now /\ Now \in Call /\ UNCHANGED history
  BY StageOf, ServedFacts DEF Reply, Serving
<1> DEFINE n == ReplyLen[Now]
<1>2. n \in Nat \ {0}
  BY <1>1, Lengths
<1>3. CASE n > MaxFrame
  <2>1. End /\ UNCHANGED <<clientVars, sLen, backoff, history>>
    BY <1>1, <1>3 DEF Reply, Frame
  <2> QED BY <1>1, <2>1, CutInv DEF Abstract, Serving, Pipes
<1>4. CASE ~(n > MaxFrame)
  <2> DEFINE f == Header(n) \o Body(Now, n)
  <2>1. f \in Seq(Cell) /\ f # <<>> /\ Len(f) = HeaderLen + n /\ Holds(f, Now, n, 0)
    BY <1>1, <1>2, FrameFacts
  <2>2. /\ task' = "write" /\ sOut' = f
        /\ UNCHANGED <<client, cOut, cGot, cLen, sGot, sLen, req, backoff, c2s, s2c, asked, served, results>>
    BY <1>1, <1>4, <2>1 DEF Reply, Frame, clientVars, history
  <2> HIDE DEF f
  <2>3. Tally' /\ Buffers'
    BY <1>1, <2>1, <2>2, Lengths DEF IInv, Tally, Buffers, Serving
  <2>4. CASE client = "head" /\ Waiting
    <3>1. Waiting' /\ Served' /\ Now' = Now /\ ReplyDone' = 0 /\ n <= MaxFrame
      BY <1>1, <1>2, <1>4, <2>2, <2>4, Lengths DEF Waiting, Served, Now, ReplyDone, Serving
    <3>2. cGot' = <<>> /\ s2c' = <<>> /\ Len(cGot') = 0 /\ Len(s2c') = 0 /\ cOut' = <<>> /\ c2s' = <<>> /\ sGot' = <<>>
      BY <1>1, <2>2 DEF Serving, ClientQuiet, Pipes
    <3>3. Holds(sOut, Now, ReplyLen[Now], 0)' /\ Len(sOut') = HeaderLen + n
      BY <2>1, <2>2, <3>1 DEF Holds
    <3>4. Replying'
      BY <1>1, <1>2, <2>1, <2>2, <2>4, <3>1, <3>2, <3>3, Lengths DEF Replying, Serving, Holds
    <3> QED BY <1>1, <2>3, <3>4 DEF IInv, Stage, Abstract
  <2>5. CASE Left
    <3>1. Abandoned'
      BY <1>1, <2>1, <2>2, <2>5 DEF Abandoned, Gone, Left, Serving, ClientQuiet, Pipes
    <3> QED BY <1>1, <2>3, <3>1 DEF IInv, Stage, Abstract
  <2> QED BY <1>1, <2>4, <2>5 DEF Serving
<1> QED BY <1>3, <1>4

LEMMA TaskWritesStep ==
  ASSUME IInv, TaskWrites
  PROVE  IInv' /\ Abstract
<1>1. Replying /\ task = "write" /\ sOut # <<>> /\ req = Now
  BY StageOf DEF TaskWrites, Replying, Abandoned, Gone
<1>2. /\ s2c' = Append(s2c, Head(sOut)) /\ sOut' = Tail(sOut) /\ Len(s2c) < Cap
      /\ task' = (IF sOut' = <<>> THEN "head" ELSE "write")
      /\ req' = (IF sOut' = <<>> THEN None ELSE Now)
      /\ UNCHANGED <<client, cOut, cGot, cLen, sGot, sLen, backoff, c2s, asked, served, results>>
  BY <1>1 DEF TaskWrites, clientVars, history
<1> DEFINE k == ReplyDone + Len(cGot)
           n == ReplyLen[Now]
<1>3. k \in Nat /\ Now' = Now /\ ReplyDone' = ReplyDone /\ k' = k /\ ReplyDone \in Nat
  BY <1>2, LenProperties, Lengths DEF IInv, Buffers, ReplyDone, Now
<1>4. /\ s2c' \in Seq(Cell) /\ Len(s2c') = Len(s2c) + 1 /\ Holds(s2c', Now, n, k)
      /\ sOut' \in Seq(Cell) /\ Len(sOut') = Len(sOut) - 1 /\ Holds(sOut', Now, n, k + Len(s2c'))
      /\ Len(s2c) \in Nat /\ Len(sOut) \in Nat \ {0}
  <2>1. s2c \in Seq(Cell) /\ sOut \in Seq(Cell) /\ Holds(s2c, Now, n, k) /\ Holds(sOut, Now, n, k + Len(s2c))
    BY <1>1 DEF IInv, Buffers, Replying
  <2> HIDE DEF k, n
  <2> QED BY <1>1, <1>2, <1>3, <2>1, PassOne
<1>5. Replying'
  <2>1. Served' /\ Waiting'
    BY <1>1, <1>2 DEF Replying, Served, Waiting
  <2>2. /\ Holds(s2c, Now, ReplyLen[Now], ReplyDone + Len(cGot))'
        /\ Holds(sOut, Now, ReplyLen[Now], ReplyDone + Len(cGot) + Len(s2c))'
        /\ Holds(cGot, Now, ReplyLen[Now], ReplyDone)'
    BY <1>1, <1>2, <1>3, <1>4 DEF Holds, Replying
  <2>3. k' + Len(s2c') + Len(sOut') = HeaderLen + ReplyLen[Now]
    BY <1>1, <1>2, <1>3, <1>4 DEF Replying
  <2> QED BY <1>1, <1>2, <1>3, <2>1, <2>2, <2>3 DEF Replying
<1>6. Tally' /\ Buffers'
  BY <1>1, <1>2, <1>4, Lengths, ServedFacts DEF IInv, Tally, Buffers, Replying
<1> QED BY <1>2, <1>5, <1>6 DEF IInv, Stage, Abstract, history

LEMMA TaskFailsStep ==
  ASSUME IInv, TaskFails
  PROVE  IInv' /\ Abstract
<1>1. End /\ UNCHANGED <<clientVars, sLen, backoff, history>> /\ client = "away"
  BY DEF TaskFails
<1>2. OnWay \/ Quiet \/ Abandoned
  BY <1>1, StageOf DEF TaskFails, Serving
<1> QED BY <1>1, <1>2, CutInv DEF Abstract

----------------------------------------------------------------------------
(* Theorems                                                                  *)

LEMMA InitInv == Init => IInv /\ Calls!Init
<1> SUFFICES ASSUME Init PROVE IInv /\ Calls!Init OBVIOUS
<1>1. /\ asked = <<>> /\ served = <<>> /\ results = <<>> /\ client = "away" /\ task = "none"
      /\ c2s = <<>> /\ s2c = <<>> /\ cOut = <<>> /\ sOut = <<>> /\ cGot = <<>> /\ sGot = <<>>
      /\ cLen = 0 /\ sLen = 0 /\ req = None /\ backoff = 0
  BY DEF Init
<1>2. Tally /\ Buffers
  BY <1>1, Lengths DEF Tally, Buffers
<1>3. Quiet
  BY <1>1 DEF Quiet, ClientQuiet, TaskQuiet, Pipes
<1> QED BY <1>1, <1>2, <1>3 DEF IInv, Stage, Calls!Init

LEMMA NextInv ==
  ASSUME IInv, [Next]_vars
  PROVE  IInv' /\ Abstract
<1>1. CASE UNCHANGED vars
  <2>1. /\ UNCHANGED <<client, cOut, cGot, cLen, task, sOut, sGot, sLen, req, backoff, c2s, s2c>>
        /\ UNCHANGED <<asked, served, results>>
    BY <1>1 DEF vars, clientVars, taskVars, history
  <2>2. Tally' /\ Buffers'
    BY <2>1 DEF IInv, Tally, Buffers
  <2>3. Stage'
    BY <2>1 DEF IInv, Stage, Quiet, OnWay, Cut, Serving, Replying, Abandoned, Waiting, Gone, Left, Served,
                Unserved, Holds, Now, CallDone, ReplyDone, ClientQuiet, TaskQuiet, Pipes
  <2> QED BY <2>1, <2>2, <2>3 DEF IInv, Abstract, history
<1>2. CASE Next
  BY <1>2, ConnectStep, RequestStep, LeaveStep, ClientWritesStep, ClientReadsStep, ClientHasHeaderStep,
     ClientHasReplyStep, ClientFailsStep, AcceptStep, TaskReadsStep, TaskHasHeaderStep, DispatchStep,
     ReplyStep, TaskWritesStep, TaskFailsStep
     DEF Next, ClientStep, TaskStep
<1> QED BY <1>1, <1>2

LEMMA Invariance == Spec => []IInv
  BY InitInv, NextInv, PTL DEF Spec

LEMMA InvTypeOK == IInv => TypeOK
<1> SUFFICES ASSUME IInv PROVE TypeOK OBVIOUS
<1>1. client \in {"away", "idle", "write", "head", "body"}
      /\ task \in {"none", "backlog", "head", "body", "serve", "write", "ended"}
  BY DEF IInv, Stage, Quiet, OnWay, Cut, Serving, Replying, Abandoned, Gone, Left
<1>2. /\ Len(cGot) \in Nat /\ (Len(cGot) <= HeaderLen \/ Len(cGot) <= MaxFrame)
      /\ Len(sGot) \in Nat /\ (Len(sGot) <= HeaderLen \/ Len(sGot) <= MaxFrame)
  BY Lengths, LenProperties DEF IInv, Buffers
<1> QED BY <1>1, <1>2 DEF IInv, Tally, Buffers, TypeOK

(* Bytes that neither end has yet are still in one of the queues.             *)
LEMMA InvNoGridlock == IInv => NoGridlock
<1> SUFFICES ASSUME IInv, client \in {"write", "head", "body"}, ~ClientCan PROVE TaskCan
  BY DEF NoGridlock
<1>1. /\ Cap \in Nat /\ Cap # 0 /\ HeaderLen \in Nat
      /\ Len(c2s) \in Nat /\ Len(s2c) \in Nat /\ Len(sGot) \in Nat /\ Len(cGot) \in Nat
      /\ (c2s = <<>> <=> Len(c2s) = 0) /\ (s2c = <<>> <=> Len(s2c) = 0)
  BY LengthAssumption, LenProperties, EmptySeq DEF IInv, Buffers
<1>2. ~Quiet /\ ~Abandoned /\ ~Cut
  BY <1>1 DEF Quiet, Abandoned, Gone, Cut, ClientCan
<1>3. CASE Serving
  BY <1>3 DEF Serving, TaskCan
<1>4. CASE OnWay
  <2>1. CASE task = "backlog" \/ c2s # <<>>
    BY <1>4, <2>1 DEF OnWay, TaskCan
  <2>2. CASE task # "backlog" /\ c2s = <<>>
    <3>1. client # "write" /\ cOut = <<>> /\ Len(cOut) = 0 /\ Len(c2s) = 0
      BY <1>1, <1>4, <2>2 DEF ClientCan, OnWay
    <3>2. PICK n \in Nat \ {0} : n = CallLen[Now]
      BY <1>4, ServedFacts, Lengths DEF OnWay
    <3>3. CallDone + Len(sGot) + 0 + 0 = HeaderLen + n /\ task \in {"head", "body"}
          /\ (task = "body" => sLen = n)
      BY <1>4, <2>2, <3>1, <3>2 DEF OnWay
    <3>4. task = "body"
      <4>1. CASE task = "head"
        <5>1. Len(sGot) <= HeaderLen /\ CallDone = 0
          BY <4>1 DEF IInv, Buffers, CallDone
        <5>2. FALSE
          BY <1>1, <3>2, <3>3, <5>1
        <5> QED BY <5>2
      <4> QED BY <3>3, <4>1
    <3>5. Len(sGot) = n
      BY <1>1, <3>2, <3>3, <3>4 DEF CallDone
    <3> QED BY <3>3, <3>4, <3>5 DEF TaskCan
  <2> QED BY <2>1, <2>2
<1>5. CASE Replying
  <2>1. s2c = <<>> /\ Len(s2c) = 0
    BY <1>1, <1>5 DEF Replying, ClientCan
  <2>2. CASE sOut # <<>>
    BY <1>1, <1>5, <2>1, <2>2 DEF Replying, TaskCan
  <2>3. CASE sOut = <<>>
    <3>1. PICK n \in Nat \ {0} : n = ReplyLen[Now]
      BY <1>5, ServedFacts, Lengths DEF Replying
    <3>2. ReplyDone + Len(cGot) + 0 + 0 = HeaderLen + n /\ (client = "body" => cLen = n)
          /\ client \in {"head", "body"} /\ Len(sOut) = 0
      BY <1>5, <2>1, <2>3, <3>1 DEF Replying
    <3>3. CASE client = "head"
      <4>1. Len(cGot) <= HeaderLen /\ ReplyDone = 0
        BY <3>3 DEF IInv, Buffers, ReplyDone
      <4>2. FALSE
        BY <1>1, <3>1, <3>2, <4>1
      <4> QED BY <4>2
    <3>4. CASE client = "body"
      <4>1. Len(cGot) = n
        BY <1>1, <3>1, <3>2, <3>4 DEF ReplyDone
      <4> QED BY <3>2, <3>4, <4>1 DEF ClientCan
    <3> QED BY <3>2, <3>3, <3>4
  <2> QED BY <2>2, <2>3
<1> QED BY <1>2, <1>3, <1>4, <1>5 DEF IInv, Stage

(* The two ends never wait for each other: as long as a call is under way     *)
(* there is a byte to move, a frame to look at or an error to return, for    *)
(* buffers down to a single byte and bodies of every length.                 *)
THEOREM FramingNeverGridlocks == Spec => []NoGridlock
  BY Invariance, InvNoGridlock, PTL

(* The two ends and the socket between them keep their types: no buffer and   *)
(* no read grows past its limit, for every capacity and length.              *)
THEOREM FramingTypeCorrect == Spec => []TypeOK
  BY Invariance, InvTypeOK, PTL

(* The framed stream implements one call at a time for bodies of every        *)
(* length, buffers of every size and every set of requests: frames never     *)
(* slip, whatever fails and whoever leaves.                                  *)
THEOREM FramingImplementsCalls == Spec => CallsAreOnce
<1>1. Abstract => [Calls!Next]_(Calls!vars)
  BY DEF Abstract, history, Calls!vars
<1> QED BY <1>1, InitInv, NextInv, Invariance, PTL DEF Spec, CallsAreOnce, Calls!Spec
=============================================================================
