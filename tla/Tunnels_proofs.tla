-------------------------- MODULE Tunnels_proofs --------------------------
(***************************************************************************)
(* What holds of Tunnels for any number of attempts and any capacities.    *)
(*                                                                         *)
(* WaitIsAnswered says of a waiting handler that a frame or a tunnel will  *)
(* end its wait (Promised).  It holds step by step, because each step that *)
(* takes one of these away puts the next in its place: an open frame is    *)
(* moved, becomes a tunnel or its refusal, a tunnel that ends has reported *)
(* its close, and a close frame is moved until the receive loop takes it.  *)
(*                                                                         *)
(* ResponseIsIntact is about the order of frames across four carriers: the *)
(* daemon's outq, the frame the bridge holds, the wire and the receive     *)
(* loop.  Their concatenation is one sequence (Upward) that the bridge     *)
(* leaves as it is: a sender adds at its end, the receiver takes from its  *)
(* front, a break or a crash leaves a part of it without a gap.  What is   *)
(* on Upward then follows what the customer was given (InOrder), a clean   *)
(* close is on it only behind all chunks of a reader that is done          *)
(* (CleanIsLast), and nothing is on it before the tunnel is (Fresh), of    *)
(* which there is one, for Downward holds an open frame once (OpensOnce).  *)
(*                                                                         *)
(* Two theorems are about what the others and the model rely on: closeOnce *)
(* has one runner (OnceIsHeld), and the sequence that stands for the       *)
(* manager's map has an attempt once and every running tunnel within reach *)
(* (MapInv).                                                               *)
(***************************************************************************)
EXTENDS Tunnels, SequenceTheorems, TLAPS

-----------------------------------------------------------------------------
(* Facts about queues and frames.                                           *)

\* A queue keeps what it held when an entry is added.
LEMMA Adding ==
  ASSUME NEW S, NEW s \in Seq(S), NEW x \in S
  PROVE  /\ Append(s, x) \in Seq(S) /\ Len(Append(s, x)) = Len(s) + 1
         /\ Contains(Append(s, x), x)
         /\ \A y : Contains(s, y) => Contains(Append(s, x), y)
<1>1. Append(s, x) \in Seq(S) /\ Len(Append(s, x)) = Len(s) + 1
  OBVIOUS
<1>2. \A i \in 1 .. Len(s) : Append(s, x)[i] = s[i]
  OBVIOUS
<1>3. Append(s, x)[Len(s) + 1] = x
  OBVIOUS
<1>4. Len(s) \in Nat
  OBVIOUS
<1> QED BY <1>1, <1>2, <1>3, <1>4 DEF Contains

\* What is taken from a queue was in it, and all else stays.
LEMMA Taking ==
  ASSUME NEW S, NEW s \in Seq(S), s # <<>>
  PROVE  /\ Head(s) \in S /\ Tail(s) \in Seq(S) /\ Len(Tail(s)) <= Len(s)
         /\ \A y : Contains(s, y) => y = Head(s) \/ Contains(Tail(s), y)
<1>1. /\ Head(s) \in S /\ Tail(s) \in Seq(S) /\ Len(Tail(s)) = Len(s) - 1
      /\ Len(s) \in Nat \ {0}
  OBVIOUS
<1>2. ASSUME NEW y, Contains(s, y), y # Head(s) PROVE Contains(Tail(s), y)
  <2>1. PICK i \in 1 .. Len(s) : s[i] = y
    BY <1>2 DEF Contains
  <2>2. i # 1
    BY <2>1, <1>2
  <2>3. i - 1 \in 1 .. Len(Tail(s)) /\ Tail(s)[i - 1] = y
    BY <2>1, <2>2, <1>1
  <2> QED BY <2>3 DEF Contains
<1> QED BY <1>1, <1>2

\* The map without an attempt is a shorter one.
LEMMA Removing ==
  ASSUME NEW a, OrderOK, TunnelsAssumption
  PROVE  /\ Without(a) \in Seq(Attempts) /\ Len(Without(a)) \in Nat
         /\ Len(Without(a)) <= Len(order) /\ Len(order) <= MaxConcurrent
<1>1. CASE Contains(order, a)
  <2> DEFINE i == CHOOSE j \in 1 .. Len(order) : order[j] = a
  <2>1. i \in 1 .. Len(order)
    BY <1>1 DEF Contains
  <2>2. order \in Seq(Attempts) /\ Len(order) \in Nat /\ Len(order) <= MaxConcurrent
    BY DEF OrderOK
  <2> HIDE DEF i
  <2> DEFINE l == SubSeq(order, 1, i - 1)
             r == SubSeq(order, i + 1, Len(order))
  <2>3. l \in Seq(Attempts) /\ Len(l) = i - 1
    BY <2>1, <2>2
  <2>4. r \in Seq(Attempts) /\ Len(r) = Len(order) - i
    BY <2>1, <2>2
  <2>5. RemoveAt(order, i) = l \o r
    BY DEF RemoveAt
  <2> HIDE DEF l, r
  <2>6. l \o r \in Seq(Attempts) /\ Len(l \o r) = Len(l) + Len(r)
    BY <2>3, <2>4, ConcatProperties, Zenon
  <2>7. Without(a) = RemoveAt(order, i)
    BY <1>1 DEF Without, i
  <2>8. Without(a) \in Seq(Attempts) /\ Len(Without(a)) = Len(l) + Len(r)
    BY <2>5, <2>6, <2>7, Zenon
  <2>9. Len(l) + Len(r) \in Nat /\ Len(l) + Len(r) <= Len(order)
    BY <2>1, <2>2, <2>3, <2>4
  <2> QED BY <2>2, <2>8, <2>9
<1>2. CASE ~Contains(order, a)
  BY <1>2 DEF Without, OrderOK
<1> QED BY <1>1, <1>2

\* The frames the two sides send.
LEMMA Frames ==
  ASSUME TunnelsAssumption, NEW a \in Attempts, NEW n \in Chunks, NEW why \in Reason
  PROVE  {Open(a), Data(a, n), Close(a, why), Update(a)} \subseteq Frame
<1>1. 0 \in Chunks
  BY DEF Chunks, TunnelsAssumption
<1> QED BY <1>1 DEF Open, Data, Close, Update, Frame, Reason
-----------------------------------------------------------------------------
(* The types.                                                               *)

\* A loop at work knows for whom, and a handler at work kept a stream.
Names == /\ loop.at # "idle" => loop.of \in Attempts
         /\ loop.at \in {"evicting", "notifying"} => loop.victim \in Attempts
Conns == \A a \in Attempts : Sink(a) => pipe[a].conn \in 1 .. streams
\* A tunnel that is dialled finds room on the map.
Room == loop.at \in {"evicting", "notifying", "dialling"} => Len(order) < MaxConcurrent
Typed == TypeOK /\ Names /\ Room /\ Conns

LEMMA InitTyped == TunnelsAssumption /\ Init => Typed
BY Frames DEF Init, Typed, TypeOK, ClientOK, ServerOK, WireOK, BridgeOK, InqOK, OutqOK,
   LoopOK, OrderOK, PumpOK, AnsweredOK, Names, Room, Conns, Sink, NewPipe, Pipe,
   NoPump, Pump, Free, Bridge, IdleLoop, Loop, Chunks, TunnelsAssumption, Reason

LEMMA Closes ==
  ASSUME TunnelsAssumption, NEW a \in Attempts
  PROVE  Close(a, "clean") \in Frame /\ Close(a, "error") \in Frame
<1>1. 0 \in Chunks
  BY DEF Chunks, TunnelsAssumption
<1> QED BY <1>1 DEF Close, Frame, Reason

\* A chunk more, below the bound.
LEMMA Counts ==
  ASSUME TunnelsAssumption, NEW a \in Attempts, NEW n \in Chunks,
         n < MaxChunks[a] \/ n < MaxAnswers[a]
  PROVE  n + 1 \in Chunks
<1>1. n \in Nat /\ MaxChunks[a] \in Nat /\ MaxAnswers[a] \in Nat
  BY DEF Chunks, TunnelsAssumption
<1>2. n + 1 \in 0 .. MaxChunks[a] \/ n + 1 \in 0 .. MaxAnswers[a]
  BY <1>1
<1> QED BY <1>2 DEF Chunks

\* What a step leaves alone keeps its type.
LEMMA Kept ==
  ASSUME Typed
  PROVE  /\ UNCHANGED client => ClientOK'
         /\ UNCHANGED server => ServerOK'
         /\ UNCHANGED wire => WireOK'
         /\ UNCHANGED bridge => BridgeOK'
         /\ UNCHANGED inq => InqOK'
         /\ UNCHANGED outq => OutqOK'
         /\ UNCHANGED loop => LoopOK' /\ Names'
         /\ UNCHANGED order => OrderOK'
         /\ UNCHANGED <<loop, order>> => Room'
         /\ UNCHANGED pump => PumpOK'
         /\ UNCHANGED answered => AnsweredOK'
         /\ UNCHANGED <<pipe, streams>> => Conns'
BY DEF Typed, TypeOK, client, server, wire, ClientOK, ServerOK, WireOK, BridgeOK,
   InqOK, OutqOK, LoopOK, Names, Room, OrderOK, PumpOK, AnsweredOK, Conns, Sink

LEMMA DaemonKept ==
  ASSUME Typed, UNCHANGED daemon
  PROVE  /\ BridgeOK' /\ InqOK' /\ OutqOK' /\ LoopOK' /\ Names' /\ OrderOK'
         /\ Room' /\ PumpOK' /\ AnsweredOK'
BY Kept DEF daemon

\* A handler that goes on, or ends, on the stream it kept.
LEMMA PipeMoves ==
  ASSUME Typed, NEW a \in Attempts, NEW q \in Pipe,
         pipe' = [pipe EXCEPT ![a] = q],
         receiver' \in {receiver, a, NoOne}, UNCHANGED streams,
         q.at \notin {"new", "over"} => q.conn \in 1 .. streams
  PROVE  ServerOK' /\ Conns'
BY DEF Typed, TypeOK, ServerOK, Conns, Sink

\* A frame more goes down the stream.
LEMMA DownMoves ==
  ASSUME TunnelsAssumption, Typed, NEW f \in Frame, SendDown(f)
  PROVE  WireOK' /\ streams' = streams
<1>1. /\ down \in Seq(Frame) /\ down' = Append(down, f) /\ Len(down) < WireBuf
      /\ UNCHANGED <<stream, streams, up>>
  BY DEF SendDown, Typed, TypeOK, WireOK
<1>2. down' \in Seq(Frame) /\ Len(down') = Len(down) + 1 /\ Len(down) \in Nat
  BY <1>1, Adding
<1> QED BY <1>1, <1>2 DEF Typed, TypeOK, WireOK, TunnelsAssumption

\* What the customer and the handler of his connection do.
LEMMA HandlerTyped ==
  ASSUME TunnelsAssumption, Typed, NEW a \in Attempts,
         \/ Accept(a) \/ Handler(a) \/ CustomerLeaves(a) \/ ReadChunk(a)
         \/ ReadEnd(a)
  PROVE  Typed'
<1> DEFINE p == pipe[a]
<1>p. /\ p \in Pipe /\ pipe \in [Attempts -> Pipe]
      /\ p.at \notin {"new", "over"} => p.conn \in 1 .. streams
  BY DEF Typed, TypeOK, ServerOK, Conns, Sink
<1>1. CASE CustomerLeaves(a)
  <2>1. ClientOK'
    BY <1>1 DEF CustomerLeaves, Typed, TypeOK, ClientOK
  <2> QED BY <1>1, <2>1, Kept, DaemonKept DEF CustomerLeaves, server, wire, Typed, TypeOK
<1>2. CASE Accept(a)
  <2> DEFINE q == [p EXCEPT !.at = IF stream = 0 THEN "over" ELSE "registered",
                            !.conn = stream]
  <2>1. pipe' = [pipe EXCEPT ![a] = q] /\ UNCHANGED <<receiver, streams>>
    BY <1>2, <1>p DEF Accept, wire
  <2>2. stream \in 0 .. MaxStreams /\ (stream # 0 => stream \in 1 .. streams)
    BY DEF Typed, TypeOK, WireOK, TunnelsAssumption
  <2>3. q \in Pipe
    BY <1>p, <2>2 DEF Pipe
  <2>4. q.at \notin {"new", "over"} => q.conn \in 1 .. streams
    BY <1>p, <2>2 DEF Pipe
  <2>5. ServerOK' /\ Conns'
    BY <2>1, <2>3, <2>4, PipeMoves
  <2> QED BY <1>2, <2>1, <2>5, Kept, DaemonKept DEF Accept, Typed, TypeOK
<1>3. CASE SendOpen(a)
  <2>1. PICK at \in {"pumping", "over"} :
          /\ SendDown(Open(a)) \/ SendFails(a)
          /\ pipe' = [pipe EXCEPT ![a].at = at]
          /\ UNCHANGED <<client, receiver, daemon>>
          /\ p.at = "registered"
    BY <1>3 DEF SendOpen
  <2> DEFINE q == [p EXCEPT !.at = at]
  <2>2. pipe' = [pipe EXCEPT ![a] = q]
    BY <2>1
  <2>3. q \in Pipe /\ (q.at \notin {"new", "over"} => q.conn \in 1 .. streams)
    BY <1>p, <2>1 DEF Pipe
  <2>4. WireOK' /\ streams' = streams
    BY <2>1, Frames, DownMoves, Kept DEF SendFails, wire, Reason, Chunks
  <2>5. ServerOK' /\ Conns'
    BY <2>1, <2>2, <2>3, <2>4, PipeMoves
  <2> QED BY <2>1, <2>4, <2>5, Kept, DaemonKept DEF Typed, TypeOK
<1>4. CASE SendData(a)
  <2>1. PICK at \in {"pumping", "over"}, once \in {p.once, "done"},
             ended \in {p.ended, "here"} :
          /\ SendDown(Data(a, asked[a])) \/ SendFails(a)
          /\ pipe' = [pipe EXCEPT ![a].at = at, ![a].once = once, ![a].ended = ended]
          /\ UNCHANGED <<client, receiver, daemon>>
          /\ p.at = "sending"
    <3>1. CASE /\ SendDown(Data(a, asked[a]))
               /\ pipe' = [pipe EXCEPT ![a].at = "pumping"]
      <4>1. pipe' = [pipe EXCEPT ![a].at = "pumping", ![a].once = p.once,
                                 ![a].ended = p.ended]
        BY <1>p, <3>1 DEF Pipe
      <4> QED BY <1>4, <3>1, <4>1 DEF SendData
    <3>2. CASE /\ SendFails(a)
               /\ pipe' = [pipe EXCEPT ![a].at = "over", ![a].once = "done",
                              ![a].ended = IF @ = "no" THEN "here" ELSE @]
      <4>1. CASE p.ended = "no"
        BY <1>4, <3>2, <4>1 DEF SendData
      <4>2. CASE p.ended # "no"
        BY <1>4, <3>2, <4>2 DEF SendData
      <4> QED BY <4>1, <4>2
    <3> QED BY <1>4, <3>1, <3>2 DEF SendData
  <2> DEFINE q == [p EXCEPT !.at = at, !.once = once, !.ended = ended]
  <2>2. pipe' = [pipe EXCEPT ![a] = q]
    BY <2>1
  <2>3. q \in Pipe /\ (q.at \notin {"new", "over"} => q.conn \in 1 .. streams)
    BY <1>p, <2>1 DEF Pipe
  <2>4. asked[a] \in Chunks
    BY DEF Typed, TypeOK, ClientOK
  <2>5. WireOK' /\ streams' = streams
    BY <2>1, <2>4, Frames, DownMoves, Kept DEF SendFails, wire, Reason
  <2>6. ServerOK' /\ Conns'
    BY <2>1, <2>2, <2>3, <2>5, PipeMoves
  <2> QED BY <2>1, <2>5, <2>6, Kept, DaemonKept DEF Typed, TypeOK
<1>5. CASE ReadGone(a) \/ ReadEnd(a)
  <2>1. /\ p.at = "pumping" /\ UNCHANGED <<client, receiver, wire, daemon>>
        /\ pipe' = [pipe EXCEPT ![a].at = "closing", ![a].once = "pump"]
    BY <1>5 DEF ReadGone, ReadEnd, Closing
  <2> DEFINE q == [p EXCEPT !.at = "closing", !.once = "pump"]
  <2>2. pipe' = [pipe EXCEPT ![a] = q]
    BY <2>1
  <2>3. q \in Pipe /\ (q.at \notin {"new", "over"} => q.conn \in 1 .. streams)
    BY <1>p, <2>1 DEF Pipe
  <2>4. ServerOK' /\ Conns'
    BY <2>1, <2>2, <2>3, PipeMoves DEF wire
  <2> QED BY <2>1, <2>4, Kept, DaemonKept DEF Typed, TypeOK
<1>6. CASE SendClose(a)
  <2>1. /\ p.at = "closing" /\ UNCHANGED <<client, receiver, daemon>>
        /\ SendDown(Close(a, "clean")) \/ SendFails(a)
        /\ pipe' = [pipe EXCEPT ![a].at = "over", ![a].once = "done",
                                ![a].ended = "here"]
    BY <1>6 DEF SendClose
  <2> DEFINE q == [p EXCEPT !.at = "over", !.once = "done", !.ended = "here"]
  <2>2. pipe' = [pipe EXCEPT ![a] = q]
    BY <2>1
  <2>3. q \in Pipe /\ (q.at \notin {"new", "over"} => q.conn \in 1 .. streams)
    BY <1>p, <2>1 DEF Pipe
  <2>4. WireOK' /\ streams' = streams
    BY <2>1, Frames, DownMoves, Kept DEF SendFails, wire, Reason, Chunks
  <2>5. ServerOK' /\ Conns'
    BY <2>1, <2>2, <2>3, <2>4, PipeMoves
  <2> QED BY <2>1, <2>4, <2>5, Kept, DaemonKept DEF Typed, TypeOK
<1>7. CASE ReadClosed(a)
  <2>1. /\ p.at = "pumping" /\ UNCHANGED <<client, receiver, wire, daemon>>
        /\ pipe' = [pipe EXCEPT ![a].at = "over"]
    BY <1>7 DEF ReadClosed
  <2> DEFINE q == [p EXCEPT !.at = "over"]
  <2>2. pipe' = [pipe EXCEPT ![a] = q]
    BY <2>1
  <2>3. q \in Pipe /\ (q.at \notin {"new", "over"} => q.conn \in 1 .. streams)
    BY <1>p, <2>1 DEF Pipe
  <2>4. ServerOK' /\ Conns'
    BY <2>1, <2>2, <2>3, PipeMoves DEF wire
  <2> QED BY <2>1, <2>4, Kept, DaemonKept DEF Typed, TypeOK
<1>8. CASE ReadChunk(a)
  <2>1. /\ p.at = "pumping" /\ UNCHANGED <<gone, got, receiver, wire, daemon>>
        /\ asked[a] < MaxChunks[a] /\ asked' = [asked EXCEPT ![a] = @ + 1]
        /\ pipe' = [pipe EXCEPT ![a].at = "sending"]
    BY <1>8 DEF ReadChunk
  <2> DEFINE q == [p EXCEPT !.at = "sending"]
  <2>2. pipe' = [pipe EXCEPT ![a] = q]
    BY <2>1
  <2>3. q \in Pipe /\ (q.at \notin {"new", "over"} => q.conn \in 1 .. streams)
    BY <1>p, <2>1 DEF Pipe
  <2>4. ServerOK' /\ Conns'
    BY <2>1, <2>2, <2>3, PipeMoves DEF wire
  <2>5. ClientOK'
    BY <2>1, Counts DEF Typed, TypeOK, ClientOK
  <2> QED BY <2>1, <2>4, <2>5, Kept, DaemonKept DEF Typed, TypeOK
<1> QED BY <1>1, <1>2, <1>3, <1>4, <1>5, <1>6, <1>7, <1>8 DEF Handler
\* The receive loop took a frame.
LEMMA UpTaken ==
  ASSUME Typed, Received
  PROVE  /\ WireOK' /\ UNCHANGED streams /\ Head(up) \in Frame
         /\ BridgeOK' /\ InqOK' /\ OutqOK' /\ LoopOK' /\ Names' /\ OrderOK'
         /\ Room' /\ PumpOK' /\ AnsweredOK'
<1>1. /\ up \in Seq(Frame) /\ up # <<>> /\ up' = Tail(up) /\ Len(up) <= WireBuf
      /\ UNCHANGED <<stream, streams, down, daemon>>
  BY DEF Received, Typed, TypeOK, WireOK
<1>2. /\ Head(up) \in Frame /\ up' \in Seq(Frame)
      /\ Len(up') = Len(up) - 1 /\ Len(up) \in Nat /\ Len(up') \in Nat
  BY <1>1
<1>3. Len(up') <= WireBuf
  BY <1>1, <1>2, TunnelsAssumption DEF TunnelsAssumption
<1> QED BY <1>1, <1>2, <1>3, DaemonKept DEF Typed, TypeOK, WireOK

\* What the receive loop of the stream does.
LEMMA ReceiveTyped ==
  ASSUME TunnelsAssumption, Typed, NEW a \in Attempts,
         \/ ReceiveData(a) \/ ReceiveFails(a) \/ ReceiverCloses(a)
         \/ ReceiveClose(a) \/ ReceiveDrops(a)
  PROVE  Typed'
<1> DEFINE p == pipe[a]
           f == Head(up)
<1>p. /\ p \in Pipe /\ pipe \in [Attempts -> Pipe]
      /\ p.at \notin {"new", "over"} => p.conn \in 1 .. streams
  BY DEF Typed, TypeOK, ServerOK, Conns, Sink
<1>1. CASE ReceiveData(a)
  <2>1. /\ Received /\ UNCHANGED <<gone, asked, server>>
        /\ got' = [got EXCEPT ![a] = Append(@, f.chunk)]
    BY <1>1 DEF ReceiveData, Received
  <2>2. f.chunk \in Chunks
    BY <2>1, UpTaken DEF Frame
  <2>3. Append(got[a], f.chunk) \in Seq(Chunks)
    BY <2>2 DEF Typed, TypeOK, ClientOK
  <2>4. ClientOK'
    BY <2>1, <2>3 DEF Typed, TypeOK, ClientOK
  <2> QED BY <2>1, <2>4, UpTaken, Kept DEF Typed, TypeOK, server
<1>2. CASE ReceiveFails(a)
  <2>1. /\ Received /\ UNCHANGED <<gone, asked, got>>
        /\ \/ /\ receiver' = a
              /\ pipe' = [pipe EXCEPT ![a].once = "receiver"]
              /\ Sink(a)
           \/ UNCHANGED server
    BY <1>2 DEF ReceiveFails, Received
  <2>2. CASE UNCHANGED server
    BY <2>1, <2>2, UpTaken, Kept DEF Typed, TypeOK, server, client
  <2>3. CASE /\ receiver' = a /\ Sink(a)
             /\ pipe' = [pipe EXCEPT ![a].once = "receiver"]
    <3> DEFINE q == [p EXCEPT !.once = "receiver"]
    <3>1. pipe' = [pipe EXCEPT ![a] = q]
      BY <2>3
    <3>2. q \in Pipe /\ (q.at \notin {"new", "over"} => q.conn \in 1 .. streams)
      BY <1>p DEF Pipe
    <3>3. ServerOK' /\ Conns'
      BY <2>1, <2>3, <3>1, <3>2, UpTaken, PipeMoves
    <3> QED BY <2>1, <3>3, UpTaken, Kept DEF Typed, TypeOK, client
  <2> QED BY <2>1, <2>2, <2>3
<1>3. CASE ReceiverCloses(a)
  <2>1. /\ SendDown(Close(a, "clean")) \/ SendFails(a)
        /\ receiver' = NoOne /\ UNCHANGED <<client, daemon>>
        /\ pipe' = [pipe EXCEPT ![a].once = "done", ![a].ended = "here"]
    BY <1>3 DEF ReceiverCloses, Closed
  <2> DEFINE q == [p EXCEPT !.once = "done", !.ended = "here"]
  <2>2. pipe' = [pipe EXCEPT ![a] = q]
    BY <2>1
  <2>3. q \in Pipe /\ (q.at \notin {"new", "over"} => q.conn \in 1 .. streams)
    BY <1>p, <2>1 DEF Pipe
  <2>4. WireOK' /\ streams' = streams
    BY <2>1, Frames, DownMoves, Kept DEF SendFails, wire, Reason, Chunks
  <2>5. ServerOK' /\ Conns'
    BY <2>1, <2>2, <2>3, <2>4, PipeMoves
  <2> QED BY <2>1, <2>4, <2>5, Kept, DaemonKept DEF Typed, TypeOK
<1>4. CASE ReceiveClose(a)
  <2>1. /\ Received /\ UNCHANGED <<gone, asked, got, receiver>>
        /\ pipe' = [pipe EXCEPT ![a].once = "done", ![a].ended = f.why]
    BY <1>4 DEF ReceiveClose, Received
  <2> DEFINE q == [p EXCEPT !.once = "done", !.ended = f.why]
  <2>2. pipe' = [pipe EXCEPT ![a] = q]
    BY <2>1
  <2>3. f.why \in Reason
    BY <2>1, UpTaken DEF Frame
  <2>4. q \in Pipe /\ (q.at \notin {"new", "over"} => q.conn \in 1 .. streams)
    BY <1>p, <2>3 DEF Pipe
  <2>5. ServerOK' /\ Conns'
    BY <2>1, <2>2, <2>4, UpTaken, PipeMoves
  <2> QED BY <2>1, <2>5, UpTaken, Kept DEF Typed, TypeOK, client
<1>5. CASE ReceiveDrops(a)
  <2>1. Received /\ UNCHANGED <<gone, asked, got, server>>
    BY <1>5 DEF ReceiveDrops, Received
  <2> QED BY <2>1, UpTaken, Kept DEF Typed, TypeOK, server, client
<1> QED BY <1>1, <1>2, <1>3, <1>4, <1>5

\* What the bridge does.
LEMMA BridgeTyped ==
  ASSUME TunnelsAssumption, Typed, BridgeTakes \/ BridgePuts
  PROVE  Typed'
<1>1. CASE BridgeTakes
  <2>0. UNCHANGED <<client, server, stream, streams, up, inq, loop, order, pump, answered>>
    BY <1>1 DEF BridgeTakes
  <2>1. CASE /\ down # <<>>
             /\ bridge' = [to |-> "inq", frame |-> Head(down)]
             /\ down' = Tail(down) /\ UNCHANGED outq
    <3>1. /\ down \in Seq(Frame) /\ Len(down) <= WireBuf
          /\ Head(down) \in Frame /\ down' \in Seq(Frame)
          /\ Len(down') = Len(down) - 1 /\ Len(down) \in Nat /\ Len(down') \in Nat
      BY <2>1 DEF Typed, TypeOK, WireOK
    <3>2. Len(down') <= WireBuf
      BY <3>1 DEF TunnelsAssumption
    <3>3. WireOK'
      BY <2>0, <3>1, <3>2 DEF Typed, TypeOK, WireOK
    <3>4. BridgeOK'
      BY <2>1, <3>1 DEF BridgeOK, Bridge
    <3> QED BY <2>0, <2>1, <3>3, <3>4, Kept DEF Typed, TypeOK, server
  <2>2. CASE /\ outq # <<>>
             /\ bridge' = [to |-> "up", frame |-> Head(outq)]
             /\ outq' = Tail(outq) /\ UNCHANGED down
    <3>1. /\ outq \in Seq(Frame) /\ Len(outq) <= QueueBuf
          /\ Head(outq) \in Frame /\ outq' \in Seq(Frame)
          /\ Len(outq') = Len(outq) - 1 /\ Len(outq) \in Nat /\ Len(outq') \in Nat
      BY <2>2 DEF Typed, TypeOK, OutqOK
    <3>2. OutqOK'
      BY <3>1 DEF OutqOK, TunnelsAssumption
    <3>3. BridgeOK'
      BY <2>2, <3>1 DEF BridgeOK, Bridge
    <3> QED BY <2>0, <2>2, <3>2, <3>3, Kept DEF Typed, TypeOK, server, wire
  <2> QED BY <1>1, <2>1, <2>2 DEF BridgeTakes
<1>2. CASE BridgePuts
  <2>0. /\ UNCHANGED <<client, server, stream, streams, down, outq, loop, order, pump, answered>>
        /\ bridge' = Free
    BY <1>2 DEF BridgePuts
  <2>1. BridgeOK'
    BY <2>0 DEF Free, BridgeOK, Bridge
  <2>2. CASE /\ bridge.to = "inq" /\ Len(inq) < QueueBuf
             /\ inq' = Append(inq, bridge.frame) /\ UNCHANGED up
    <3>1. bridge.frame \in Frame
      BY <2>2 DEF Typed, TypeOK, BridgeOK, Bridge
    <3>2. /\ inq \in Seq(Frame) /\ Len(inq) \in Nat
          /\ inq' \in Seq(Frame) /\ Len(inq') = Len(inq) + 1
      BY <2>2, <3>1, Adding DEF Typed, TypeOK, InqOK
    <3>3. InqOK'
      BY <2>2, <3>2 DEF InqOK, TunnelsAssumption
    <3> QED BY <2>0, <2>1, <2>2, <3>3, Kept DEF Typed, TypeOK, server, wire
  <2>3. CASE /\ bridge.to = "up" /\ Len(up) < WireBuf
             /\ up' = Append(up, bridge.frame) /\ UNCHANGED inq
    <3>1. bridge.frame \in Frame
      BY <2>3 DEF Typed, TypeOK, BridgeOK, Bridge
    <3>2. /\ up \in Seq(Frame) /\ Len(up) \in Nat
          /\ up' \in Seq(Frame) /\ Len(up') = Len(up) + 1
      BY <2>3, <3>1, Adding DEF Typed, TypeOK, WireOK
    <3>3. WireOK'
      BY <2>0, <2>3, <3>2 DEF Typed, TypeOK, WireOK, TunnelsAssumption
    <3> QED BY <2>0, <2>1, <2>3, <3>3, Kept DEF Typed, TypeOK, server
  <2> QED BY <1>2, <2>2, <2>3 DEF BridgePuts
<1> QED BY <1>1, <1>2
-----------------------------------------------------------------------------
(* The dispatch loop, the pumps, and the breaks.                            *)

\* The loop goes on, for an attempt.
LEMMA LoopMoves ==
  ASSUME NEW l \in Loop, loop' = l,
         l.at # "idle" => l.of \in Attempts,
         l.at \in {"evicting", "notifying"} => l.victim \in Attempts
  PROVE  LoopOK' /\ Names'
BY DEF LoopOK, Names

LEMMA LoopGoesTyped ==
  ASSUME Typed, NEW at \in {"refusing", "dialling"},
         loop.at = "opening", LoopGoes(at),
         at = "dialling" => Len(order) < MaxConcurrent
  PROVE  Typed'
<1> DEFINE l == [loop EXCEPT !.at = at]
<1>1. /\ loop' = l
      /\ UNCHANGED <<client, server, wire, bridge, inq, outq, order, pump, answered>>
  BY DEF LoopGoes
<1>2. loop \in Loop /\ loop.of \in Attempts
  BY DEF Typed, TypeOK, LoopOK, Names
<1>3. l \in Loop /\ l.of \in Attempts /\ l.at \notin {"evicting", "notifying"}
  BY <1>2 DEF Loop
<1>4. LoopOK' /\ Names'
  BY <1>1, <1>3, LoopMoves
<1>5. Room'
  BY <1>1, <1>2 DEF Room, Loop
<1> QED BY <1>1, <1>4, <1>5, Kept DEF Typed, TypeOK, server, wire

LEMMA IdleTyped == NoOne \notin Attempts => IdleLoop \in Loop /\ IdleLoop.at = "idle"
BY DEF IdleLoop, Loop

LEMMA PumpMoves ==
  ASSUME Typed, NEW a \in Attempts, NEW q \in Pump, pump' = [pump EXCEPT ![a] = q]
  PROVE  PumpOK'
BY DEF Typed, TypeOK, PumpOK

\* A frame more waits for the bridge.
LEMMA OutMoves ==
  ASSUME TunnelsAssumption, Typed, NEW f \in Frame, SendUp(f)
  PROVE  /\ OutqOK' /\ ClientOK' /\ ServerOK' /\ WireOK' /\ BridgeOK' /\ InqOK'
         /\ Conns'
<1>1. /\ outq \in Seq(Frame) /\ outq' = Append(outq, f) /\ Len(outq) < QueueBuf
      /\ UNCHANGED <<client, server, wire, bridge, inq>>
  BY DEF SendUp, Typed, TypeOK, OutqOK
<1>2. outq' \in Seq(Frame) /\ Len(outq') = Len(outq) + 1 /\ Len(outq) \in Nat
  BY <1>1, Adding
<1>3. OutqOK'
  BY <1>1, <1>2 DEF OutqOK, TunnelsAssumption
<1> QED BY <1>1, <1>3, Kept DEF server, wire

\* The loop took a frame.
LEMMA InTaken ==
  ASSUME Typed, NEW f, LoopTakes(f)
  PROVE  /\ InqOK' /\ ClientOK' /\ ServerOK' /\ WireOK' /\ BridgeOK' /\ OutqOK'
         /\ AnsweredOK' /\ Conns' /\ f \in Frame
<1>1. /\ inq \in Seq(Frame) /\ inq # <<>> /\ inq' = Tail(inq) /\ Len(inq) <= QueueBuf
      /\ f = Head(inq)
      /\ UNCHANGED <<client, server, wire, bridge, outq, answered>>
  BY DEF LoopTakes, Typed, TypeOK, InqOK
<1>2. /\ f \in Frame /\ inq' \in Seq(Frame)
      /\ Len(inq') = Len(inq) - 1 /\ Len(inq) \in Nat /\ Len(inq') \in Nat
  BY <1>1
<1>3. InqOK'
  BY <1>1, <1>2, TunnelsAssumption DEF InqOK, TunnelsAssumption
<1> QED BY <1>1, <1>2, <1>3, Kept DEF server, wire

\* An entry more in a mailbox.
LEMMA Entry ==
  ASSUME Typed, NEW a \in Attempts, NEW e \in {"data", "close"},
         pump' = [pump EXCEPT ![a].box = Append(@, e)]
  PROVE  PumpOK'
<1> DEFINE q == [pump[a] EXCEPT !.box = Append(@, e)]
<1>1. pump[a] \in Pump /\ pump[a].box \in Seq({"data", "close"})
  BY DEF Typed, TypeOK, PumpOK, Pump
<1>2. Append(pump[a].box, e) \in Seq({"data", "close"})
  BY <1>1
<1>3. q \in Pump
  BY <1>1, <1>2 DEF Pump
<1> QED BY <1>3, PumpMoves

LEMMA Posted ==
  ASSUME Typed, NEW a \in Attempts, PostTo(a)
  PROVE  PumpOK'
BY Entry, Kept DEF PostTo

\* What the dispatch loop does.
LEMMA LoopTyped ==
  ASSUME TunnelsAssumption, Typed, DispatchLoop
  PROVE  Typed'
<1>l. /\ loop \in Loop /\ order \in Seq(Attempts) /\ Len(order) <= MaxConcurrent
      /\ Len(order) \in Nat
      /\ loop.at # "idle" => loop.of \in Attempts
      /\ loop.at \in {"evicting", "notifying"} => loop.victim \in Attempts
  BY DEF Typed, TypeOK, LoopOK, OrderOK, Names
<1>i. IdleLoop \in Loop /\ IdleLoop.at = "idle"
  BY IdleTyped DEF TunnelsAssumption
<1>1. ASSUME NEW a \in Attempts, TakeOpen(a) PROVE Typed'
  <2> DEFINE l == [IdleLoop EXCEPT !.at = "opening", !.of = a]
  <2>1. LoopTakes(Open(a)) /\ loop' = l /\ UNCHANGED <<order, pump>>
    BY <1>1 DEF TakeOpen
  <2>2. l \in Loop /\ l.of \in Attempts /\ l.at \notin {"evicting", "notifying"}
    BY <1>i DEF Loop
  <2>3. LoopOK' /\ Names'
    BY <2>1, <2>2, LoopMoves
  <2>4. Room'
    BY <2>1, <1>i DEF Room, Loop
  <2> QED BY <2>1, <2>3, <2>4, InTaken, Kept DEF Typed, TypeOK
<1>2. ASSUME NEW a \in Attempts, TakeData(a) PROVE Typed'
  <2>1. PICK n \in Chunks :
          /\ LoopTakes(Data(a, n)) /\ UNCHANGED <<loop, order>>
          /\ \/ pump' = [pump EXCEPT ![a].box = Append(@, "data")]
             \/ UNCHANGED pump
    BY <1>2 DEF TakeData
  <2>2. PumpOK'
    BY <2>1, Entry, Kept
  <2> QED BY <2>1, <2>2, InTaken, Kept DEF Typed, TypeOK
<1>3. ASSUME NEW a \in Attempts, TakeClose(a) PROVE Typed'
  <2> DEFINE l == [IdleLoop EXCEPT !.at = "closing", !.of = a]
  <2>1. /\ LoopTakes(Close(a, "clean")) /\ loop' \in {l, loop}
        /\ order' = Without(a) /\ UNCHANGED pump
    BY <1>3 DEF TakeClose
  <2>2. l \in Loop /\ l.of \in Attempts /\ l.at \notin {"evicting", "notifying"}
    BY <1>i DEF Loop
  <2>3. LoopOK' /\ Names'
    BY <2>1, <2>2, LoopMoves, Kept
  <2>4. OrderOK'
    BY <2>1, <1>l, Removing DEF Typed, TypeOK, OrderOK, TunnelsAssumption
  <2>5. Room'
    BY <2>1, <1>i, <1>l DEF Room, Loop, LoopTakes
  <2> QED BY <2>1, <2>3, <2>4, <2>5, InTaken, Kept DEF Typed, TypeOK
<1>4. CASE PostClose
  <2>1. /\ PostTo(loop.of) /\ loop' = IdleLoop /\ loop.of \in Attempts
        /\ UNCHANGED <<client, server, wire, bridge, inq, outq, order, answered>>
    BY <1>4, <1>l DEF PostClose
  <2>2. LoopOK' /\ Names' /\ Room'
    BY <2>1, <1>i, LoopMoves DEF Room
  <2> QED BY <2>1, <2>2, Posted, Kept DEF Typed, TypeOK, server, wire
<1>5. CASE Refuse \/ BelowCap
  BY <1>5, LoopGoesTyped DEF Refuse, BelowCap
<1>6. CASE Evict
  <2> DEFINE l == [loop EXCEPT !.at = "evicting", !.victim = Head(order)]
  <2>1. /\ loop.at = "opening" /\ Len(order) >= MaxConcurrent
        /\ loop' = l /\ order' = Tail(order)
        /\ UNCHANGED <<client, server, wire, bridge, inq, outq, pump, answered>>
    BY <1>6 DEF Evict
  <2>2. order # <<>>
    BY <2>1, <1>l DEF TunnelsAssumption
  <2>3. /\ Head(order) \in Attempts /\ Tail(order) \in Seq(Attempts)
        /\ Len(Tail(order)) = Len(order) - 1
    BY <1>l, <2>2
  <2>4. l \in Loop /\ l.of \in Attempts /\ l.victim \in Attempts
    BY <1>l, <2>1, <2>3 DEF Loop
  <2>5. LoopOK' /\ Names'
    BY <2>1, <2>4, LoopMoves
  <2>6. OrderOK' /\ Room'
    BY <2>1, <2>3, <1>l DEF OrderOK, Room, TunnelsAssumption
  <2> QED BY <2>1, <2>5, <2>6, Kept DEF Typed, TypeOK, server, wire
<1>7. CASE PostEviction
  <2> DEFINE l == [loop EXCEPT !.at = "notifying"]
  <2>1. /\ PostTo(loop.victim) /\ loop' = l /\ loop.at = "evicting"
        /\ UNCHANGED <<client, server, wire, bridge, inq, outq, order, answered>>
    BY <1>7 DEF PostEviction
  <2>2. l \in Loop /\ l.of \in Attempts /\ l.victim \in Attempts
    BY <1>l, <2>1 DEF Loop
  <2>3. LoopOK' /\ Names'
    BY <2>1, <2>2, LoopMoves
  <2>4. Room'
    BY <2>1 DEF Room, Typed
  <2> QED BY <2>1, <2>2, <2>3, <2>4, <1>l, Posted, Kept DEF Typed, TypeOK, server, wire
<1>8. CASE NotifyEviction
  <2> DEFINE l == [loop EXCEPT !.at = "dialling", !.victim = NoOne]
  <2>1. /\ SendUp(Close(loop.victim, "error")) /\ loop' = l /\ loop.at = "notifying"
        /\ UNCHANGED <<order, pump, answered>>
    BY <1>8 DEF NotifyEviction
  <2>2. l \in Loop /\ l.of \in Attempts /\ l.at \notin {"evicting", "notifying"}
    BY <1>l, <2>1 DEF Loop
  <2>3. LoopOK' /\ Names'
    BY <2>1, <2>2, LoopMoves
  <2>4. Close(loop.victim, "error") \in Frame
    BY <2>1, <1>l, Closes
  <2>5. Room'
    BY <2>1 DEF Room, Typed
  <2> QED BY <2>1, <2>3, <2>4, <2>5, OutMoves, Kept DEF Typed, TypeOK
<1>9. CASE DialFails
  <2> DEFINE l == [loop EXCEPT !.at = "refusing"]
  <2>1. /\ loop' = l /\ loop.at = "dialling"
        /\ UNCHANGED <<client, server, wire, bridge, inq, outq, order, pump, answered>>
    BY <1>9 DEF DialFails, LoopGoes
  <2>2. l \in Loop /\ l.of \in Attempts /\ l.at \notin {"evicting", "notifying"}
    BY <1>l, <2>1 DEF Loop
  <2>3. LoopOK' /\ Names'
    BY <2>1, <2>2, LoopMoves
  <2>4. Room'
    BY <2>1, <1>l DEF Room, Loop
  <2> QED BY <2>1, <2>3, <2>4, Kept DEF Typed, TypeOK, server, wire
<1>10. CASE DialWorks
  <2> DEFINE q == [writer |-> "select", reader |-> "reading", box |-> <<>>,
                   why |-> "clean"]
  <2>1. /\ loop.at = "dialling" /\ loop' = IdleLoop /\ order' = Append(order, loop.of)
        /\ pump' = [pump EXCEPT ![loop.of] = q]
        /\ UNCHANGED <<client, server, wire, bridge, inq, outq, answered>>
    BY <1>10 DEF DialWorks
  <2>2. LoopOK' /\ Names' /\ Room'
    BY <2>1, <1>i, LoopMoves DEF Room
  <2>3. q \in Pump
    BY DEF Pump, Reason
  <2>4. PumpOK'
    BY <1>l, <2>1, <2>3, PumpMoves
  <2>5. Len(order) < MaxConcurrent
    BY <2>1 DEF Typed, Room
  <2>6. OrderOK'
    BY <2>1, <2>5, <1>l, Adding DEF OrderOK, TunnelsAssumption
  <2> QED BY <2>1, <2>2, <2>4, <2>6, Kept DEF Typed, TypeOK, server, wire
<1>11. CASE SendRefusal
  <2>1. /\ loop.at = "refusing" /\ SendUp(Close(loop.of, "error"))
        /\ loop' = IdleLoop /\ UNCHANGED <<order, pump, answered>>
    BY <1>11 DEF SendRefusal
  <2>2. LoopOK' /\ Names' /\ Room'
    BY <2>1, <1>i, LoopMoves DEF Room
  <2>3. Close(loop.of, "error") \in Frame
    BY <2>1, <1>l, Closes
  <2> QED BY <2>1, <2>2, <2>3, OutMoves, Kept DEF Typed, TypeOK
<1> QED BY <1>1, <1>2, <1>3, <1>4, <1>5, <1>6, <1>7, <1>8, <1>9, <1>10, <1>11
        DEF DispatchLoop
\* A writer that finishes.
LEMMA Finishes ==
  ASSUME Typed, NEW a \in Attempts, NEW why \in Reason,
         NEW box \in Seq({"data", "close"}), Finish(a, why, box)
  PROVE  PumpOK'
<1>1. PICK r \in {"done", "late", "stopped"} :
        pump' = [pump EXCEPT ![a].writer = "reporting", ![a].reader = r,
                             ![a].why = why, ![a].box = box]
  BY DEF Finish
<1> DEFINE q == [pump[a] EXCEPT !.writer = "reporting", !.reader = r,
                                !.why = why, !.box = box]
<1>2. pump' = [pump EXCEPT ![a] = q]
  BY <1>1
<1>3. q \in Pump
  BY <1>1 DEF Typed, TypeOK, PumpOK, Pump
<1> QED BY <1>2, <1>3, PumpMoves

\* What the two tasks of a pump and its destination do.
LEMMA PumpTyped ==
  ASSUME TunnelsAssumption, Typed, NEW a \in Attempts,
         \/ Tasks(a) \/ DestinationSends(a) \/ DestinationEnds(a) \/ Written(a)
         \/ WriteFails(a)
  PROVE  Typed'
<1> DEFINE p == pump[a]
<1>p. /\ p \in Pump /\ pump \in [Attempts -> Pump]
      /\ p.box \in Seq({"data", "close"})
  BY DEF Typed, TypeOK, PumpOK, Pump
<1>r. {"clean", "error"} = Reason
  BY DEF Reason
<1>1. CASE Publish(a)
  <2> DEFINE q == [p EXCEPT !.reader = IF @ = "late" THEN "stopped" ELSE "reading"]
  <2>1. /\ pump' = [pump EXCEPT ![a] = q] /\ SendUp(Data(a, answered[a]))
        /\ UNCHANGED <<loop, order, answered>>
    BY <1>1 DEF Publish
  <2>2. q \in Pump
    BY <1>p DEF Pump
  <2>3. PumpOK'
    BY <2>1, <2>2, PumpMoves
  <2>4. Data(a, answered[a]) \in Frame
    BY Frames DEF Typed, TypeOK, AnsweredOK, Reason
  <2> QED BY <2>1, <2>3, <2>4, OutMoves, Kept DEF Typed, TypeOK
<1>2. CASE Stop(a)
  <2> DEFINE q == [p EXCEPT !.reader = "stopped"]
  <2>1. /\ pump' = [pump EXCEPT ![a] = q]
        /\ UNCHANGED <<client, server, wire, bridge, inq, outq, loop, order, answered>>
    BY <1>2 DEF Stop, PumpOnly
  <2>2. q \in Pump
    BY <1>p DEF Pump
  <2>3. PumpOK'
    BY <2>1, <2>2, PumpMoves
  <2> QED BY <2>1, <2>3, Kept DEF Typed, TypeOK, server, wire
<1>3. CASE TakeEntry(a)
  <2>1. /\ p.box # <<>>
        /\ UNCHANGED <<client, server, wire, bridge, inq, outq, loop, order, answered>>
        /\ \/ pump' = [pump EXCEPT ![a].writer = "writing", ![a].box = Tail(@)]
           \/ Finish(a, "error", Tail(p.box))
    BY <1>3 DEF TakeEntry, PumpOnly
  <2>2. Tail(p.box) \in Seq({"data", "close"})
    BY <1>p, <2>1
  <2>3. CASE pump' = [pump EXCEPT ![a].writer = "writing", ![a].box = Tail(@)]
    <3> DEFINE q == [p EXCEPT !.writer = "writing", !.box = Tail(@)]
    <3>1. q \in Pump
      BY <1>p, <2>2 DEF Pump
    <3>2. pump' = [pump EXCEPT ![a] = q]
      BY <2>3
    <3>3. PumpOK'
      BY <3>1, <3>2, PumpMoves
    <3> QED BY <2>1, <3>3, Kept DEF Typed, TypeOK, server, wire
  <2>4. CASE Finish(a, "error", Tail(p.box))
    <3>1. PumpOK'
      BY <2>2, <2>4, <1>r, Finishes
    <3> QED BY <2>1, <3>1, Kept DEF Typed, TypeOK, server, wire
  <2> QED BY <2>1, <2>3, <2>4
<1>4. CASE SeeEnd(a)
  <2>1. /\ Finish(a, "clean", <<>>)
        /\ UNCHANGED <<client, server, wire, bridge, inq, outq, loop, order, answered>>
    BY <1>4 DEF SeeEnd, PumpOnly
  <2>e. <<>> \in Seq({"data", "close"}) /\ "clean" \in Reason
    BY DEF Reason
  <2>2. PumpOK'
    BY <2>1, <2>e, Finishes
  <2> QED BY <2>1, <2>2, Kept DEF Typed, TypeOK, server, wire
<1>5. CASE Report(a)
  <2> DEFINE q == [p EXCEPT !.writer = "telling"]
  <2>1. /\ pump' = [pump EXCEPT ![a] = q] /\ SendUp(Update(a))
        /\ UNCHANGED <<loop, order, answered>>
    BY <1>5 DEF Report
  <2>2. q \in Pump
    BY <1>p DEF Pump
  <2>3. PumpOK'
    BY <2>1, <2>2, PumpMoves
  <2>4. Update(a) \in Frame
    BY Frames, <1>r DEF Typed, TypeOK, AnsweredOK
  <2> QED BY <2>1, <2>3, <2>4, OutMoves, Kept DEF Typed, TypeOK
<1>6. CASE Tell(a)
  <2> DEFINE q == [p EXCEPT !.writer = "leaving"]
  <2>1. /\ pump' = [pump EXCEPT ![a] = q] /\ SendUp(Close(a, p.why))
        /\ UNCHANGED <<loop, order, answered>>
    BY <1>6 DEF Tell
  <2>2. q \in Pump /\ p.why \in Reason
    BY <1>p DEF Pump
  <2>3. PumpOK'
    BY <2>1, <2>2, PumpMoves
  <2>4. Close(a, p.why) \in Frame
    BY Closes, <2>2 DEF Reason
  <2> QED BY <2>1, <2>3, <2>4, OutMoves, Kept DEF Typed, TypeOK
<1>7. CASE Leave(a)
  <2> DEFINE q == [p EXCEPT !.writer = "gone"]
  <2>1. /\ pump' = [pump EXCEPT ![a] = q] /\ order' = Without(a)
        /\ UNCHANGED <<client, server, wire, bridge, inq, outq, loop, answered>>
    BY <1>7 DEF Leave
  <2>2. q \in Pump
    BY <1>p DEF Pump
  <2>3. PumpOK'
    BY <2>1, <2>2, PumpMoves
  <2>4. OrderOK' /\ Room'
    BY <2>1, Removing DEF Typed, TypeOK, OrderOK, Room, TunnelsAssumption
  <2> QED BY <2>1, <2>3, <2>4, Kept DEF Typed, TypeOK, server, wire
<1>8. CASE DestinationSends(a)
  <2> DEFINE q == [p EXCEPT !.reader = "holding"]
  <2>1. /\ pump' = [pump EXCEPT ![a] = q] /\ answered' = [answered EXCEPT ![a] = @ + 1]
        /\ answered[a] < MaxAnswers[a]
        /\ UNCHANGED <<client, server, wire, bridge, inq, outq, loop, order>>
    BY <1>8 DEF DestinationSends, PumpOnly
  <2>2. q \in Pump
    BY <1>p DEF Pump
  <2>3. PumpOK'
    BY <2>1, <2>2, PumpMoves
  <2>4. AnsweredOK'
    BY <2>1, Counts DEF Typed, TypeOK, AnsweredOK
  <2> QED BY <2>1, <2>3, <2>4, Kept DEF Typed, TypeOK, server, wire
<1>9. CASE DestinationEnds(a)
  <2> DEFINE q == [p EXCEPT !.reader = "done"]
  <2>1. /\ pump' = [pump EXCEPT ![a] = q]
        /\ UNCHANGED <<client, server, wire, bridge, inq, outq, loop, order, answered>>
    BY <1>9 DEF DestinationEnds, PumpOnly
  <2>2. q \in Pump
    BY <1>p DEF Pump
  <2>3. PumpOK'
    BY <2>1, <2>2, PumpMoves
  <2> QED BY <2>1, <2>3, Kept DEF Typed, TypeOK, server, wire
<1>10. CASE Written(a)
  <2> DEFINE q == [p EXCEPT !.writer = "select"]
  <2>1. /\ pump' = [pump EXCEPT ![a] = q]
        /\ UNCHANGED <<client, server, wire, bridge, inq, outq, loop, order, answered>>
    BY <1>10 DEF Written, PumpOnly
  <2>2. q \in Pump
    BY <1>p DEF Pump
  <2>3. PumpOK'
    BY <2>1, <2>2, PumpMoves
  <2> QED BY <2>1, <2>3, Kept DEF Typed, TypeOK, server, wire
<1>11. CASE WriteFails(a)
  <2>1. /\ Finish(a, "error", p.box)
        /\ UNCHANGED <<client, server, wire, bridge, inq, outq, loop, order, answered>>
    BY <1>11 DEF WriteFails, PumpOnly
  <2>2. PumpOK'
    BY <2>1, <1>p, <1>r, Finishes
  <2> QED BY <2>1, <2>2, Kept DEF Typed, TypeOK, server, wire
<1> QED BY <1>1, <1>2, <1>3, <1>4, <1>5, <1>6, <1>7, <1>8, <1>9, <1>10, <1>11
        DEF Tasks

\* The stream breaks, the daemon dies, the daemon connects again.
LEMMA BreaksTyped ==
  ASSUME TunnelsAssumption, Typed, Break \/ Crash \/ Reconnect
  PROVE  Typed'
<1>1. CASE Break
  <2>1. /\ stream' = 0 /\ down' = <<>> /\ up' = <<>> /\ bridge' \in {Free, bridge}
        /\ UNCHANGED <<client, server, streams, inq, outq, loop, order, pump, answered>>
    BY <1>1 DEF Break
  <2>2. WireOK'
    BY <2>1 DEF Typed, TypeOK, WireOK, TunnelsAssumption
  <2>3. BridgeOK'
    BY <2>1, Kept DEF Free, BridgeOK, Bridge
  <2> QED BY <2>1, <2>2, <2>3, Kept DEF Typed, TypeOK, server
<1>2. CASE Crash
  <2> DEFINE dead == [writer |-> "gone", reader |-> "stopped", box |-> <<>>,
                      why |-> "error"]
  <2>1. /\ stream' = 0 /\ down' = <<>> /\ up' = <<>> /\ bridge' = Free
        /\ inq' = <<>> /\ outq' = <<>> /\ loop' = IdleLoop /\ order' = <<>>
        /\ pump' = [a \in Attempts |-> IF pump[a].writer = "none" THEN pump[a] ELSE dead]
        /\ UNCHANGED <<client, server, streams, answered>>
    BY <1>2 DEF Crash
  <2>2. WireOK'
    BY <2>1 DEF Typed, TypeOK, WireOK, TunnelsAssumption
  <2>3. BridgeOK' /\ InqOK' /\ OutqOK' /\ OrderOK'
    BY <2>1 DEF Free, BridgeOK, Bridge, InqOK, OutqOK, OrderOK, TunnelsAssumption
  <2>4. LoopOK' /\ Names' /\ Room'
    BY <2>1, IdleTyped, LoopMoves DEF Room, TunnelsAssumption
  <2>5. dead \in Pump
    BY DEF Pump, Reason
  <2>6. PumpOK'
    BY <2>1, <2>5 DEF Typed, TypeOK, PumpOK
  <2> QED BY <2>1, <2>2, <2>3, <2>4, <2>6, Kept DEF Typed, TypeOK, server
<1>3. CASE Reconnect
  <2>1. /\ stream' = streams + 1 /\ streams' = streams + 1 /\ streams < MaxStreams
        /\ UNCHANGED <<client, server, down, up, daemon>>
    BY <1>3 DEF Reconnect
  <2>2. WireOK'
    BY <2>1 DEF Typed, TypeOK, WireOK, TunnelsAssumption
  <2>3. \A a \in Attempts : Sink(a)' => pipe[a].conn \in 1 .. streams
    BY <2>1 DEF server, Typed, Conns, Sink
  <2>4. streams \in Nat
    BY DEF Typed, TypeOK, WireOK, TunnelsAssumption
  <2>5. Conns'
    BY <2>1, <2>3, <2>4 DEF server, Conns
  <2> QED BY <2>1, <2>2, <2>5, Kept, DaemonKept DEF Typed, TypeOK, server
<1> QED BY <1>1, <1>2, <1>3

LEMMA NextTyped == TunnelsAssumption /\ Typed /\ [Next]_vars => Typed'
<1> SUFFICES ASSUME TunnelsAssumption, Typed, [Next]_vars PROVE Typed'
  OBVIOUS
<1>1. CASE UNCHANGED vars
  BY <1>1, Kept, DaemonKept DEF vars, server, wire, Typed, TypeOK
<1>2. CASE Next
  BY <1>2, HandlerTyped, ReceiveTyped, BridgeTyped, LoopTyped, PumpTyped, BreaksTyped
  DEF Next, ReceiveLoop
<1> QED BY <1>1, <1>2

\* The state of connections, frames, queues and tunnels has its type, and the
\* map and the queues of the daemon keep their bounds.
THEOREM TunnelsTypes == Spec => []TypeOK
<1>1. Init => Typed
  BY InitTyped, TunnelsAssumption
<1>2. Typed /\ [Next]_vars => Typed'
  BY NextTyped, TunnelsAssumption
<1>3. Typed => TypeOK
  BY DEF Typed
<1> QED BY <1>1, <1>2, <1>3, PTL DEF Spec
-----------------------------------------------------------------------------
(* No handler waits for nothing.                                            *)

\* A handler waits for the other side on a stream that did not break.
Waiting(b) == Up(b) /\ pipe[b].at \in {"pumping", "sending"} /\ pipe[b].once = "free"

\* The places where what it waits for can be.
OpenDown(b) == Contains(down, Open(b))
OpenCrosses(b) == bridge = [to |-> "inq", frame |-> Open(b)]
OpenIn(b) == Contains(inq, Open(b))
Opening(b) == loop.of = b /\ loop.at \in {"opening", "evicting", "notifying",
                                           "dialling", "refusing"}
Lives(b) == pump[b].writer \in {"select", "writing", "reporting", "telling"}
CloseOut(b) == \E why \in Reason : Contains(outq, Close(b, why))
CloseCrosses(b) == \E why \in Reason : bridge = [to |-> "up", frame |-> Close(b, why)]
CloseUp(b) == \E why \in Reason : Contains(up, Close(b, why))

Promised(b) == \/ OpenDown(b) \/ OpenCrosses(b) \/ OpenIn(b) \/ Opening(b) \/ Lives(b)
               \/ CloseOut(b) \/ CloseCrosses(b) \/ CloseUp(b)

LEMMA Promises == /\ WaitIsAnswered <=> \A b \in Attempts : Waiting(b) => Promised(b)
                  /\ WaitIsAnswered' <=>
                       \A b \in Attempts : Waiting(b)' => Promised(b)'
BY DEF WaitIsAnswered, OpenComing, CloseComing, Waiting, Promised, OpenDown,
   OpenCrosses, OpenIn, Opening, Lives, CloseOut, CloseCrosses, CloseUp

LEMMA PlaceKept ==
  ASSUME NEW b \in Attempts
  PROVE  /\ UNCHANGED down => OpenDown(b)' = OpenDown(b)
         /\ UNCHANGED bridge => /\ OpenCrosses(b)' = OpenCrosses(b)
                                /\ CloseCrosses(b)' = CloseCrosses(b)
         /\ UNCHANGED inq => OpenIn(b)' = OpenIn(b)
         /\ UNCHANGED loop => Opening(b)' = Opening(b)
         /\ UNCHANGED pump => Lives(b)' = Lives(b)
         /\ UNCHANGED outq => CloseOut(b)' = CloseOut(b)
         /\ UNCHANGED up => CloseUp(b)' = CloseUp(b)
         /\ UNCHANGED <<pipe, stream>> => Waiting(b)' = Waiting(b)
BY DEF OpenDown, OpenCrosses, OpenIn, Opening, Lives, CloseOut, CloseCrosses, CloseUp,
   Waiting, Up

\* A frame more takes no frame away.
LEMMA DownKeeps ==
  ASSUME TunnelsAssumption, Typed, NEW f \in Frame, NEW b \in Attempts,
         SendDown(f) \/ SendFails(f.of)
  PROVE  /\ UNCHANGED <<stream, up>>
         /\ OpenDown(b) => OpenDown(b)'
         /\ SendDown(f) => Contains(down', f)
<1>1. CASE SendDown(f)
  <2>1. down \in Seq(Frame) /\ down' = Append(down, f) /\ UNCHANGED <<stream, up>>
    BY <1>1 DEF SendDown, Typed, TypeOK, WireOK
  <2>2. Contains(down', f) /\ \A y : Contains(down, y) => Contains(down', y)
    BY <2>1, Adding
  <2> QED BY <2>1, <2>2 DEF OpenDown
<1>2. CASE SendFails(f.of) /\ ~SendDown(f)
  BY <1>2 DEF SendFails, wire, OpenDown
<1> QED BY <1>1, <1>2

LEMMA OutKeeps ==
  ASSUME TunnelsAssumption, Typed, NEW f \in Frame, NEW b \in Attempts, SendUp(f)
  PROVE  /\ UNCHANGED <<pipe, stream, down, up, bridge, inq>>
         /\ CloseOut(b) => CloseOut(b)'
         /\ Contains(outq', f)
<1>1. /\ outq \in Seq(Frame) /\ outq' = Append(outq, f)
      /\ UNCHANGED <<pipe, stream, down, up, bridge, inq>>
  BY DEF SendUp, Typed, TypeOK, OutqOK, server, wire
<1>2. Contains(outq', f) /\ \A y : Contains(outq, y) => Contains(outq', y)
  BY <1>1, Adding
<1> QED BY <1>1, <1>2 DEF CloseOut

LEMMA HandlerPromises ==
  ASSUME TunnelsAssumption, Typed, WaitIsAnswered, NEW a \in Attempts,
         \/ Accept(a) \/ Handler(a) \/ CustomerLeaves(a) \/ ReadChunk(a)
         \/ ReadEnd(a) \/ ReceiverCloses(a)
  PROVE  WaitIsAnswered'
<1> SUFFICES ASSUME NEW b \in Attempts, Waiting(b)' PROVE Promised(b)'
  BY Promises
<1>p. pipe \in [Attempts -> Pipe] /\ asked[a] \in Chunks
  BY DEF Typed, TypeOK, ServerOK, ClientOK
<1>f. /\ Open(a) \in Frame /\ Open(a).of = a
      /\ Data(a, asked[a]) \in Frame /\ Data(a, asked[a]).of = a
      /\ Close(a, "clean") \in Frame /\ Close(a, "clean").of = a
  BY <1>p, Frames DEF Reason, Open, Data, Close
<1>1. UNCHANGED <<daemon, up, stream>> /\ (OpenDown(b) => OpenDown(b)')
  <2>1. CASE \/ Accept(a) \/ CustomerLeaves(a) \/ ReadChunk(a) \/ ReadEnd(a)
             \/ ReadGone(a) \/ ReadClosed(a)
    BY <2>1, PlaceKept DEF Accept, CustomerLeaves, ReadChunk, ReadEnd, ReadGone,
       Closing, ReadClosed, wire
  <2>2. CASE SendOpen(a)
    BY <2>2, <1>f, DownKeeps DEF SendOpen
  <2>3. CASE SendData(a)
    BY <2>3, <1>f, DownKeeps DEF SendData
  <2>4. CASE SendClose(a) \/ ReceiverCloses(a)
    BY <2>4, <1>f, DownKeeps DEF SendClose, ReceiverCloses, Closed
  <2> QED BY <2>1, <2>2, <2>3, <2>4 DEF Handler
<1>2. Promised(b) => Promised(b)'
  BY <1>1, PlaceKept DEF daemon, Promised
<1>3. CASE Waiting(b)
  BY <1>2, <1>3, Promises
<1>4. CASE ~Waiting(b)
  <2>w. /\ pipe'[b].at \in {"pumping", "sending"} /\ pipe'[b].once = "free"
        /\ pipe'[b].conn = stream' /\ stream' = stream
    BY <1>1 DEF Waiting, Up
  <2>n. pipe[b].at \in {"pumping", "sending"} => pipe[b].once # "free" \/ pipe[b].conn # stream
    BY <1>4 DEF Waiting, Up
  <2>1. SendOpen(a) /\ b = a /\ SendDown(Open(a))
    <3>1. CASE SendOpen(a)
      BY <3>1, <2>w, <2>n, <1>p DEF SendOpen, Pipe
    <3>2. CASE SendData(a)
      <4>1. /\ pipe[a].at = "sending"
            /\ \/ pipe' = [pipe EXCEPT ![a].at = "pumping"]
               \/ pipe'[a].at = "over" /\ \A x \in Attempts \ {a} : pipe'[x] = pipe[x]
        BY <3>2, <1>p DEF SendData, Pipe
      <4> QED BY <4>1, <2>w, <2>n, <1>p DEF Pipe
    <3>3. CASE ReadChunk(a)
      BY <3>3, <2>w, <2>n, <1>p DEF ReadChunk, Pipe
    <3>4. CASE \/ ReadEnd(a) \/ ReadGone(a) \/ CustomerLeaves(a) \/ ReadClosed(a)
      BY <3>4, <2>w, <2>n, <1>p DEF ReadEnd, ReadGone, Closing, CustomerLeaves,
         ReadClosed, server, Pipe
    <3>5. CASE \/ SendClose(a) \/ ReceiverCloses(a)
      BY <3>5, <2>w, <2>n, <1>p DEF SendClose, ReceiverCloses, Closed, Pipe
    <3>6. CASE Accept(a)
      BY <3>6, <2>w, <2>n, <1>p DEF Accept, Pipe
    <3> QED BY <3>1, <3>2, <3>3, <3>4, <3>5, <3>6 DEF Handler
  <2> QED BY <2>1, <1>f, DownKeeps DEF Promised, OpenDown
<1> QED BY <1>3, <1>4

LEMMA ReceivePromises ==
  ASSUME TunnelsAssumption, Typed, WaitIsAnswered, NEW a \in Attempts,
         \/ ReceiveData(a) \/ ReceiveFails(a) \/ ReceiveClose(a) \/ ReceiveDrops(a)
  PROVE  WaitIsAnswered'
<1> SUFFICES ASSUME NEW b \in Attempts, Waiting(b)' PROVE Promised(b)'
  BY Promises
<1>p. pipe \in [Attempts -> Pipe]
  BY DEF Typed, TypeOK, ServerOK
<1>1. /\ up \in Seq(Frame) /\ up # <<>> /\ up' = Tail(up)
      /\ UNCHANGED <<stream, down, bridge, inq, outq, loop, pump>>
  BY DEF ReceiveData, ReceiveFails, ReceiveClose, ReceiveDrops, Received, daemon,
     Typed, TypeOK, WireOK
<1>w. /\ pipe'[b].at \in {"pumping", "sending"} /\ pipe'[b].once = "free"
      /\ pipe'[b].conn = stream
  BY <1>1 DEF Waiting, Up
<1>2. Waiting(b)
  <2>1. CASE ReceiveData(a) \/ ReceiveDrops(a)
    BY <2>1, <1>w DEF ReceiveData, ReceiveDrops, server, Waiting, Up
  <2>2. CASE ReceiveFails(a)
    BY <2>2, <1>w, <1>p DEF ReceiveFails, server, Waiting, Up, Pipe
  <2>3. CASE ReceiveClose(a)
    BY <2>3, <1>w, <1>p DEF ReceiveClose, Waiting, Up, Pipe
  <2> QED BY <2>1, <2>2, <2>3
<1>3. ASSUME NEW why \in Reason PROVE Head(up) # Close(b, why)
  <2>0. Close(b, why).kind = "close" /\ Close(b, why).of = b
    BY DEF Close
  <2>1. CASE ReceiveData(a) \/ ReceiveFails(a)
    BY <2>0, <2>1 DEF ReceiveData, ReceiveFails
  <2>2. CASE ReceiveClose(a)
    BY <2>0, <2>2, <1>w, <1>p DEF ReceiveClose, Pipe
  <2>3. CASE ReceiveDrops(a)
    BY <2>0, <2>3, <1>2 DEF ReceiveDrops, Waiting, Sink
  <2> QED BY <2>1, <2>2, <2>3
<1>4. CloseUp(b) => CloseUp(b)'
  BY <1>1, <1>3, Taking DEF CloseUp
<1> QED BY <1>1, <1>2, <1>4, Promises, PlaceKept DEF Promised
LEMMA BridgePromises ==
  ASSUME TunnelsAssumption, Typed, WaitIsAnswered, BridgeTakes \/ BridgePuts
  PROVE  WaitIsAnswered'
<1> SUFFICES ASSUME NEW b \in Attempts, Promised(b) PROVE Promised(b)'
  <2>1. UNCHANGED <<pipe, stream>>
    BY DEF BridgeTakes, BridgePuts, server
  <2> QED BY <2>1, PlaceKept, Promises
<1>t. /\ down \in Seq(Frame) /\ up \in Seq(Frame)
      /\ inq \in Seq(Frame) /\ outq \in Seq(Frame) /\ bridge \in Bridge
  BY DEF Typed, TypeOK, WireOK, InqOK, OutqOK, BridgeOK
<1>1. CASE BridgeTakes
  <2>0. /\ UNCHANGED <<up, inq, loop, pump>>
        /\ ~OpenCrosses(b) /\ ~CloseCrosses(b)
    BY <1>1 DEF BridgeTakes, OpenCrosses, CloseCrosses, Free
  <2>1. CASE /\ down # <<>> /\ down' = Tail(down) /\ UNCHANGED outq
             /\ bridge' = [to |-> "inq", frame |-> Head(down)]
    <3>1. OpenDown(b) => OpenDown(b)' \/ OpenCrosses(b)'
      BY <2>1, <1>t, Taking DEF OpenDown, OpenCrosses
    <3> QED BY <2>0, <2>1, <3>1, PlaceKept DEF Promised
  <2>2. CASE /\ outq # <<>> /\ outq' = Tail(outq) /\ UNCHANGED down
             /\ bridge' = [to |-> "up", frame |-> Head(outq)]
    <3>1. CloseOut(b) => CloseOut(b)' \/ CloseCrosses(b)'
      BY <2>2, <1>t, Taking DEF CloseOut, CloseCrosses
    <3> QED BY <2>0, <2>2, <3>1, PlaceKept DEF Promised
  <2> QED BY <1>1, <2>1, <2>2 DEF BridgeTakes
<1>2. CASE BridgePuts
  <2>0. UNCHANGED <<down, outq, loop, pump>>
    BY <1>2 DEF BridgePuts
  <2>1. CASE /\ bridge.to = "inq" /\ inq' = Append(inq, bridge.frame) /\ UNCHANGED up
    <3>1. bridge.frame \in Frame /\ ~CloseCrosses(b)
      BY <2>1, <1>t DEF Bridge, CloseCrosses
    <3>2. OpenIn(b) \/ OpenCrosses(b) => OpenIn(b)'
      BY <2>1, <3>1, <1>t, Adding DEF OpenIn, OpenCrosses
    <3> QED BY <2>0, <2>1, <3>1, <3>2, PlaceKept DEF Promised
  <2>2. CASE /\ bridge.to = "up" /\ up' = Append(up, bridge.frame) /\ UNCHANGED inq
    <3>1. bridge.frame \in Frame /\ ~OpenCrosses(b)
      BY <2>2, <1>t DEF Bridge, OpenCrosses
    <3>2. CloseUp(b) \/ CloseCrosses(b) => CloseUp(b)'
      BY <2>2, <3>1, <1>t, Adding DEF CloseUp, CloseCrosses
    <3> QED BY <2>0, <2>2, <3>1, <3>2, PlaceKept DEF Promised
  <2> QED BY <1>2, <2>1, <2>2 DEF BridgePuts
<1> QED BY <1>1, <1>2

\* A mailbox that takes an entry belongs to the same writer.
LEMMA PostedKeeps ==
  ASSUME Typed, NEW a \in Attempts, NEW b \in Attempts,
         \/ \E e : pump' = [pump EXCEPT ![a].box = Append(@, e)]
         \/ UNCHANGED pump
  PROVE  Lives(b)' = Lives(b)
<1>1. pump \in [Attempts -> Pump]
  BY DEF Typed, TypeOK, PumpOK
<1>2. CASE UNCHANGED pump
  BY <1>2 DEF Lives
<1>3. ASSUME NEW e, pump' = [pump EXCEPT ![a].box = Append(@, e)]
      PROVE  pump'[b].writer = pump[b].writer
  <2>1. pump[a].writer = [pump[a] EXCEPT !.box = Append(@, e)].writer
    BY <1>1 DEF Pump
  <2>2. CASE b = a
    BY <1>1, <1>3, <2>1, <2>2
  <2>3. CASE b # a
    BY <1>1, <1>3, <2>3
  <2> QED BY <2>2, <2>3
<1> QED BY <1>2, <1>3 DEF Lives

LEMMA LoopPromises ==
  ASSUME TunnelsAssumption, Typed, WaitIsAnswered, DispatchLoop
  PROVE  WaitIsAnswered'
<1>s. UNCHANGED <<pipe, stream, down, up, bridge>>
  BY DEF DispatchLoop, TakeOpen, TakeData, TakeClose, LoopTakes, PostClose, Refuse,
     BelowCap, DialFails, LoopGoes, Evict, PostEviction, NotifyEviction, DialWorks,
     SendRefusal, SendUp, server, wire
<1> SUFFICES ASSUME NEW b \in Attempts, Promised(b) PROVE Promised(b)'
  BY <1>s, PlaceKept, Promises
<1>t. /\ inq \in Seq(Frame) /\ loop \in Loop /\ pump \in [Attempts -> Pump]
      /\ loop.at # "idle" => loop.of \in Attempts
      /\ loop.at \in {"evicting", "notifying"} => loop.victim \in Attempts
  BY DEF Typed, TypeOK, InqOK, LoopOK, PumpOK, Names
<1>1. ASSUME NEW f, LoopTakes(f)
      PROVE  /\ ~Opening(b) /\ UNCHANGED outq
             /\ OpenIn(b) => OpenIn(b)' \/ f = Open(b)
  <2>1. /\ inq # <<>> /\ f = Head(inq) /\ inq' = Tail(inq) /\ UNCHANGED outq
        /\ loop.at = "idle"
    BY <1>1 DEF LoopTakes
  <2> QED BY <2>1, <1>t, Taking DEF OpenIn, Opening
<1>2. ASSUME NEW a \in Attempts, TakeOpen(a) PROVE Promised(b)'
  <2>1. /\ LoopTakes(Open(a)) /\ UNCHANGED pump
        /\ loop' = [IdleLoop EXCEPT !.at = "opening", !.of = a]
    BY <1>2 DEF TakeOpen
  <2>2. Open(a) = Open(b) => Opening(b)'
    BY <2>1 DEF Open, Opening, IdleLoop
  <2> QED BY <1>s, <1>1, <2>1, <2>2, PlaceKept DEF Promised
<1>3. ASSUME NEW a \in Attempts, TakeData(a) PROVE Promised(b)'
  <2>1. PICK n : LoopTakes(Data(a, n)) /\ UNCHANGED loop
    BY <1>3 DEF TakeData
  <2>2. Lives(b)' = Lives(b)
    BY <1>3, PostedKeeps DEF TakeData
  <2>3. Data(a, n) # Open(b)
    BY DEF Data, Open
  <2> QED BY <1>s, <1>1, <2>1, <2>2, <2>3, PlaceKept DEF Promised
<1>4. ASSUME NEW a \in Attempts, TakeClose(a) PROVE Promised(b)'
  <2>1. LoopTakes(Close(a, "clean")) /\ UNCHANGED pump
    BY <1>4 DEF TakeClose
  <2>2. Close(a, "clean") # Open(b)
    BY DEF Close, Open
  <2> QED BY <1>s, <1>1, <2>1, <2>2, PlaceKept DEF Promised
<1>5. CASE PostClose
  <2>1. /\ loop.at = "closing" /\ UNCHANGED <<inq, outq>> /\ ~Opening(b)
    BY <1>5 DEF PostClose, Opening
  <2>2. Lives(b)' = Lives(b)
    BY <1>5, <2>1, <1>t, PostedKeeps DEF PostClose, PostTo
  <2> QED BY <1>s, <2>1, <2>2, PlaceKept DEF Promised
<1>6. CASE Refuse \/ BelowCap \/ DialFails
  <2>1. PICK at \in {"refusing", "dialling"} :
          /\ loop' = [loop EXCEPT !.at = at] /\ UNCHANGED <<inq, outq, pump>>
    BY <1>6 DEF Refuse, BelowCap, DialFails, LoopGoes
  <2>2. Opening(b) => Opening(b)'
    BY <2>1, <1>t DEF Opening, Loop
  <2> QED BY <1>s, <2>1, <2>2, PlaceKept DEF Promised
<1>7. CASE Evict
  <2>1. /\ loop' = [loop EXCEPT !.at = "evicting", !.victim = Head(order)]
        /\ UNCHANGED <<inq, outq, pump>>
    BY <1>7 DEF Evict
  <2>2. Opening(b) => Opening(b)'
    BY <2>1, <1>t DEF Opening, Loop
  <2> QED BY <1>s, <2>1, <2>2, PlaceKept DEF Promised
<1>8. CASE PostEviction
  <2>1. /\ loop' = [loop EXCEPT !.at = "notifying"] /\ loop.at = "evicting"
        /\ UNCHANGED <<inq, outq>>
    BY <1>8 DEF PostEviction
  <2>2. Opening(b) => Opening(b)'
    BY <2>1, <1>t DEF Opening, Loop
  <2>3. Lives(b)' = Lives(b)
    BY <1>8, <2>1, <1>t, PostedKeeps DEF PostEviction, PostTo
  <2> QED BY <1>s, <2>1, <2>2, <2>3, PlaceKept DEF Promised
<1>9. CASE NotifyEviction
  <2>1. /\ loop' = [loop EXCEPT !.at = "dialling", !.victim = NoOne]
        /\ loop.at = "notifying" /\ UNCHANGED pump
        /\ SendUp(Close(loop.victim, "error"))
    BY <1>9 DEF NotifyEviction
  <2>2. Opening(b) => Opening(b)'
    BY <2>1, <1>t DEF Opening, Loop
  <2>3. (CloseOut(b) => CloseOut(b)') /\ UNCHANGED inq
    BY <2>1, <1>t, Closes, OutKeeps
  <2> QED BY <1>s, <2>1, <2>2, <2>3, PlaceKept DEF Promised
<1>10. CASE DialWorks
  <2>1. /\ loop.at = "dialling" /\ UNCHANGED <<inq, outq>>
        /\ pump' = [pump EXCEPT ![loop.of] =
                      [writer |-> "select", reader |-> "reading", box |-> <<>>,
                       why |-> "clean"]]
    BY <1>10 DEF DialWorks
  <2>2. Opening(b) \/ Lives(b) => Lives(b)'
    BY <2>1, <1>t DEF Opening, Lives
  <2> QED BY <1>s, <2>1, <2>2, PlaceKept DEF Promised
<1>11. CASE SendRefusal
  <2>1. /\ loop.at = "refusing" /\ UNCHANGED pump /\ SendUp(Close(loop.of, "error"))
    BY <1>11 DEF SendRefusal
  <2>2. Close(loop.of, "error") \in Frame
    BY <2>1, <1>t, Closes
  <2>3. /\ CloseOut(b) => CloseOut(b)'
        /\ UNCHANGED inq /\ Contains(outq', Close(loop.of, "error"))
    BY <2>1, <2>2, OutKeeps
  <2>4. Opening(b) => CloseOut(b)'
    BY <2>3 DEF Opening, CloseOut, Reason
  <2> QED BY <1>s, <2>1, <2>3, <2>4, PlaceKept DEF Promised
<1> QED BY <1>2, <1>3, <1>4, <1>5, <1>6, <1>7, <1>8, <1>9, <1>10, <1>11 DEF DispatchLoop

LEMMA PumpPromises ==
  ASSUME TunnelsAssumption, Typed, WaitIsAnswered, NEW a \in Attempts,
         \/ Tasks(a) \/ DestinationSends(a) \/ DestinationEnds(a) \/ Written(a)
         \/ WriteFails(a)
  PROVE  WaitIsAnswered'
<1>s. UNCHANGED <<pipe, stream, down, up, bridge, inq, loop>>
  BY DEF Tasks, DestinationSends, DestinationEnds, Written, WriteFails, Publish, Stop,
     TakeEntry, SeeEnd, Report, Tell, Leave, SendUp, PumpOnly, server, wire
<1> SUFFICES ASSUME NEW b \in Attempts, Promised(b) PROVE Promised(b)'
  BY <1>s, PlaceKept, Promises
<1>t. pump \in [Attempts -> Pump] /\ answered[a] \in Chunks
  BY DEF Typed, TypeOK, PumpOK, AnsweredOK
<1>1. CASE \/ Stop(a) \/ DestinationSends(a) \/ DestinationEnds(a)
  <2>1. UNCHANGED outq /\ \E r : pump' = [pump EXCEPT ![a].reader = r]
    BY <1>1 DEF Stop, DestinationSends, DestinationEnds, PumpOnly
  <2>2. Lives(b)' = Lives(b)
    BY <2>1, <1>t DEF Lives, Pump
  <2> QED BY <1>s, <2>1, <2>2, PlaceKept DEF Promised
<1>2. CASE TakeEntry(a) \/ SeeEnd(a) \/ Written(a) \/ WriteFails(a) \/ Leave(a)
  <2>1. /\ UNCHANGED outq
        /\ \A x \in Attempts \ {a} : pump'[x] = pump[x]
        /\ \/ pump'[a].writer \in {"writing", "reporting", "select"}
           \/ pump[a].writer = "leaving"
    <3>1. ASSUME NEW why, NEW box, Finish(a, why, box)
          PROVE  /\ \A x \in Attempts \ {a} : pump'[x] = pump[x]
                 /\ pump'[a].writer = "reporting"
      BY <3>1, <1>t DEF Finish, Pump
    <3>2. CASE TakeEntry(a)
      BY <3>1, <3>2, <1>t DEF TakeEntry, PumpOnly, Pump
    <3>3. CASE SeeEnd(a) \/ WriteFails(a)
      BY <3>1, <3>3 DEF SeeEnd, WriteFails, PumpOnly
    <3>4. CASE Written(a) \/ Leave(a)
      BY <3>4, <1>t DEF Written, Leave, PumpOnly, Pump
    <3> QED BY <1>2, <3>2, <3>3, <3>4
  <2>2. Lives(b) => Lives(b)'
    BY <2>1 DEF Lives
  <2> QED BY <1>s, <2>1, <2>2, PlaceKept DEF Promised
<1>3. CASE Publish(a) \/ Report(a)
  <2>1. PICK f \in {Data(a, answered[a]), Update(a)} : SendUp(f)
    BY <1>3 DEF Publish, Report
  <2>2. f \in Frame
    BY <2>1, <1>t, Frames DEF Reason
  <2>3. CloseOut(b) => CloseOut(b)'
    BY <2>1, <2>2, OutKeeps
  <2>4. \/ \E r : pump' = [pump EXCEPT ![a].reader = r]
        \/ pump' = [pump EXCEPT ![a].writer = "telling"]
    BY <1>3 DEF Publish, Report
  <2>5. Lives(b) => Lives(b)'
    BY <2>4, <1>t DEF Lives, Pump
  <2> QED BY <1>s, <2>3, <2>5, PlaceKept DEF Promised
<1>4. CASE Tell(a)
  <2>1. /\ SendUp(Close(a, pump[a].why))
        /\ pump' = [pump EXCEPT ![a].writer = "leaving"]
    BY <1>4 DEF Tell
  <2>2. pump[a].why \in Reason
    BY <1>t DEF Pump
  <2>3. /\ CloseOut(b) => CloseOut(b)'
        /\ Contains(outq', Close(a, pump[a].why))
    BY <2>1, <2>2, Frames, <1>t, OutKeeps
  <2>4. Lives(b) => Lives(b)' \/ CloseOut(b)'
    BY <2>1, <2>2, <2>3, <1>t DEF Lives, CloseOut, Pump
  <2> QED BY <1>s, <2>3, <2>4, PlaceKept DEF Promised
<1> QED BY <1>1, <1>2, <1>3, <1>4 DEF Tasks

\* After a break nobody waits on the stream that is up.
LEMMA BreaksPromise ==
  ASSUME TunnelsAssumption, Typed, Break \/ Crash \/ Reconnect
  PROVE  WaitIsAnswered'
<1>1. UNCHANGED pipe /\ streams \in Nat /\ stream' \in {0, streams + 1}
  BY DEF Break, Crash, Reconnect, server, Typed, TypeOK, WireOK, TunnelsAssumption
<1>2. ASSUME NEW b \in Attempts PROVE ~Waiting(b)'
  BY <1>1, <1>2 DEF Waiting, Up, Typed, Conns, Sink
<1> QED BY <1>2, Promises

LEMMA NextPromises ==
  TunnelsAssumption /\ Typed /\ WaitIsAnswered /\ [Next]_vars => WaitIsAnswered'
<1> SUFFICES ASSUME TunnelsAssumption, Typed, WaitIsAnswered, [Next]_vars
             PROVE  WaitIsAnswered'
  OBVIOUS
<1>1. CASE UNCHANGED vars
  BY <1>1, PlaceKept, Promises DEF vars, server, wire, daemon, Promised
<1>2. CASE Next
  BY <1>2, HandlerPromises, ReceivePromises, BridgePromises, LoopPromises, PumpPromises,
     BreaksPromise DEF Next, ReceiveLoop
<1> QED BY <1>1, <1>2

\* As long as its stream does not break, a handler that waits for its tunnel
\* waits for something: the open frame is under way, the tunnel lives, or the
\* close frame is.
THEOREM WaitsEnd == Spec => []WaitIsAnswered
<1>1. Init => Typed /\ WaitIsAnswered
  <2>1. Init => \A b \in Attempts : ~Waiting(b)
    BY DEF Init, NewPipe, Waiting
  <2> QED BY <2>1, InitTyped, TunnelsAssumption, Promises
<1>2. Typed /\ WaitIsAnswered /\ [Next]_vars => (Typed /\ WaitIsAnswered)'
  BY NextTyped, NextPromises, TunnelsAssumption
<1> QED BY <1>1, <1>2, PTL DEF Spec

-----------------------------------------------------------------------------
(* What is on its way between the two sides, as two sequences.              *)

\* The frame the bridge holds on its way there.
Cross(to) == IF bridge.to = to THEN <<bridge.frame>> ELSE <<>>
Upward == up \o Cross("up") \o outq
Downward == inq \o Cross("inq") \o down

\* t is a part of s without a gap.
Window(s, t) ==
  \E k \in Nat : /\ Len(t) + k <= Len(s)
                 /\ \A i \in 1 .. Len(t) : t[i] = s[i + k]
\* x was added to s.
Grown(s, x, t) ==
  /\ Len(t) = Len(s) + 1 /\ t[Len(t)] = x
  /\ \A i \in 1 .. Len(s) : t[i] = s[i]
\* x was taken from the front of s.
Shrunk(s, x, t) ==
  /\ Len(s) = Len(t) + 1 /\ s[1] = x
  /\ \A i \in 1 .. Len(t) : t[i] = s[i + 1]

\* What the changes of one queue come to.
LEMMA Windows ==
  ASSUME NEW S, NEW s \in Seq(S)
  PROVE  /\ Window(s, s) /\ Window(s, <<>>)
         /\ s # <<>> => Window(s, Tail(s))
         /\ \A x \in S : Grown(s, x, Append(s, x))
<1>1. Len(s) \in Nat
  OBVIOUS
<1>2. Window(s, s)
  <2>1. Len(s) + 0 <= Len(s) /\ \A i \in 1 .. Len(s) : s[i] = s[i + 0]
    BY <1>1
  <2> QED BY <2>1 DEF Window
<1>3. Window(s, <<>>)
  BY <1>1 DEF Window
<1>4. ASSUME s # <<>> PROVE Window(s, Tail(s))
  <2>1. /\ Len(Tail(s)) = Len(s) - 1
        /\ \A i \in 1 .. Len(Tail(s)) : Tail(s)[i] = s[i + 1]
    BY <1>4, HeadTailProperties, Zenon
  <2> QED BY <1>1, <2>1 DEF Window
<1>5. ASSUME NEW x \in S PROVE Grown(s, x, Append(s, x))
  BY <1>1, AppendProperties DEF Grown
<1> QED BY <1>2, <1>3, <1>4, <1>5

\* What comes first in a queue, and the rest.
LEMMA First ==
  ASSUME NEW S, NEW q \in Seq(S), q # <<>>
  PROVE  q = <<Head(q)>> \o Tail(q) /\ <<Head(q)>> \in Seq(S) /\ Tail(q) \in Seq(S)
<1>1. /\ Head(q) \in S /\ Tail(q) \in Seq(S) /\ Len(Tail(q)) = Len(q) - 1
      /\ \A i \in 1 .. Len(Tail(q)) : Tail(q)[i] = q[i + 1]
  BY HeadTailProperties, Zenon
<1>2. /\ <<Head(q)>> \in Seq(S) /\ Len(<<Head(q)>>) = 1 /\ <<Head(q)>>[1] = q[1]
      /\ Len(q) \in Nat
  BY <1>1
<1> DEFINE h == <<Head(q)>>
           t == Tail(q)
<1>a. h \in Seq(S) /\ t \in Seq(S)
  BY <1>1, <1>2
<1> HIDE DEF h, t
<1>3. /\ h \o t \in Seq(S) /\ Len(h \o t) = Len(h) + Len(t)
      /\ \A i \in 1 .. Len(h) + Len(t) : (h \o t)[i] =
           IF i <= Len(h) THEN h[i] ELSE t[i - Len(h)]
  BY <1>a, ConcatProperties, Zenon
<1>4. Len(h \o t) = Len(q) /\ \A i \in 1 .. Len(q) : q[i] = (h \o t)[i]
  BY <1>1, <1>2, <1>3 DEF h, t
<1>5. q = h \o t
  BY <1>3, <1>4, SeqEqual
<1> QED BY <1>1, <1>2, <1>5 DEF h, t

\* Three queues in a row: what is added is last,
LEMMA AddedLast ==
  ASSUME NEW S, NEW q \in Seq(S), NEW r \in Seq(S), NEW s \in Seq(S), NEW x \in S
  PROVE  q \o r \o Append(s, x) = Append(q \o r \o s, x)
<1> DEFINE qr == q \o r
<1>1. qr \in Seq(S)
  BY ConcatProperties, Zenon
<1> HIDE DEF qr
<1>2. Append(s, x) = s \o <<x>> /\ <<x>> \in Seq(S)
  BY AppendIsConcat
<1>3. Append(qr \o s, x) = (qr \o s) \o <<x>>
  BY <1>1, ConcatProperties, AppendIsConcat
<1>4. qr \o Append(s, x) = Append(qr \o s, x)
  BY <1>1, <1>2, <1>3, ConcatAssociative
<1> QED BY <1>4 DEF qr

\* what is taken from one queue moves the others up,
LEMMA TakenOne ==
  ASSUME NEW S, NEW q \in Seq(S), q # <<>>
  PROVE  Tail(q) \in Seq(S) /\ Shrunk(q, Head(q), Tail(q))
<1>1. /\ Tail(q) \in Seq(S) /\ Len(Tail(q)) = Len(q) - 1
      /\ \A i \in 1 .. Len(Tail(q)) : Tail(q)[i] = q[i + 1]
  BY HeadTailProperties, Zenon
<1>2. Head(q) = q[1] /\ Len(q) \in Nat
  OBVIOUS
<1> QED BY <1>1, <1>2 DEF Shrunk

\* also when it is the first of two,
LEMMA TakenBefore ==
  ASSUME NEW S, NEW q \in Seq(S), NEW t \in Seq(S), NEW r \in Seq(S), NEW x,
         Shrunk(q, x, t)
  PROVE  /\ q \o r \in Seq(S) /\ t \o r \in Seq(S)
         /\ Shrunk(q \o r, x, t \o r)
<1> DEFINE qr == q \o r
           tr == t \o r
<1>1. /\ qr \in Seq(S) /\ Len(qr) = Len(q) + Len(r)
      /\ \A i \in 1 .. Len(q) + Len(r) :
           qr[i] = IF i <= Len(q) THEN q[i] ELSE r[i - Len(q)]
  BY ConcatProperties, Zenon
<1>2. /\ tr \in Seq(S) /\ Len(tr) = Len(t) + Len(r)
      /\ \A i \in 1 .. Len(t) + Len(r) :
           tr[i] = IF i <= Len(t) THEN t[i] ELSE r[i - Len(t)]
  BY ConcatProperties, Zenon
<1>3. Len(q) \in Nat /\ Len(t) \in Nat /\ Len(r) \in Nat
  OBVIOUS
<1> HIDE DEF qr, tr
<1>4. Len(q) = Len(t) + 1 /\ q[1] = x /\ \A i \in 1 .. Len(t) : t[i] = q[i + 1]
  BY DEF Shrunk
<1>5. Len(qr) = Len(tr) + 1 /\ qr[1] = x
  BY <1>1, <1>2, <1>3, <1>4
<1>6. ASSUME NEW i \in 1 .. Len(tr) PROVE tr[i] = qr[i + 1]
  <2>1. CASE i <= Len(t)
    BY <1>1, <1>2, <1>3, <1>4, <2>1
  <2>2. CASE i > Len(t)
    <3>1. tr[i] = r[i - Len(t)]
      BY <1>2, <1>3, <2>2
    <3>2. qr[i + 1] = r[(i + 1) - Len(q)]
      BY <1>1, <1>2, <1>3, <1>4, <2>2
    <3>3. (i + 1) - Len(q) = i - Len(t)
      BY <1>2, <1>3, <1>4
    <3> QED BY <3>1, <3>2, <3>3
  <2> QED BY <1>2, <1>3, <2>1, <2>2
<1> QED BY <1>1, <1>2, <1>5, <1>6 DEF Shrunk, qr, tr

\* what is taken was first,
LEMMA TakenFirst ==
  ASSUME NEW S, NEW q \in Seq(S), NEW r \in Seq(S), NEW s \in Seq(S), q # <<>>
  PROVE  Shrunk(q \o r \o s, Head(q), Tail(q) \o r \o s)
<1> DEFINE x == Head(q)
           t == Tail(q)
<1>1. t \in Seq(S) /\ Shrunk(q, x, t)
  BY TakenOne
<1> HIDE DEF x, t
<1>2. /\ q \o r \in Seq(S) /\ t \o r \in Seq(S)
      /\ Shrunk(q \o r, x, t \o r)
  BY <1>1, TakenBefore
<1>3. Shrunk((q \o r) \o s, x, (t \o r) \o s)
  BY <1>2, TakenBefore
<1> QED BY <1>3 DEF x, t

\* each of the queues keeps its order,
LEMMA PartsOf ==
  ASSUME NEW S, NEW q \in Seq(S), NEW r \in Seq(S), NEW s \in Seq(S)
  PROVE  /\ q \o r \o s \in Seq(S)
         /\ Window(q \o r \o s, s) /\ Window(q \o r \o s, q \o r)
<1> DEFINE qr == q \o r
<1>1. qr \in Seq(S) /\ Len(qr) = Len(q) + Len(r)
  BY ConcatProperties, Zenon
<1>2. /\ qr \o s \in Seq(S) /\ Len(qr \o s) = Len(qr) + Len(s)
      /\ \A i \in 1 .. Len(qr) + Len(s) :
           (qr \o s)[i] = IF i <= Len(qr) THEN qr[i] ELSE s[i - Len(qr)]
  BY <1>1, ConcatProperties, Zenon
<1>n. Len(s) \in Nat /\ Len(qr) \in Nat
  BY <1>1
<1>5. Window(qr \o s, s)
  <2>1. \A i \in 1 .. Len(s) : s[i] = (qr \o s)[i + Len(qr)]
    BY <1>2, <1>n
  <2>2. Len(s) + Len(qr) <= Len(qr \o s)
    BY <1>2, <1>n
  <2> DEFINE n == Len(qr)
  <2> HIDE DEF qr, n
  <2>3. /\ n \in Nat /\ Len(s) + n <= Len(qr \o s)
        /\ \A i \in 1 .. Len(s) : s[i] = (qr \o s)[i + n]
    BY <1>n, <2>1, <2>2 DEF n
  <2> QED BY <2>3 DEF Window
<1>6. Window(qr \o s, qr)
  <2>1. \A i \in 1 .. Len(qr) : qr[i] = (qr \o s)[i + 0]
    BY <1>2, <1>n
  <2> HIDE DEF qr
  <2> QED BY <1>2, <1>n, <2>1 DEF Window
<1> QED BY <1>2, <1>5, <1>6

\* and what moves from one to the next keeps its place.
LEMMA MovesOff ==
  ASSUME NEW S, NEW q \in Seq(S), NEW s \in Seq(S), s # <<>>
  PROVE  q \o <<>> \o s = q \o <<Head(s)>> \o Tail(s)
<1>1. q \o <<>> = q
  BY ConcatEmptySeq
<1>2. s = <<Head(s)>> \o Tail(s) /\ <<Head(s)>> \in Seq(S) /\ Tail(s) \in Seq(S)
  BY First
<1> QED BY <1>1, <1>2, ConcatAssociative

\* It does so at the other end too.
LEMMA MovesOn ==
  ASSUME NEW S, NEW q \in Seq(S), NEW s \in Seq(S), NEW x \in S
  PROVE  q \o <<x>> \o s = Append(q, x) \o <<>> \o s
<1>1. Append(q, x) = q \o <<x>> /\ Append(q, x) \in Seq(S)
  BY AppendIsConcat
<1>2. Append(q, x) \o <<>> = Append(q, x)
  BY <1>1, ConcatEmptySeq
<1> QED BY <1>1, <1>2

\* Both paths carry frames.
LEMMA Paths ==
  ASSUME Typed
  PROVE  /\ up \in Seq(Frame) /\ down \in Seq(Frame) /\ inq \in Seq(Frame)
         /\ outq \in Seq(Frame) /\ Upward \in Seq(Frame) /\ Downward \in Seq(Frame)
         /\ \A to \in {"up", "inq"} : Cross(to) \in Seq(Frame)
<1>1. /\ up \in Seq(Frame) /\ down \in Seq(Frame) /\ inq \in Seq(Frame)
      /\ outq \in Seq(Frame) /\ bridge \in Bridge
  BY DEF Typed, TypeOK, WireOK, InqOK, OutqOK, BridgeOK
<1>2. ASSUME NEW to \in {"up", "inq"} PROVE Cross(to) \in Seq(Frame)
  <2>1. bridge.to = to => bridge.frame \in Frame
    BY <1>1 DEF Bridge
  <2> QED BY <2>1 DEF Cross
<1>3. Upward \in Seq(Frame) /\ Downward \in Seq(Frame)
  BY <1>1, <1>2, PartsOf DEF Upward, Downward
<1> QED BY <1>1, <1>2, <1>3

\* A step that leaves the carriers alone leaves what they carry.
LEMMA PathsKept ==
  /\ UNCHANGED <<up, bridge, outq>> => Upward' = Upward
  /\ UNCHANGED <<inq, bridge, down>> => Downward' = Downward
BY DEF Upward, Downward, Cross

\* The bridge moves frames, and keeps the order of both paths.
LEMMA BridgeCarries ==
  ASSUME Typed, BridgeTakes \/ BridgePuts
  PROVE  Upward' = Upward /\ Downward' = Downward
<1>1. CASE BridgeTakes
  <2>1. /\ UNCHANGED <<up, inq>> /\ Cross("up") = <<>> /\ Cross("inq") = <<>>
    BY <1>1 DEF BridgeTakes, Cross, Free
  <2>2. CASE /\ down # <<>> /\ down' = Tail(down) /\ UNCHANGED outq
             /\ bridge' = [to |-> "inq", frame |-> Head(down)]
    <3>1. Cross("up")' = <<>> /\ Cross("inq")' = <<Head(down)>>
      BY <2>2 DEF Cross
    <3>2. Downward' = Downward
      BY <2>1, <2>2, <3>1, Paths, MovesOff DEF Downward
    <3> QED BY <2>1, <2>2, <3>1, <3>2 DEF Upward
  <2>3. CASE /\ outq # <<>> /\ outq' = Tail(outq) /\ UNCHANGED down
             /\ bridge' = [to |-> "up", frame |-> Head(outq)]
    <3>1. Cross("inq")' = <<>> /\ Cross("up")' = <<Head(outq)>>
      BY <2>3 DEF Cross
    <3>2. Upward' = Upward
      BY <2>1, <2>3, <3>1, Paths, MovesOff DEF Upward
    <3> QED BY <2>1, <2>3, <3>1, <3>2 DEF Downward
  <2> QED BY <1>1, <2>2, <2>3 DEF BridgeTakes
<1>2. CASE BridgePuts
  <2>1. /\ UNCHANGED <<down, outq>> /\ Cross("up")' = <<>> /\ Cross("inq")' = <<>>
    BY <1>2 DEF BridgePuts, Cross, Free
  <2>2. CASE bridge.to = "inq" /\ inq' = Append(inq, bridge.frame) /\ UNCHANGED up
    <3>1. Cross("up") = <<>> /\ Cross("inq") = <<bridge.frame>>
      BY <2>2 DEF Cross
    <3>2. bridge.frame \in Frame
      BY <2>2 DEF Typed, TypeOK, BridgeOK, Bridge
    <3>a. inq \o <<bridge.frame>> \o down = Append(inq, bridge.frame) \o <<>> \o down
      BY <3>2, Paths, MovesOn
    <3>3. Downward' = Downward
      BY <2>1, <2>2, <3>1, <3>a DEF Downward
    <3> QED BY <2>1, <2>2, <3>1, <3>3 DEF Upward
  <2>3. CASE bridge.to = "up" /\ up' = Append(up, bridge.frame) /\ UNCHANGED inq
    <3>1. Cross("inq") = <<>> /\ Cross("up") = <<bridge.frame>>
      BY <2>3 DEF Cross
    <3>2. bridge.frame \in Frame
      BY <2>3 DEF Typed, TypeOK, BridgeOK, Bridge
    <3>a. up \o <<bridge.frame>> \o outq = Append(up, bridge.frame) \o <<>> \o outq
      BY <3>2, Paths, MovesOn
    <3>3. Upward' = Upward
      BY <2>1, <2>3, <3>1, <3>a DEF Upward
    <3> QED BY <2>1, <2>3, <3>1, <3>3 DEF Downward
  <2> QED BY <1>2, <2>2, <2>3 DEF BridgePuts
<1> QED BY <1>1, <1>2

\* A frame more, and one less, on the way to the coordinator.
LEMMA UpEnds ==
  ASSUME Typed
  PROVE  /\ \A x \in Frame :
              up \o Cross("up") \o Append(outq, x) = Append(Upward, x)
         /\ up # <<>> =>
              Shrunk(Upward, Head(up), Tail(up) \o Cross("up") \o outq)
<1> DEFINE c == Cross("up")
<1>1. up \in Seq(Frame) /\ outq \in Seq(Frame) /\ c \in Seq(Frame)
  BY Paths
<1> HIDE DEF c
<1>2. ASSUME NEW x \in Frame
      PROVE  up \o c \o Append(outq, x) = Append(up \o c \o outq, x)
  BY <1>1, AddedLast
<1>3. up # <<>> => Shrunk(up \o c \o outq, Head(up), Tail(up) \o c \o outq)
  BY <1>1, TakenFirst
<1> QED BY <1>2, <1>3 DEF Upward, c

\* The same on the way to the daemon.
LEMMA DownEnds ==
  ASSUME Typed
  PROVE  /\ \A x \in Frame :
              inq \o Cross("inq") \o Append(down, x) = Append(Downward, x)
         /\ inq # <<>> =>
              Shrunk(Downward, Head(inq), Tail(inq) \o Cross("inq") \o down)
<1> DEFINE c == Cross("inq")
<1>1. inq \in Seq(Frame) /\ down \in Seq(Frame) /\ c \in Seq(Frame)
  BY Paths
<1> HIDE DEF c
<1>2. ASSUME NEW x \in Frame
      PROVE  inq \o c \o Append(down, x) = Append(inq \o c \o down, x)
  BY <1>1, AddedLast
<1>3. inq # <<>> => Shrunk(inq \o c \o down, Head(inq), Tail(inq) \o c \o down)
  BY <1>1, TakenFirst
<1> QED BY <1>2, <1>3 DEF Downward, c

\* What the two sides send comes last.
LEMMA Sends ==
  ASSUME Typed, NEW f \in Frame
  PROVE  /\ SendUp(f) => Grown(Upward, f, Upward') /\ UNCHANGED Downward
         /\ SendDown(f) /\ UNCHANGED daemon =>
              Grown(Downward, f, Downward') /\ UNCHANGED Upward
<1>1. ASSUME SendUp(f) PROVE Grown(Upward, f, Upward') /\ UNCHANGED Downward
  <2>1. UNCHANGED <<up, bridge, inq, down>> /\ outq' = Append(outq, f)
    BY <1>1 DEF SendUp, wire
  <2>2. Cross("up")' = Cross("up")
    BY <2>1 DEF Cross
  <2>3. Upward' = Append(Upward, f)
    BY <2>1, <2>2, UpEnds DEF Upward
  <2> QED BY <2>1, <2>3, Paths, PathsKept, Windows
<1>2. ASSUME SendDown(f), UNCHANGED daemon
      PROVE  Grown(Downward, f, Downward') /\ UNCHANGED Upward
  <2>1. UNCHANGED <<up, bridge, inq, outq>> /\ down' = Append(down, f)
    BY <1>2 DEF SendDown, daemon
  <2>2. Cross("inq")' = Cross("inq")
    BY <2>1 DEF Cross
  <2>3. Downward' = Append(Downward, f)
    BY <2>1, <2>2, DownEnds DEF Downward
  <2> QED BY <2>1, <2>3, Paths, PathsKept, Windows
<1> QED BY <1>1, <1>2

\* What they take came first.
LEMMA Takes ==
  ASSUME Typed
  PROVE  /\ Received => Shrunk(Upward, Head(up), Upward') /\ UNCHANGED Downward
         /\ \A f : LoopTakes(f) => Shrunk(Downward, f, Downward') /\ UNCHANGED Upward
<1>1. ASSUME Received
      PROVE  Shrunk(Upward, Head(up), Upward') /\ UNCHANGED Downward
  <2>1. UNCHANGED <<down, bridge, inq, outq>> /\ up # <<>> /\ up' = Tail(up)
    BY <1>1 DEF Received, daemon
  <2>2. Cross("up")' = Cross("up")
    BY <2>1 DEF Cross
  <2>3. Upward' = Tail(up) \o Cross("up") \o outq
    BY <2>1, <2>2 DEF Upward
  <2> QED BY <2>1, <2>3, UpEnds, PathsKept
<1>2. ASSUME NEW f, LoopTakes(f)
      PROVE  Shrunk(Downward, f, Downward') /\ UNCHANGED Upward
  <2>1. /\ UNCHANGED <<down, bridge, up, outq>> /\ inq # <<>> /\ inq' = Tail(inq)
        /\ f = Head(inq)
    BY <1>2 DEF LoopTakes, wire
  <2>2. Cross("inq")' = Cross("inq")
    BY <2>1 DEF Cross
  <2>3. Downward' = Tail(inq) \o Cross("inq") \o down
    BY <2>1, <2>2 DEF Downward
  <2> QED BY <2>1, <2>3, DownEnds, PathsKept
<1> QED BY <1>1, <1>2

\* A break or a crash leaves a part of what was on the way.
LEMMA Losses ==
  ASSUME Typed, Break \/ Crash
  PROVE  Window(Upward, Upward') /\ Window(Downward, Downward')
<1>e. \A q \in Seq(Frame) : <<>> \o q = q /\ q \o <<>> = q
  BY ConcatEmptySeq
<1>f. <<>> \in Seq(Frame)
  OBVIOUS
<1>1. CASE Break
  <2>1. /\ up' = <<>> /\ down' = <<>> /\ UNCHANGED <<inq, outq>>
        /\ Cross("up")' = <<>> /\ Cross("inq")' = Cross("inq")
    BY <1>1 DEF Break, Cross, Free
  <2>2. Upward' = outq
    BY <2>1, <1>e, <1>f, Paths DEF Upward
  <2>3. inq \o Cross("inq") \in Seq(Frame)
    BY Paths, ConcatProperties
  <2>4. Downward' = inq \o Cross("inq")
    BY <2>1, <2>3, <1>e DEF Downward
  <2>5. Cross("inq") \in Seq(Frame) /\ Cross("up") \in Seq(Frame)
    BY Paths
  <2>6. /\ Window(up \o Cross("up") \o outq, outq)
        /\ Window(inq \o Cross("inq") \o down, inq \o Cross("inq"))
    BY <2>5, Paths, PartsOf
  <2> QED BY <2>2, <2>4, <2>6 DEF Upward, Downward
<1>2. CASE Crash
  <2>1. Upward' = <<>> /\ Downward' = <<>>
    BY <1>2, <1>e, <1>f DEF Crash, Upward, Downward, Cross, Free
  <2> QED BY <2>1, Paths, Windows
<1> QED BY <1>1, <1>2


\* x comes before y in s.
Before(s, x, y) == \E i, j \in 1 .. Len(s) : i < j /\ s[i] = x /\ s[j] = y

\* What the changes of a queue do to what it holds, and to the order of it.
LEMMA Orders ==
  ASSUME NEW S, NEW s \in Seq(S), NEW t \in Seq(S), NEW x
  PROVE  /\ \A y, z : Before(s, y, z) => Contains(s, y) /\ Contains(s, z)
         /\ Window(s, t) => /\ \A y : Contains(t, y) => Contains(s, y)
                            /\ \A y, z : Before(t, y, z) => Before(s, y, z)
         /\ Grown(s, x, t) =>
              /\ \A y : Contains(t, y) <=> Contains(s, y) \/ y = x
              /\ \A y, z : Before(t, y, z)
                   => Before(s, y, z) \/ (Contains(s, y) /\ z = x)
         /\ Shrunk(s, x, t) =>
              /\ \A y : Contains(s, y) <=> Contains(t, y) \/ y = x
              /\ \A y, z : Before(t, y, z) => Before(s, y, z)
              /\ \A y : Contains(t, y) => Before(s, x, y)
<1>1. Len(s) \in Nat /\ Len(t) \in Nat
  OBVIOUS
<1>2. \A y, z : Before(s, y, z) => Contains(s, y) /\ Contains(s, z)
  BY DEF Before, Contains
<1>3. ASSUME Window(s, t)
      PROVE  /\ \A y : Contains(t, y) => Contains(s, y)
             /\ \A y, z : Before(t, y, z) => Before(s, y, z)
  <2>1. PICK k \in Nat : /\ Len(t) + k <= Len(s)
                         /\ \A i \in 1 .. Len(t) : t[i] = s[i + k]
    BY <1>3 DEF Window
  <2>2. \A i \in 1 .. Len(t) : i + k \in 1 .. Len(s)
    BY <1>1, <2>1
  <2>3. ASSUME NEW y, Contains(t, y) PROVE Contains(s, y)
    BY <2>1, <2>2, <2>3 DEF Contains
  <2>4. ASSUME NEW y, NEW z, Before(t, y, z) PROVE Before(s, y, z)
    <3>1. PICK i \in 1 .. Len(t), j \in 1 .. Len(t) : i < j /\ t[i] = y /\ t[j] = z
      BY <2>4 DEF Before
    <3>2. /\ i + k \in 1 .. Len(s) /\ j + k \in 1 .. Len(s) /\ i + k < j + k
          /\ s[i + k] = y /\ s[j + k] = z
      BY <1>1, <2>1, <2>2, <3>1
    <3> QED BY <3>2 DEF Before
  <2> QED BY <2>3, <2>4
<1>4. ASSUME Grown(s, x, t)
      PROVE  /\ \A y : Contains(t, y) <=> Contains(s, y) \/ y = x
             /\ \A y, z : Before(t, y, z)
                  => Before(s, y, z) \/ (Contains(s, y) /\ z = x)
  <2>1. /\ Len(t) = Len(s) + 1 /\ t[Len(t)] = x
        /\ \A i \in 1 .. Len(s) : t[i] = s[i]
    BY <1>4 DEF Grown
  <2>2. 1 .. Len(t) = (1 .. Len(s)) \cup {Len(t)}
    BY <1>1, <2>1
  <2>3. \A y : Contains(t, y) <=> Contains(s, y) \/ y = x
    BY <2>1, <2>2 DEF Contains
  <2>4. ASSUME NEW y, NEW z, Before(t, y, z)
        PROVE  Before(s, y, z) \/ (Contains(s, y) /\ z = x)
    <3>1. PICK i \in 1 .. Len(t), j \in 1 .. Len(t) : i < j /\ t[i] = y /\ t[j] = z
      BY <2>4 DEF Before
    <3>2. i \in 1 .. Len(s) /\ s[i] = y
      BY <1>1, <2>1, <3>1
    <3>3. CASE j = Len(t)
      BY <2>1, <3>1, <3>2, <3>3 DEF Contains
    <3>4. CASE j # Len(t)
      <4>1. j \in 1 .. Len(s) /\ s[j] = z
        BY <2>1, <2>2, <3>1, <3>4
      <4> QED BY <3>1, <3>2, <4>1 DEF Before
    <3> QED BY <3>3, <3>4
  <2> QED BY <2>3, <2>4
<1>5. ASSUME Shrunk(s, x, t)
      PROVE  /\ \A y : Contains(s, y) <=> Contains(t, y) \/ y = x
             /\ \A y, z : Before(t, y, z) => Before(s, y, z)
             /\ \A y : Contains(t, y) => Before(s, x, y)
  <2>1. /\ Len(s) = Len(t) + 1 /\ s[1] = x
        /\ \A i \in 1 .. Len(t) : t[i] = s[i + 1]
    BY <1>5 DEF Shrunk
  <2>2. /\ \A i \in 1 .. Len(t) : i + 1 \in 1 .. Len(s) /\ 1 < i + 1
        /\ \A i \in 1 .. Len(s) : i = 1 \/ (i - 1 \in 1 .. Len(t) /\ (i - 1) + 1 = i)
        /\ 1 \in 1 .. Len(s)
    BY <1>1, <2>1
  <2>3. ASSUME NEW y PROVE Contains(s, y) <=> Contains(t, y) \/ y = x
    <3>1. ASSUME Contains(s, y), y # x PROVE Contains(t, y)
      <4>1. PICK i \in 1 .. Len(s) : s[i] = y
        BY <3>1 DEF Contains
      <4>2. i - 1 \in 1 .. Len(t) /\ t[i - 1] = y
        BY <2>1, <2>2, <3>1, <4>1
      <4> QED BY <4>2 DEF Contains
    <3>2. Contains(t, y) \/ y = x => Contains(s, y)
      BY <2>1, <2>2 DEF Contains
    <3> QED BY <3>1, <3>2
  <2>4. ASSUME NEW y, NEW z, Before(t, y, z) PROVE Before(s, y, z)
    <3>1. PICK i \in 1 .. Len(t), j \in 1 .. Len(t) : i < j /\ t[i] = y /\ t[j] = z
      BY <2>4 DEF Before
    <3>2. /\ i + 1 \in 1 .. Len(s) /\ j + 1 \in 1 .. Len(s) /\ i + 1 < j + 1
          /\ s[i + 1] = y /\ s[j + 1] = z
      BY <1>1, <2>1, <2>2, <3>1
    <3> QED BY <3>2 DEF Before
  <2>5. ASSUME NEW y, Contains(t, y) PROVE Before(s, x, y)
    BY <2>1, <2>2, <2>5 DEF Contains, Before
  <2> QED BY <2>3, <2>4, <2>5
<1> QED BY <1>2, <1>3, <1>4, <1>5

-----------------------------------------------------------------------------
(* The response of a connection.                                            *)

IsData(f, a)    == f.kind = "data" /\ f.of = a
EndsClean(f, a) == f.kind = "close" /\ f.of = a /\ f.why = "clean"
Unsent(a)       == pipe[a].at \in {"new", "registered"}

\* The open frame of an attempt exists once, and before its tunnel.
OpensOnce(a) ==
  /\ ~Before(Downward, Open(a), Open(a))
  /\ Opening(a) => ~Contains(Downward, Open(a))
  /\ Unsent(a) => ~Contains(Downward, Open(a)) /\ ~Opening(a)
  /\ Unsent(a) \/ Contains(Downward, Open(a)) \/ Opening(a)
       => pump[a].reader = "none"
  /\ pump[a].reader = "none" <=> pump[a].writer = "none"

\* Before its tunnel nothing comes of it.
Fresh(a) ==
  pump[a].reader = "none" =>
    /\ answered[a] = 0 /\ got[a] = <<>> /\ pipe[a].ended # "clean"
    /\ \A f : Contains(Upward, f) => ~IsData(f, a) /\ ~EndsClean(f, a)

Unconnected(a) ==
  /\ pipe[a].conn \in 0 .. streams
  /\ pipe[a].conn = 0 => got[a] = <<>> /\ pipe[a].ended # "clean"

\* A clean close comes when the reader is done, and after all it read.
CleanIsLast(a) ==
  /\ pump[a].writer \in {"reporting", "telling"} /\ pump[a].why = "clean"
       => pump[a].reader = "done"
  /\ \A f : Contains(Upward, f) /\ EndsClean(f, a) => pump[a].reader = "done"
  /\ \A f, g : Before(Upward, f, g) /\ EndsClean(f, a) => ~IsData(g, a)

\* The chunks that were sent, and those that were sent for sure.
High(a) == IF pump[a].reader \in {"holding", "late"} THEN answered[a] - 1
           ELSE answered[a]
Low(a) == IF pump[a].reader \in {"holding", "late", "stopped"}
          THEN answered[a] - 1 ELSE answered[a]

Accepting(a) == Up(a) /\ Sink(a) /\ pipe[a].once # "done" /\ ~gone[a]

\* What is on its way follows what was given, in order and without a gap.
InOrder(a) ==
  Accepting(a) =>
    /\ Len(got[a]) <= High(a)
    /\ \A f : Contains(Upward, f) /\ IsData(f, a)
         => f.chunk \in Len(got[a]) + 1 .. High(a)
    /\ \A f, g : Before(Upward, f, g) /\ IsData(f, a) /\ IsData(g, a)
         => f.chunk < g.chunk
    /\ \A m \in Len(got[a]) + 1 .. Low(a) : Contains(Upward, Data(a, m))

Delivered(a) ==
  /\ pipe[a].ended = "clean" => pipe[a].once = "done"
  /\ Up(a) =>
       /\ \A i \in 1 .. Len(got[a]) : got[a][i] = i
       /\ pipe[a].ended = "clean" /\ ~gone[a]
            => Len(got[a]) = answered[a] /\ pump[a].reader = "done"

Whole(a) == /\ OpensOnce(a) /\ Fresh(a) /\ Unconnected(a) /\ CleanIsLast(a)
            /\ InOrder(a) /\ Delivered(a)

-----------------------------------------------------------------------------
(* What a step leaves alone.                                                *)

UpSame(b) ==
  /\ \A f : IsData(f, b) \/ EndsClean(f, b)
       => (Contains(Upward', f) <=> Contains(Upward, f))
  /\ \A f, g : /\ IsData(f, b) \/ EndsClean(f, b)
               /\ IsData(g, b) /\ Before(Upward', f, g)
       => Before(Upward, f, g)

DownLess(b) ==
  /\ Contains(Downward', Open(b)) => Contains(Downward, Open(b))
  /\ Before(Downward', Open(b), Open(b)) => Before(Downward, Open(b), Open(b))

Carried == Upward \in Seq(Frame) /\ Downward \in Seq(Frame)

\* Before a step and after it.
LEMMA PathsNow == Typed => Carried
BY Paths DEF Carried

LEMMA PathsNext == Typed' => Carried'
BY PathsNow, PTL

\* What is added or taken and is not of the response of b is no matter to b.
LEMMA UpSames ==
  ASSUME Typed, Typed', NEW b \in Attempts, NEW x, ~IsData(x, b), ~EndsClean(x, b),
         UNCHANGED Upward \/ Grown(Upward, x, Upward') \/ Shrunk(Upward, x, Upward')
  PROVE  UpSame(b)
<1>1. Upward \in Seq(Frame) /\ Upward' \in Seq(Frame)
  BY PathsNow, PathsNext DEF Carried
<1>2. CASE UNCHANGED Upward
  BY <1>2 DEF UpSame
<1>3. CASE Grown(Upward, x, Upward')
  BY <1>1, <1>3, Orders DEF UpSame
<1>4. CASE Shrunk(Upward, x, Upward')
  BY <1>1, <1>4, Orders DEF UpSame
<1> QED BY <1>2, <1>3, <1>4

\* Only a send of it adds the open frame of b.
LEMMA DownLesses ==
  ASSUME Typed, Typed', NEW b \in Attempts, NEW x,
         \/ UNCHANGED Downward \/ Window(Downward, Downward')
         \/ Shrunk(Downward, x, Downward')
         \/ x # Open(b) /\ Grown(Downward, x, Downward')
  PROVE  DownLess(b)
<1>1. Downward \in Seq(Frame) /\ Downward' \in Seq(Frame)
  BY PathsNow, PathsNext DEF Carried
<1>2. CASE UNCHANGED Downward
  BY <1>2 DEF DownLess
<1>3. CASE Window(Downward, Downward')
  BY <1>1, <1>3, Orders DEF DownLess
<1>4. CASE Shrunk(Downward, x, Downward')
  BY <1>1, <1>4, Orders DEF DownLess
<1>5. CASE x # Open(b) /\ Grown(Downward, x, Downward')
  BY <1>1, <1>5, Orders DEF DownLess
<1> QED BY <1>2, <1>3, <1>4, <1>5

PumpSame(b) == /\ pump'[b].reader = pump[b].reader /\ pump'[b].writer = pump[b].writer
               /\ pump'[b].why = pump[b].why /\ answered'[b] = answered[b]

PipeSame(b) == /\ pipe'[b] = pipe[b] /\ gone'[b] = gone[b] /\ got'[b] = got[b]
               /\ UNCHANGED <<stream, streams>>

\* A step that is not about b, but for the place of its open frame.
LEMMA Rests ==
  ASSUME NEW b \in Attempts, Whole(b), UpSame(b), PumpSame(b), PipeSame(b),
         OpensOnce(b)'
  PROVE  Whole(b)'
<1>1. Fresh(b)'
  BY DEF Whole, Fresh, UpSame, PumpSame, PipeSame
<1>2. Unconnected(b)'
  BY DEF Whole, Unconnected, PipeSame
<1>3. CleanIsLast(b)'
  BY DEF Whole, CleanIsLast, UpSame, PumpSame
<1>4. InOrder(b)'
  <2>1. Accepting(b)' = Accepting(b) /\ High(b)' = High(b) /\ Low(b)' = Low(b)
    BY DEF Accepting, High, Low, PumpSame, PipeSame, Up, Sink
  <2>2. \A m : IsData(Data(b, m), b)
    BY DEF Data, IsData
  <2> QED BY <2>1, <2>2 DEF Whole, InOrder, UpSame, PipeSame
<1>5. Delivered(b)'
  BY DEF Whole, Delivered, PumpSame, PipeSame, Up
<1> QED BY <1>1, <1>2, <1>3, <1>4, <1>5 DEF Whole

\* A step that is not about b.
LEMMA Stays ==
  ASSUME NEW b \in Attempts, Whole(b), UpSame(b), DownLess(b), PumpSame(b),
         PipeSame(b), Opening(b)' => Opening(b)
  PROVE  Whole(b)'
<1>1. OpensOnce(b)'
  BY DEF Whole, OpensOnce, DownLess, PumpSame, PipeSame, Unsent
<1> QED BY <1>1, Rests


-----------------------------------------------------------------------------
(* ResponseIsIntact: the handlers.                                          *)

\* A connection goes on, or ends, on the stream it took.
PipeGoes(a) ==
  /\ pipe'[a].conn = pipe[a].conn
  /\ Sink(a)' => Sink(a)
  /\ Unsent(a)' => Unsent(a)
  /\ pipe[a].once = "done" => pipe'[a].once = "done"
  /\ pipe'[a].ended = "clean" => pipe[a].ended = "clean"

\* An attempt's connection is accepted.
Accepted(a) ==
  /\ pipe[a].at = "new"
  /\ pipe'[a].conn = stream /\ pipe'[a].ended = pipe[a].ended
  /\ pipe'[a].once = pipe[a].once

\* Its open frame is sent.
OpenSent(a) ==
  /\ pipe[a].at = "registered" /\ pipe'[a].at = "pumping"
  /\ Grown(Downward, Open(a), Downward')

\* They leave the daemon alone, and the frames on their way up.
LEMMA HandlerMoves ==
  ASSUME Typed, NEW a \in Attempts,
         \/ Accept(a) \/ Handler(a) \/ CustomerLeaves(a) \/ ReadChunk(a)
         \/ ReadEnd(a) \/ ReceiverCloses(a)
  PROVE  /\ UNCHANGED daemon /\ UNCHANGED <<got, stream, streams, up>>
         /\ \A b \in Attempts : b # a => pipe'[b] = pipe[b] /\ gone'[b] = gone[b]
         /\ gone[a] => gone'[a]
         /\ PipeGoes(a) \/ Accepted(a)
<1>p. /\ pipe[a] \in Pipe /\ pipe \in [Attempts -> Pipe]
      /\ gone \in [Attempts -> BOOLEAN]
  BY DEF Typed, TypeOK, ServerOK, ClientOK
<1>d. \A f : SendDown(f) \/ SendFails(a) => UNCHANGED <<stream, streams, up>>
  BY DEF SendDown, SendFails, wire
<1>1. CASE CustomerLeaves(a)
  <2>1. UNCHANGED <<got, server, wire, daemon>> /\ gone' = [gone EXCEPT ![a] = TRUE]
    BY <1>1 DEF CustomerLeaves
  <2> QED BY <1>p, <2>1 DEF server, wire, PipeGoes, Sink, Unsent
<1>2. CASE Accept(a)
  <2> DEFINE q == [pipe[a] EXCEPT !.at = IF stream = 0 THEN "over" ELSE "registered",
                                  !.conn = stream]
  <2>1. /\ pipe[a].at = "new" /\ UNCHANGED <<client, receiver, wire, daemon>>
        /\ pipe' = [pipe EXCEPT ![a] = q]
    BY <1>2, <1>p DEF Accept
  <2>2. q.conn = stream /\ q.ended = pipe[a].ended /\ q.once = pipe[a].once
    BY <1>p DEF Pipe
  <2> HIDE DEF q
  <2> QED BY <1>p, <2>1, <2>2 DEF client, wire, Accepted
<1>3. CASE SendOpen(a)
  <2>1. PICK at \in {"pumping", "over"} :
          /\ SendDown(Open(a)) \/ SendFails(a)
          /\ pipe' = [pipe EXCEPT ![a] = [pipe[a] EXCEPT !.at = at]]
          /\ UNCHANGED <<client, daemon>>
          /\ pipe[a].at = "registered"
    BY <1>3 DEF SendOpen
  <2> QED BY <1>d, <1>p, <2>1 DEF client, PipeGoes, Sink, Unsent, Pipe
<1>4. CASE SendData(a)
  <2>1. PICK q \in Pipe :
          /\ SendDown(Data(a, asked[a])) \/ SendFails(a)
          /\ pipe' = [pipe EXCEPT ![a] = q]
          /\ UNCHANGED <<client, daemon>>
          /\ pipe[a].at = "sending" /\ q.conn = pipe[a].conn
          /\ q.at \in {"pumping", "over"}
          /\ pipe[a].once = "done" => q.once = "done"
          /\ q.ended = "clean" => pipe[a].ended = "clean"
    <3>1. CASE /\ SendDown(Data(a, asked[a]))
               /\ pipe' = [pipe EXCEPT ![a].at = "pumping"]
      <4> DEFINE q == [pipe[a] EXCEPT !.at = "pumping"]
      <4>1. /\ q \in Pipe /\ q.conn = pipe[a].conn /\ q.at = "pumping"
            /\ q.once = pipe[a].once /\ q.ended = pipe[a].ended
        BY <1>p DEF Pipe
      <4>2. pipe' = [pipe EXCEPT ![a] = q] /\ pipe[a].at = "sending"
            /\ UNCHANGED <<client, daemon>>
        BY <1>4, <3>1 DEF SendData
      <4> HIDE DEF q
      <4> QED BY <3>1, <4>1, <4>2
    <3>2. CASE /\ SendFails(a)
               /\ pipe' = [pipe EXCEPT ![a].at = "over", ![a].once = "done",
                              ![a].ended = IF @ = "no" THEN "here" ELSE @]
      <4> DEFINE q == [pipe[a] EXCEPT !.at = "over", !.once = "done",
                         !.ended = IF pipe[a].ended = "no" THEN "here"
                                   ELSE pipe[a].ended]
      <4>1. /\ q \in Pipe /\ q.conn = pipe[a].conn /\ q.at = "over"
            /\ q.once = "done" /\ q.ended \in {"here", pipe[a].ended}
        BY <1>p DEF Pipe
      <4>2. pipe' = [pipe EXCEPT ![a] = q] /\ pipe[a].at = "sending"
            /\ UNCHANGED <<client, daemon>>
        BY <1>4, <3>2, <1>p DEF SendData
      <4> HIDE DEF q
      <4> QED BY <3>2, <4>1, <4>2
    <3> QED BY <1>4, <3>1, <3>2 DEF SendData
  <2> QED BY <1>d, <1>p, <2>1 DEF client, PipeGoes, Sink, Unsent
<1>5. CASE ReadGone(a) \/ ReadEnd(a)
  <2> DEFINE q == [pipe[a] EXCEPT !.at = "closing", !.once = "pump"]
  <2>1. /\ pipe[a].at = "pumping" /\ pipe[a].once = "free"
        /\ UNCHANGED <<client, receiver, wire, daemon>>
        /\ pipe' = [pipe EXCEPT ![a] = q]
    BY <1>5 DEF ReadGone, ReadEnd, Closing
  <2>2. /\ q.at = "closing" /\ q.conn = pipe[a].conn /\ q.ended = pipe[a].ended
    BY <1>p DEF Pipe
  <2> HIDE DEF q
  <2> QED BY <1>p, <2>1, <2>2 DEF client, wire, PipeGoes, Sink, Unsent
<1>6. CASE SendClose(a)
  <2> DEFINE q == [pipe[a] EXCEPT !.at = "over", !.once = "done", !.ended = "here"]
  <2>1. /\ pipe[a].at = "closing" /\ UNCHANGED <<client, daemon>>
        /\ SendDown(Close(a, "clean")) \/ SendFails(a)
        /\ pipe' = [pipe EXCEPT ![a] = q]
    BY <1>6 DEF SendClose
  <2>2. q.at = "over" /\ q.conn = pipe[a].conn /\ q.once = "done" /\ q.ended = "here"
    BY <1>p DEF Pipe
  <2> HIDE DEF q
  <2> QED BY <1>d, <1>p, <2>1, <2>2 DEF client, PipeGoes, Sink, Unsent
<1>7. CASE ReadClosed(a) \/ ReadChunk(a)
  <2>1. PICK at \in {"over", "sending"} :
          /\ pipe[a].at = "pumping" /\ UNCHANGED <<gone, got, wire, daemon>>
          /\ pipe' = [pipe EXCEPT ![a] = [pipe[a] EXCEPT !.at = at]]
    BY <1>7 DEF ReadClosed, ReadChunk, client
  <2> QED BY <1>p, <2>1 DEF wire, PipeGoes, Sink, Unsent, Pipe
<1>8. CASE ReceiverCloses(a)
  <2> DEFINE q == [pipe[a] EXCEPT !.once = "done", !.ended = "here"]
  <2>1. /\ UNCHANGED <<client, daemon>>
        /\ SendDown(Close(a, "clean")) \/ SendFails(a)
        /\ pipe' = [pipe EXCEPT ![a] = q]
    BY <1>8 DEF ReceiverCloses, Closed
  <2>2. /\ q.at = pipe[a].at /\ q.conn = pipe[a].conn /\ q.once = "done"
        /\ q.ended = "here"
    BY <1>p DEF Pipe
  <2> HIDE DEF q
  <2> QED BY <1>d, <1>p, <2>1, <2>2 DEF client, PipeGoes, Sink, Unsent
<1> QED BY <1>1, <1>2, <1>3, <1>4, <1>5, <1>6, <1>7, <1>8 DEF Handler

\* What the handlers send.
LEMMA HandlerSends ==
  ASSUME TunnelsAssumption, Typed, NEW a \in Attempts,
         \/ Accept(a) \/ Handler(a) \/ CustomerLeaves(a) \/ ReadChunk(a)
         \/ ReadEnd(a) \/ ReceiverCloses(a)
  PROVE  /\ UNCHANGED Upward
         /\ \/ UNCHANGED Downward
            \/ OpenSent(a)
            \/ \E x : x.kind # "open" /\ Grown(Downward, x, Downward')
<1>1. UNCHANGED <<daemon, up>>
  BY HandlerMoves
<1>2. UNCHANGED Upward
  BY <1>1, PathsKept DEF daemon
<1>3. UNCHANGED down => UNCHANGED Downward
  BY <1>1, PathsKept DEF daemon
<1>4. ASSUME NEW f \in Frame, SendDown(f) PROVE Grown(Downward, f, Downward')
  BY <1>1, <1>4, Sends
<1>5. CASE \/ SendData(a) \/ SendClose(a) \/ ReceiverCloses(a)
  <2>1. asked[a] \in Chunks
    BY DEF Typed, TypeOK, ClientOK
  <2>2. /\ Data(a, asked[a]) \in Frame /\ Close(a, "clean") \in Frame
        /\ Data(a, asked[a]).kind # "open" /\ Close(a, "clean").kind # "open"
    BY <2>1, Frames, Closes DEF Reason, Data, Close
  <2>3. \/ SendDown(Data(a, asked[a])) \/ SendDown(Close(a, "clean"))
        \/ UNCHANGED down
    BY <1>5 DEF SendData, SendClose, ReceiverCloses, SendFails, wire
  <2> QED BY <1>2, <1>3, <1>4, <2>2, <2>3
<1>6. CASE SendOpen(a)
  <2>1. Open(a) \in Frame
    BY Frames DEF Reason, Chunks, TunnelsAssumption
  <2>2. \/ SendDown(Open(a)) /\ pipe'[a].at = "pumping" /\ pipe[a].at = "registered"
        \/ UNCHANGED down
    BY <1>6 DEF SendOpen, SendFails, wire, Typed, TypeOK, ServerOK, Pipe
  <2> QED BY <1>2, <1>3, <1>4, <2>1, <2>2 DEF OpenSent
<1>7. CASE \/ Accept(a) \/ CustomerLeaves(a) \/ ReadChunk(a) \/ ReadEnd(a)
           \/ ReadGone(a) \/ ReadClosed(a)
  <2>1. UNCHANGED down
    BY <1>7 DEF Accept, CustomerLeaves, ReadChunk, ReadEnd, ReadGone, Closing,
       ReadClosed, wire
  <2> QED BY <1>2, <1>3, <2>1
<1> QED BY <1>5, <1>6, <1>7 DEF Handler

\* Every response stays whole.
LEMMA HandlerWhole ==
  ASSUME TunnelsAssumption, Typed, Typed', NEW a \in Attempts,
         \/ Accept(a) \/ Handler(a) \/ CustomerLeaves(a) \/ ReadChunk(a)
         \/ ReadEnd(a) \/ ReceiverCloses(a),
         NEW b \in Attempts, Whole(b)
  PROVE  Whole(b)'
<1>1. /\ UNCHANGED daemon /\ UNCHANGED <<got, stream, streams, up>>
      /\ b # a => pipe'[b] = pipe[b] /\ gone'[b] = gone[b]
      /\ gone[a] => gone'[a]
      /\ PipeGoes(a) \/ Accepted(a)
  BY HandlerMoves
<1>2. /\ UNCHANGED Upward
      /\ \/ UNCHANGED Downward
         \/ OpenSent(a)
         \/ \E x : x.kind # "open" /\ Grown(Downward, x, Downward')
  BY HandlerSends
<1>3. PumpSame(b) /\ (Opening(b)' <=> Opening(b)) /\ UpSame(b)
  BY <1>1, <1>2 DEF daemon, PumpSame, Opening, UpSame
<1>4. DownLess(b) \/ (b = a /\ OpenSent(a))
  <2>1. Open(b).kind = "open" /\ Open(b).of = b /\ Open(a).of = a
    BY DEF Open
  <2>2. CASE OpenSent(a) /\ b # a
    BY <2>1, <2>2, DownLesses DEF OpenSent
  <2>3. CASE UNCHANGED Downward
    BY <2>3 DEF DownLess
  <2>4. ASSUME NEW x, x.kind # "open", Grown(Downward, x, Downward') PROVE DownLess(b)
    BY <2>1, <2>4, DownLesses
  <2> QED BY <1>2, <2>2, <2>3, <2>4
<1>5. CASE b # a
  BY <1>1, <1>3, <1>4, <1>5, Stays DEF PipeSame
<1>6. CASE b = a
  <2>1. OpensOnce(b)'
    <3>1. CASE OpenSent(a)
      <4>1. /\ Unsent(b) /\ ~Unsent(b)'
        BY <1>6, <3>1 DEF OpenSent, Unsent
      <4>2. Downward \in Seq(Frame) /\ Downward' \in Seq(Frame)
        BY PathsNow, PathsNext DEF Carried
      <4>3. ~Before(Downward', Open(b), Open(b))
        BY <1>6, <3>1, <4>1, <4>2, Orders DEF OpenSent, Whole, OpensOnce
      <4> QED BY <1>3, <4>1, <4>3 DEF Whole, OpensOnce, PumpSame
    <3>2. CASE DownLess(b) /\ (Unsent(b)' => Unsent(b))
      BY <1>3, <3>2 DEF Whole, OpensOnce, PumpSame, DownLess
    <3>3. Unsent(b)' => Unsent(b)
      BY <1>1, <1>6 DEF PipeGoes, Accepted, Unsent
    <3> QED BY <1>4, <3>1, <3>2, <3>3
  <2>2. CASE PipeGoes(a)
    <3>1. Fresh(b)'
      BY <1>1, <1>3, <1>6, <2>2 DEF Whole, Fresh, PumpSame, UpSame, PipeGoes
    <3>2. Unconnected(b)'
      BY <1>1, <1>6, <2>2 DEF Whole, Unconnected, PipeGoes
    <3>3. CleanIsLast(b)'
      BY <1>3 DEF Whole, CleanIsLast, PumpSame, UpSame
    <3>4. InOrder(b)'
      <4>1. Accepting(b)' => Accepting(b)
        BY <1>1, <1>6, <2>2 DEF Accepting, Up, PipeGoes
      <4>2. High(b)' = High(b) /\ Low(b)' = Low(b)
        BY <1>3 DEF High, Low, PumpSame
      <4>3. \A m : IsData(Data(b, m), b)
        BY DEF Data, IsData
      <4> QED BY <1>1, <1>3, <4>1, <4>2, <4>3 DEF Whole, InOrder, UpSame
    <3>5. Delivered(b)'
      BY <1>1, <1>3, <1>6, <2>2 DEF Whole, Delivered, PumpSame, PipeGoes, Up
    <3> QED BY <2>1, <3>1, <3>2, <3>3, <3>4, <3>5 DEF Whole
  <2>3. CASE Accepted(a)
    <3>1. /\ pump[b].reader = "none" /\ got[b] = <<>> /\ answered[b] = 0
          /\ pipe[b].ended # "clean"
          /\ \A f : Contains(Upward, f) => ~IsData(f, b) /\ ~EndsClean(f, b)
      BY <1>6, <2>3 DEF Accepted, Whole, OpensOnce, Fresh, Unsent
    <3>2. /\ pump'[b].reader = "none" /\ got'[b] = <<>> /\ answered'[b] = 0
          /\ pipe'[b].ended # "clean"
          /\ \A f : Contains(Upward', f) => ~IsData(f, b) /\ ~EndsClean(f, b)
      BY <1>1, <1>2, <1>3, <1>6, <2>3, <3>1 DEF Accepted, PumpSame
    <3>3. Fresh(b)' /\ CleanIsLast(b)'
      BY <1>3, <3>2 DEF Whole, Fresh, CleanIsLast, PumpSame, UpSame
    <3>4. Unconnected(b)'
      <4>1. stream \in 0 .. streams
        BY DEF Typed, TypeOK, WireOK, TunnelsAssumption
      <4> QED BY <1>1, <1>6, <2>3, <3>2, <4>1 DEF Unconnected, Accepted
    <3>5. InOrder(b)' /\ Delivered(b)'
      <4>1. High(b)' = 0 /\ Low(b)' = 0 /\ Len(got'[b]) = 0
        BY <3>2 DEF High, Low
      <4>2. Upward' \in Seq(Frame)
        BY PathsNext DEF Carried
      <4>3. \A f, g : Before(Upward', f, g) => Contains(Upward', f)
        BY <4>2, Orders
      <4>4. InOrder(b)'
        BY <3>2, <4>1, <4>3 DEF InOrder
      <4> QED BY <3>2, <4>1, <4>4 DEF Delivered
    <3> QED BY <2>1, <3>3, <3>4, <3>5 DEF Whole
  <2> QED BY <1>1, <2>2, <2>3
<1> QED BY <1>5, <1>6


-----------------------------------------------------------------------------
(* ResponseIsIntact: the receive loop and the bridge.                       *)

\* It gives the frame f to b's customer, or ends b's connection for it.
Given(b, f) ==
  /\ IsData(f, b) /\ Sink(b) /\ pipe[b].once # "done" /\ ~gone[b]
  /\ got'[b] = Append(got[b], f.chunk) /\ pipe'[b] = pipe[b]
Ended(b, f) ==
  /\ f.kind = "close" /\ f.of = b /\ Sink(b) /\ pipe[b].once = "free"
  /\ pipe'[b].once = "done" /\ pipe'[b].ended = f.why /\ got'[b] = got[b]
\* It leaves b as it is, except that it may begin to close its pipe.
Passed(b, f) ==
  /\ IsData(f, b) => ~Accepting(b)
  /\ pipe'[b].ended = pipe[b].ended /\ got'[b] = got[b]
  /\ pipe[b].once = "done" <=> pipe'[b].once = "done"

\* What a frame that is received does to each connection.
LEMMA ReceiveMoves ==
  ASSUME Typed, NEW a \in Attempts,
         ReceiveData(a) \/ ReceiveFails(a) \/ ReceiveClose(a) \/ ReceiveDrops(a)
  PROVE  /\ Received
         /\ \A b \in Attempts :
              /\ pipe'[b].conn = pipe[b].conn /\ pipe'[b].at = pipe[b].at
              /\ Given(b, Head(up)) \/ Ended(b, Head(up)) \/ Passed(b, Head(up))
<1> DEFINE f == Head(up)
<1>p. /\ pipe \in [Attempts -> Pipe] /\ got \in [Attempts -> Seq(Chunks)]
      /\ \A b \in Attempts : pipe[b] \in Pipe
  BY DEF Typed, TypeOK, ServerOK, ClientOK
<1> HIDE DEF f
<1>1. CASE ReceiveData(a)
  <2>1. /\ Received /\ UNCHANGED pipe /\ f.kind = "data" /\ f.of = a
        /\ Sink(a) /\ pipe[a].once # "done" /\ ~gone[a]
        /\ got' = [got EXCEPT ![a] = Append(@, f.chunk)]
    BY <1>1 DEF ReceiveData, server, f
  <2>2. Given(a, f)
    BY <1>p, <2>1 DEF Given, IsData
  <2>3. \A b \in Attempts : b # a => Passed(b, f)
    BY <1>p, <2>1 DEF Passed, IsData
  <2> QED BY <2>1, <2>2, <2>3 DEF f
<1>2. CASE ReceiveFails(a)
  <2> DEFINE q == [pipe[a] EXCEPT !.once = "receiver"]
  <2>1. /\ Received /\ UNCHANGED got /\ f.kind = "data" /\ f.of = a
        /\ pipe[a].once = "free" /\ gone[a]
        /\ pipe' = [pipe EXCEPT ![a] = q] \/ UNCHANGED pipe
    BY <1>2 DEF ReceiveFails, server, f
  <2>2. /\ q.at = pipe[a].at /\ q.conn = pipe[a].conn /\ q.ended = pipe[a].ended
        /\ q.once = "receiver"
    BY <1>p DEF Pipe
  <2> HIDE DEF q
  <2>3. \A b \in Attempts : Passed(b, f)
    BY <1>p, <2>1, <2>2 DEF Passed, IsData, Accepting
  <2>4. \A b \in Attempts : pipe'[b].conn = pipe[b].conn /\ pipe'[b].at = pipe[b].at
    BY <1>p, <2>1, <2>2
  <2> QED BY <2>1, <2>3, <2>4 DEF f
<1>3. CASE ReceiveClose(a)
  <2> DEFINE q == [pipe[a] EXCEPT !.once = "done", !.ended = f.why]
  <2>1. /\ Received /\ UNCHANGED got /\ f.kind = "close" /\ f.of = a /\ Sink(a)
        /\ pipe[a].once = "free" /\ pipe' = [pipe EXCEPT ![a] = q]
    BY <1>3 DEF ReceiveClose, f
  <2>2. /\ q.at = pipe[a].at /\ q.conn = pipe[a].conn /\ q.ended = f.why
        /\ q.once = "done"
    BY <1>p DEF Pipe
  <2> HIDE DEF q
  <2>3. Ended(a, f)
    BY <1>p, <2>1, <2>2 DEF Ended
  <2>4. \A b \in Attempts : b # a => Passed(b, f)
    BY <1>p, <2>1 DEF Passed, IsData
  <2>5. \A b \in Attempts : pipe'[b].conn = pipe[b].conn /\ pipe'[b].at = pipe[b].at
    BY <1>p, <2>1, <2>2
  <2> QED BY <2>1, <2>3, <2>4, <2>5 DEF f
<1>4. CASE ReceiveDrops(a)
  <2>1. /\ Received /\ UNCHANGED <<got, pipe>> /\ f.of = a
        /\ f.kind = "update" \/ ~Sink(a) \/ pipe[a].once = "done"
    BY <1>4 DEF ReceiveDrops, server, f
  <2>2. \A b \in Attempts : Passed(b, f)
    BY <2>1 DEF Passed, IsData, Accepting
  <2> QED BY <2>1, <2>2 DEF f
<1> QED BY <1>1, <1>2, <1>3, <1>4

\* Chunks are counted in integers, and one at most is neither sent for sure
\* nor unsent for sure.
LEMMA Responses ==
  ASSUME TunnelsAssumption, Typed, NEW b \in Attempts
  PROVE  /\ got[b] \in Seq(Chunks) /\ Len(got[b]) \in Nat /\ answered[b] \in Nat
         /\ Chunks \subseteq Nat /\ High(b) \in Int /\ Low(b) \in Int
         /\ High(b) <= Low(b) + 1
<1>1. Chunks \subseteq Nat
  BY DEF Chunks, TunnelsAssumption
<1>2. got[b] \in Seq(Chunks) /\ answered[b] \in Chunks
  BY DEF Typed, TypeOK, ClientOK, AnsweredOK
<1>3. Len(got[b]) \in Nat /\ answered[b] \in Nat
  BY <1>1, <1>2
<1> QED BY <1>1, <1>2, <1>3 DEF High, Low

Numbers == \A b \in Attempts : High(b) \in Int /\ Low(b) \in Int

\* The same before a step and after it.
LEMMA ResponsesNow == Typed => Numbers
BY Responses, TunnelsAssumption DEF Numbers

LEMMA ResponsesNext == Typed' => Numbers'
BY ResponsesNow, PTL

\* The next chunk that is given is the next of the response.
LEMMA NextChunk ==
  ASSUME TunnelsAssumption, Typed, Typed', NEW b \in Attempts, InOrder(b),
         Accepting(b), NEW f, IsData(f, b), Shrunk(Upward, f, Upward')
  PROVE  f.chunk = Len(got[b]) + 1 /\ f.chunk <= High(b)
<1>1. Upward \in Seq(Frame) /\ Upward' \in Seq(Frame)
  BY PathsNow, PathsNext DEF Carried
<1>2. /\ \A y : Contains(Upward, y) <=> Contains(Upward', y) \/ y = f
      /\ \A y : Contains(Upward', y) => Before(Upward, f, y)
  BY <1>1, Orders
<1>3. /\ \A g : Contains(Upward, g) /\ IsData(g, b) => g.chunk \in Len(got[b]) + 1 .. High(b)
      /\ \A g, h : Before(Upward, g, h) /\ IsData(g, b) /\ IsData(h, b)
           => g.chunk < h.chunk
      /\ \A m \in Len(got[b]) + 1 .. Low(b) : Contains(Upward, Data(b, m))
  BY DEF InOrder
<1>4. /\ Len(got[b]) \in Nat /\ answered[b] \in Nat
  BY Responses
<1>5. High(b) \in Int /\ Low(b) \in Int /\ High(b) <= Low(b) + 1
  BY Responses
<1>6. f.chunk \in Len(got[b]) + 1 .. High(b)
  BY <1>2, <1>3
<1>7. ASSUME f.chunk # Len(got[b]) + 1 PROVE FALSE
  <2> DEFINE m == Len(got[b]) + 1
             d == Data(b, m)
  <2>1. m \in Len(got[b]) + 1 .. Low(b) /\ f.chunk \in Int /\ m < f.chunk
    BY <1>4, <1>5, <1>6, <1>7
  <2>2. IsData(d, b) /\ d.chunk = m
    BY DEF Data, IsData
  <2>3. Contains(Upward, d)
    BY <1>3, <2>1
  <2>4. d # f
    BY <2>1, <2>2
  <2> HIDE DEF d, m
  <2>5. Before(Upward, f, d)
    BY <1>2, <2>3, <2>4
  <2>6. f.chunk < d.chunk
    BY <1>3, <2>2, <2>5
  <2>7. m \in Int
    BY <1>4 DEF m
  <2> QED BY <2>1, <2>2, <2>6, <2>7
<1> QED BY <1>5, <1>6, <1>7, <1>4

\* What is given extends the response, and a clean close finds it complete.
LEMMA ReceiveWhole ==
  ASSUME TunnelsAssumption, Typed, Typed', NEW a \in Attempts,
         ReceiveData(a) \/ ReceiveFails(a) \/ ReceiveClose(a) \/ ReceiveDrops(a),
         NEW b \in Attempts, Whole(b)
  PROVE  Whole(b)'
<1> DEFINE f == Head(up)
<1>1. /\ Received /\ pipe'[b].conn = pipe[b].conn /\ pipe'[b].at = pipe[b].at
      /\ Given(b, f) \/ Ended(b, f) \/ Passed(b, f)
  BY ReceiveMoves
<1>2. Shrunk(Upward, f, Upward') /\ UNCHANGED Downward
  BY <1>1, Takes
<1> HIDE DEF f
<1>3. UNCHANGED <<stream, streams, gone, daemon>>
  BY <1>1 DEF Received
<1>4. PumpSame(b) /\ (Opening(b)' <=> Opening(b))
      /\ High(b)' = High(b) /\ Low(b)' = Low(b)
  BY <1>3 DEF daemon, PumpSame, Opening, High, Low
<1>5. Upward \in Seq(Frame) /\ Upward' \in Seq(Frame)
  BY PathsNow, PathsNext DEF Carried
<1>6. /\ \A y : Contains(Upward, y) <=> Contains(Upward', y) \/ y = f
      /\ \A y, z : Before(Upward', y, z) => Before(Upward, y, z)
      /\ \A y : Contains(Upward', y) => Before(Upward, f, y)
  BY <1>2, <1>5, Orders
<1>w. /\ OpensOnce(b) /\ Fresh(b) /\ Unconnected(b) /\ CleanIsLast(b)
      /\ InOrder(b) /\ Delivered(b)
  BY DEF Whole
<1>t. /\ got[b] \in Seq(Chunks) /\ Len(got[b]) \in Nat /\ answered[b] \in Nat
      /\ Chunks \subseteq Nat /\ (Sink(b) => pipe[b].conn \in 1 .. streams)
  BY Responses DEF Typed, Conns
<1>7. OpensOnce(b)'
  BY <1>1, <1>2, <1>4, <1>w DEF OpensOnce, PumpSame, Unsent
<1>8. Fresh(b)'
  <2>1. pump[b].reader = "none" => ~IsData(f, b) /\ ~EndsClean(f, b)
    BY <1>6, <1>w DEF Fresh
  <2>2. pump[b].reader = "none" => got'[b] = <<>> /\ pipe'[b].ended # "clean"
    BY <1>1, <1>w, <2>1 DEF Fresh, Given, Ended, Passed, EndsClean
  <2> QED BY <1>4, <1>6, <1>w, <2>2 DEF Fresh, PumpSame
<1>9. Unconnected(b)'
  <2>1. pipe[b].conn = 0 => Passed(b, f)
    BY <1>1, <1>t DEF Given, Ended
  <2> QED BY <1>1, <1>3, <1>w, <2>1 DEF Unconnected, Passed
<1>10. CleanIsLast(b)'
  BY <1>4, <1>6, <1>w DEF CleanIsLast, PumpSame
<1>11. Accepting(b)' => Accepting(b) /\ ~Ended(b, f)
  BY <1>1, <1>3 DEF Accepting, Up, Sink, Given, Ended, Passed
<1>12. \A m : IsData(Data(b, m), b) /\ Data(b, m).chunk = m
  BY DEF Data, IsData
<1>13. InOrder(b)'
  <2> SUFFICES ASSUME Accepting(b)' PROVE InOrder(b)'
    BY DEF InOrder
  <2>1. CASE Given(b, f)
    <3>1. /\ IsData(f, b) /\ f.chunk = Len(got[b]) + 1 /\ f.chunk <= High(b)
      BY <1>2, <1>11, <1>w, <2>1, NextChunk DEF Given
    <3>2. Len(got'[b]) = Len(got[b]) + 1
      BY <1>t, <2>1, <3>1 DEF Given
    <3>3. High(b) \in Int /\ Low(b) \in Int
      BY <1>t DEF High, Low
    <3>4. ASSUME NEW g, Contains(Upward', g), IsData(g, b)
          PROVE  g.chunk \in Len(got'[b]) + 1 .. High(b)
      <4>1. g.chunk \in Len(got[b]) + 1 .. High(b) /\ f.chunk < g.chunk
        BY <1>6, <1>11, <1>w, <3>1, <3>4 DEF InOrder
      <4> QED BY <1>t, <3>1, <3>2, <3>3, <4>1
    <3>5. ASSUME NEW m \in Len(got'[b]) + 1 .. Low(b)
          PROVE  Contains(Upward', Data(b, m))
      <4>1. m \in Len(got[b]) + 1 .. Low(b) /\ m # f.chunk
        BY <1>t, <3>1, <3>2, <3>3
      <4>2. Contains(Upward, Data(b, m)) /\ Data(b, m) # f
        BY <1>11, <1>12, <1>w, <4>1 DEF InOrder
      <4> QED BY <1>6, <4>2
    <3>6. Len(got'[b]) <= High(b)
      BY <3>1, <3>2
    <3> QED BY <1>4, <1>6, <1>11, <1>w, <3>4, <3>5, <3>6 DEF InOrder
  <2>2. CASE Passed(b, f)
    <3>1. ~IsData(f, b) /\ got'[b] = got[b]
      BY <1>11, <2>2 DEF Passed
    <3> QED BY <1>4, <1>6, <1>11, <1>12, <1>w, <3>1 DEF InOrder
  <2> QED BY <1>1, <1>11, <2>1, <2>2
<1>14. Delivered(b)'
  <2>u. Up(b)' <=> Up(b)
    BY <1>1, <1>3 DEF Up
  <2>1. CASE Given(b, f)
    <3>1. pipe[b].ended # "clean" /\ pipe'[b].ended # "clean"
      BY <1>w, <2>1 DEF Given, Delivered
    <3>2. ASSUME Up(b), NEW i \in 1 .. Len(got'[b]) PROVE got'[b][i] = i
      <4>1. Accepting(b)
        BY <2>1, <3>2 DEF Given, Accepting
      <4>2. f.chunk = Len(got[b]) + 1
        BY <1>2, <1>w, <2>1, <4>1, NextChunk DEF Given
      <4>3. f.chunk \in Chunks
        BY <1>1, UpTaken DEF f, Frame
      <4>4. /\ Len(got'[b]) = Len(got[b]) + 1 /\ got'[b][Len(got[b]) + 1] = f.chunk
            /\ \A j \in 1 .. Len(got[b]) : got'[b][j] = got[b][j]
        BY <1>t, <2>1, <4>3 DEF Given
      <4>5. i \in 1 .. Len(got[b]) \/ i = Len(got[b]) + 1
        BY <1>t, <4>4
      <4> QED BY <1>w, <3>2, <4>2, <4>4, <4>5 DEF Delivered
    <3> QED BY <2>u, <3>1, <3>2 DEF Delivered
  <2>2. CASE Ended(b, f)
    <3>1. pipe'[b].once = "done" /\ got'[b] = got[b]
      BY <2>2 DEF Ended
    <3>2. ASSUME Up(b), pipe'[b].ended = "clean", ~gone'[b]
          PROVE  Len(got[b]) = answered[b] /\ pump[b].reader = "done"
      <4>1. EndsClean(f, b) /\ Accepting(b)
        BY <1>3, <2>2, <3>2 DEF Ended, EndsClean, Accepting
      <4>2. pump[b].reader = "done"
        BY <1>6, <1>w, <4>1 DEF CleanIsLast
      <4>3. High(b) = answered[b] /\ Low(b) = answered[b]
        BY <4>2 DEF High, Low
      <4>4. Len(got[b]) <= answered[b]
        BY <1>w, <4>1, <4>3 DEF InOrder
      <4>5. ASSUME Len(got[b]) < answered[b] PROVE FALSE
        <5>1. Contains(Upward, Data(b, answered[b]))
          <6>1. answered[b] \in Len(got[b]) + 1 .. Low(b)
            BY <1>t, <4>3, <4>5
          <6> QED BY <1>w, <4>1, <6>1 DEF InOrder
        <5>2. Data(b, answered[b]) # f
          BY <4>1 DEF Data, EndsClean
        <5>3. Before(Upward, f, Data(b, answered[b]))
          BY <1>6, <5>1, <5>2
        <5> QED BY <1>12, <1>w, <4>1, <5>3 DEF CleanIsLast
      <4> QED BY <1>t, <4>2, <4>4, <4>5
    <3> QED BY <1>4, <1>w, <2>u, <3>1, <3>2 DEF Delivered, PumpSame
  <2>3. CASE Passed(b, f)
    BY <1>3, <1>4, <1>w, <2>u, <2>3 DEF Delivered, PumpSame, Passed
  <2> QED BY <1>1, <2>1, <2>2, <2>3
<1> QED BY <1>7, <1>8, <1>9, <1>10, <1>13, <1>14 DEF Whole

\* The bridge changes neither path.
LEMMA BridgeWhole ==
  ASSUME TunnelsAssumption, Typed, Typed', BridgeTakes \/ BridgePuts,
         NEW b \in Attempts, Whole(b)
  PROVE  Whole(b)'
<1>1. UNCHANGED Upward /\ UNCHANGED Downward
  BY BridgeCarries
<1>2. UNCHANGED <<client, server, stream, streams, loop, pump, answered>>
  BY DEF BridgeTakes, BridgePuts
<1>3. UpSame(b) /\ DownLess(b)
  BY <1>1 DEF UpSame, DownLess
<1>4. PumpSame(b) /\ PipeSame(b) /\ (Opening(b)' => Opening(b))
  BY <1>2 DEF PumpSame, PipeSame, Opening, client, server
<1> QED BY <1>3, <1>4, Stays


-----------------------------------------------------------------------------
(* ResponseIsIntact: the dispatch loop.                                     *)

\* An entry more in a mailbox changes none of the tasks.
LEMMA BoxOnly ==
  ASSUME Typed, NEW a \in Attempts, NEW e, UNCHANGED answered,
         \/ pump' = [pump EXCEPT ![a].box = Append(@, e)] \/ UNCHANGED pump
  PROVE  \A b \in Attempts : PumpSame(b)
<1> DEFINE q == [pump[a] EXCEPT !.box = Append(@, e)]
<1>1. /\ pump \in [Attempts -> Pump] /\ pump[a] \in Pump
      /\ pump' = [pump EXCEPT ![a] = q] \/ UNCHANGED pump
  BY DEF Typed, TypeOK, PumpOK
<1>2. q.writer = pump[a].writer /\ q.reader = pump[a].reader /\ q.why = pump[a].why
  BY <1>1 DEF Pump
<1> HIDE DEF q
<1> QED BY <1>1, <1>2 DEF PumpSame

\* The loop takes an open frame, and there is no other for the attempt.
LEMMA OpenTaken ==
  ASSUME TunnelsAssumption, Typed, Typed', NEW a \in Attempts, TakeOpen(a),
         NEW b \in Attempts, Whole(b)
  PROVE  Whole(b)'
<1>1. /\ LoopTakes(Open(a)) /\ UNCHANGED pump
      /\ loop' = [IdleLoop EXCEPT !.at = "opening", !.of = a]
  BY DEF TakeOpen
<1>2. UNCHANGED <<client, server, wire, answered>>
  BY <1>1 DEF LoopTakes
<1>3. Shrunk(Downward, Open(a), Downward') /\ UNCHANGED Upward
  BY <1>1, Takes
<1>4. UpSame(b) /\ DownLess(b) /\ PumpSame(b) /\ PipeSame(b)
  BY <1>1, <1>2, <1>3, DownLesses DEF UpSame, PumpSame, PipeSame, client, server, wire
<1>5. loop'.of = a /\ loop'.at = "opening"
  BY <1>1 DEF IdleLoop
<1>6. CASE b # a
  <2>1. ~Opening(b)'
    BY <1>5, <1>6 DEF Opening
  <2> QED BY <1>4, <2>1, Stays
<1>7. CASE b = a
  <2>1. Downward \in Seq(Frame) /\ Downward' \in Seq(Frame)
    BY PathsNow, PathsNext DEF Carried
  <2>2. /\ Contains(Downward, Open(b))
        /\ Contains(Downward', Open(b)) => Before(Downward, Open(b), Open(b))
    BY <1>3, <1>7, <2>1, Orders
  <2>3. ~Contains(Downward', Open(b)) /\ ~Unsent(b) /\ pump[b].reader = "none"
    BY <2>2 DEF Whole, OpensOnce
  <2>4. OpensOnce(b)'
    BY <1>4, <2>3 DEF Whole, OpensOnce, DownLess, PumpSame, PipeSame, Unsent
  <2> QED BY <1>4, <2>4, Rests
<1> QED BY <1>6, <1>7

\* The destination was reached.
LEMMA Dialled ==
  ASSUME TunnelsAssumption, Typed, Typed', DialWorks, NEW b \in Attempts, Whole(b)
  PROVE  Whole(b)'
<1> DEFINE a == loop.of
           q == [writer |-> "select", reader |-> "reading", box |-> <<>>,
                 why |-> "clean"]
<1>1. /\ Opening(a) /\ a \in Attempts /\ loop' = IdleLoop
      /\ pump' = [pump EXCEPT ![a] = q]
      /\ UNCHANGED <<client, server, wire, bridge, inq, outq, answered>>
  BY DEF DialWorks, Opening, Typed, Names
<1>2. UNCHANGED Upward /\ UNCHANGED Downward
  BY <1>1, PathsKept DEF wire
<1>3. UpSame(b) /\ DownLess(b) /\ PipeSame(b)
  BY <1>1, <1>2 DEF UpSame, DownLess, PipeSame, client, server, wire
<1>i. NoOne \notin Attempts
  BY DEF TunnelsAssumption
<1>4. ~Opening(b)'
  BY <1>1, <1>i DEF Opening, IdleLoop
<1>5. /\ q.writer = "select" /\ q.reader = "reading" /\ q.why = "clean"
      /\ pump \in [Attempts -> Pump]
  BY DEF Typed, TypeOK, PumpOK
<1> HIDE DEF a, q
<1>6. CASE b # a
  <2>1. PumpSame(b)
    BY <1>1, <1>5, <1>6 DEF PumpSame
  <2> QED BY <1>3, <1>4, <2>1, Stays
<1>7. CASE b = a
  <2>1. pump'[b].writer = "select" /\ pump'[b].reader = "reading"
    BY <1>1, <1>5, <1>7
  <2>2. pump[b].reader = "none" /\ ~Contains(Downward, Open(b)) /\ ~Unsent(b)
    BY <1>1, <1>7 DEF Whole, OpensOnce
  <2>3. /\ answered[b] = 0 /\ got[b] = <<>> /\ pipe[b].ended # "clean"
        /\ \A f : Contains(Upward, f) => ~IsData(f, b) /\ ~EndsClean(f, b)
    BY <2>2 DEF Whole, Fresh
  <2>4. /\ answered'[b] = 0 /\ got'[b] = <<>> /\ pipe'[b].ended # "clean"
        /\ \A f : Contains(Upward', f) => ~IsData(f, b) /\ ~EndsClean(f, b)
    BY <1>1, <1>2, <1>3, <2>3 DEF PipeSame
  <2>5. \A f, g : Before(Upward', f, g) => Contains(Upward', f)
    <3>1. Upward' \in Seq(Frame)
      BY PathsNext DEF Carried
    <3> QED BY <3>1, Orders
  <2>6. OpensOnce(b)' /\ Fresh(b)' /\ CleanIsLast(b)'
    BY <1>2, <1>3, <1>4, <2>1, <2>2, <2>4, <2>5
    DEF Whole, OpensOnce, Fresh, CleanIsLast, DownLess, PipeSame, Unsent
  <2>7. Unconnected(b)'
    BY <1>3 DEF Whole, Unconnected, PipeSame
  <2>8. InOrder(b)' /\ Delivered(b)'
    <3>1. High(b)' = 0 /\ Low(b)' = 0 /\ Len(got'[b]) = 0
      BY <2>1, <2>4 DEF High, Low
    <3>2. InOrder(b)'
      BY <2>4, <2>5, <3>1 DEF InOrder
    <3> QED BY <2>4, <3>2 DEF Delivered
  <2> QED BY <2>6, <2>7, <2>8 DEF Whole
<1> QED BY <1>6, <1>7

\* Every response stays whole, whatever the loop does.
LEMMA LoopWhole ==
  ASSUME TunnelsAssumption, Typed, Typed', DispatchLoop, NEW b \in Attempts, Whole(b)
  PROVE  Whole(b)'
<1>l. /\ loop \in Loop /\ NoOne \notin Attempts
      /\ loop.at # "idle" => loop.of \in Attempts
      /\ loop.at \in {"evicting", "notifying"} => loop.victim \in Attempts
  BY DEF Typed, TypeOK, LoopOK, Names, TunnelsAssumption
<1>i. ASSUME loop' = IdleLoop PROVE ~Opening(b)'
  BY <1>i, <1>l DEF Opening, IdleLoop
<1>q. ASSUME UNCHANGED <<client, server, wire, bridge, inq, outq>>
      PROVE  UpSame(b) /\ DownLess(b) /\ PipeSame(b)
  <2>1. UNCHANGED Upward /\ UNCHANGED Downward
    BY <1>q, PathsKept DEF wire
  <2> QED BY <1>q, <2>1 DEF UpSame, DownLess, PipeSame, client, server, wire
<1>1. ASSUME NEW a \in Attempts, TakeOpen(a) PROVE Whole(b)'
  BY <1>1, OpenTaken
<1>2. ASSUME NEW a \in Attempts, NEW f, LoopTakes(f), UNCHANGED loop \/ loop'.at = "closing",
             \/ pump' = [pump EXCEPT ![a].box = Append(@, "data")] \/ UNCHANGED pump
      PROVE  Whole(b)'
  <2>1. UNCHANGED <<client, server, wire, answered>> /\ loop.at = "idle"
    BY <1>2 DEF LoopTakes
  <2>2. Shrunk(Downward, f, Downward') /\ UNCHANGED Upward
    BY <1>2, Takes
  <2>3. UpSame(b) /\ DownLess(b) /\ PipeSame(b)
    BY <2>1, <2>2, DownLesses DEF UpSame, PipeSame, client, server, wire
  <2>4. PumpSame(b)
    BY <1>2, <2>1, BoxOnly
  <2>5. ~Opening(b)'
    BY <1>2, <2>1 DEF Opening
  <2> QED BY <2>3, <2>4, <2>5, Stays
<1>3. ASSUME NEW a \in Attempts, TakeData(a) \/ TakeClose(a) PROVE Whole(b)'
  <2>1. PICK f : /\ LoopTakes(f)
                 /\ UNCHANGED loop \/ loop' = [IdleLoop EXCEPT !.at = "closing", !.of = a]
                 /\ \/ pump' = [pump EXCEPT ![a].box = Append(@, "data")]
                    \/ UNCHANGED pump
    BY <1>3 DEF TakeData, TakeClose
  <2>2. UNCHANGED loop \/ loop'.at = "closing"
    BY <2>1 DEF IdleLoop
  <2> QED BY <1>2, <2>1, <2>2
<1>4. CASE PostClose \/ PostEviction
  <2>1. PICK a \in Attempts : PostTo(a)
    BY <1>4, <1>l DEF PostClose, PostEviction
  <2>2. /\ UNCHANGED <<client, server, wire, bridge, inq, outq, answered>>
        /\ \/ loop' = IdleLoop
           \/ loop.at = "evicting" /\ loop' = [loop EXCEPT !.at = "notifying"]
    BY <1>4 DEF PostClose, PostEviction
  <2>3. PumpSame(b)
    BY <2>1, <2>2, BoxOnly DEF PostTo
  <2>4. Opening(b)' => Opening(b)
    BY <1>i, <1>l, <2>2 DEF Opening, Loop
  <2> QED BY <1>q, <2>2, <2>3, <2>4, Stays
<1>5. CASE Refuse \/ BelowCap \/ DialFails \/ Evict
  <2>1. /\ UNCHANGED <<client, server, wire, bridge, inq, outq, pump, answered>>
        /\ loop.at \in {"opening", "dialling"}
        /\ \/ \E at \in {"refusing", "dialling"} : loop' = [loop EXCEPT !.at = at]
           \/ loop' = [loop EXCEPT !.at = "evicting", !.victim = Head(order)]
    BY <1>5 DEF Refuse, BelowCap, DialFails, Evict, LoopGoes
  <2>2. PumpSame(b)
    BY <2>1 DEF PumpSame
  <2>3. loop'.of = loop.of
    BY <1>l, <2>1 DEF Loop
  <2>4. Opening(b)' => Opening(b)
    BY <2>1, <2>3 DEF Opening
  <2> QED BY <1>q, <2>1, <2>2, <2>4, Stays
<1>6. CASE NotifyEviction \/ SendRefusal
  <2>1. PICK a \in Attempts : SendUp(Close(a, "error"))
    BY <1>6, <1>l DEF NotifyEviction, SendRefusal
  <2>2. /\ UNCHANGED <<pump, answered>>
        /\ \/ loop' = IdleLoop
           \/ loop.at = "notifying" /\ loop' = [loop EXCEPT !.at = "dialling", !.victim = NoOne]
    BY <1>6 DEF NotifyEviction, SendRefusal
  <2>3. UNCHANGED <<client, server, wire>>
    BY <2>1 DEF SendUp
  <2> DEFINE x == Close(a, "error")
  <2>4. Grown(Upward, x, Upward') /\ UNCHANGED Downward
    BY <2>1, Closes, Sends
  <2>5. ~IsData(x, b) /\ ~EndsClean(x, b)
    BY DEF IsData, EndsClean, Close
  <2> HIDE DEF x
  <2>6. UpSame(b)
    BY <2>4, <2>5, UpSames
  <2>7. DownLess(b) /\ PipeSame(b) /\ PumpSame(b)
    BY <2>2, <2>3, <2>4 DEF DownLess, PipeSame, PumpSame, client, server, wire
  <2>8. Opening(b)' => Opening(b)
    BY <1>i, <1>l, <2>2 DEF Opening, Loop
  <2> QED BY <2>6, <2>7, <2>8, Stays
<1>7. CASE DialWorks
  BY <1>7, Dialled
<1> QED BY <1>1, <1>3, <1>4, <1>5, <1>6, <1>7 DEF DispatchLoop


-----------------------------------------------------------------------------
(* ResponseIsIntact: the pumps.                                             *)

\* The tasks of b go on: a reader that is done stays so, a clean end follows
\* one that is, and no more chunks are expected than were.
PumpGoes(b) ==
  /\ {pump[b].reader, pump[b].writer, pump'[b].reader, pump'[b].writer}
       \cap {"none"} = {}
  /\ pump[b].reader = "done" => pump'[b].reader = "done" /\ answered'[b] = answered[b]
  /\ pump'[b].writer \in {"reporting", "telling"} /\ pump'[b].why = "clean"
       => pump'[b].reader = "done"
  /\ High(b) <= High(b)' /\ Low(b)' <= Low(b)

\* A step of the pump of a.
TaskStep(a) == Tasks(a) \/ DestinationSends(a) \/ DestinationEnds(a) \/ Written(a)
               \/ WriteFails(a)

\* A writer that finishes: it ends cleanly only after a reader that is done.
LEMMA FinishGoes ==
  ASSUME TunnelsAssumption, Typed, NEW a \in Attempts, Whole(a), NEW why \in Reason, NEW box,
         Finish(a, why, box), pump[a].writer \in {"select", "writing"},
         why = "clean" => pump[a].reader = "done", UNCHANGED answered
  PROVE  PumpGoes(a) /\ \A b \in Attempts : b # a => PumpSame(b)
<1>1. PICK r \in {"done", "late", "stopped"} :
        /\ r = "done" <=> pump[a].reader = "done"
        /\ r = "late" => pump[a].reader = "holding"
        /\ pump' = [pump EXCEPT ![a].writer = "reporting", ![a].reader = r,
                                ![a].why = why, ![a].box = box]
  BY DEF Finish
<1> DEFINE q == [pump[a] EXCEPT !.writer = "reporting", !.reader = r,
                                !.why = why, !.box = box]
<1>2. pump' = [pump EXCEPT ![a] = q] /\ pump \in [Attempts -> Pump]
  BY <1>1 DEF Typed, TypeOK, PumpOK
<1>3. q.writer = "reporting" /\ q.reader = r /\ q.why = why
  BY <1>2 DEF Pump
<1> HIDE DEF q
<1>4. pump'[a] = q /\ \A b \in Attempts : b # a => PumpSame(b)
  BY <1>2 DEF PumpSame
<1>5. pump[a].writer # "none" /\ pump[a].reader # "none"
  BY DEF Whole, OpensOnce
<1>6. High(a) <= High(a)' /\ Low(a)' <= Low(a)
  BY <1>1, <1>3, <1>4, Responses DEF High, Low
<1> QED BY <1>1, <1>3, <1>4, <1>5, <1>6 DEF PumpGoes

\* The step changes these fields of the pump of a, and no others.
LEMMA TaskGoes ==
  ASSUME TunnelsAssumption, Typed, NEW a \in Attempts, Whole(a), TaskStep(a),
         ~Publish(a)
  PROVE  PumpGoes(a) /\ \A b \in Attempts : b # a => PumpSame(b)
<1> DEFINE p == pump[a]
<1>p. /\ p \in Pump /\ pump \in [Attempts -> Pump] /\ answered \in [Attempts -> Chunks]
      /\ p.box \in Seq({"data", "close"})
      /\ p.reader = "none" <=> p.writer = "none"
      /\ p.writer \in {"reporting", "telling"} /\ p.why = "clean" => p.reader = "done"
  BY DEF Typed, TypeOK, PumpOK, AnsweredOK, Pump, Whole, OpensOnce, CleanIsLast
<1>n. answered[a] \in Nat
  BY Responses
<1>1. CASE DestinationSends(a)
  <2> DEFINE q == [p EXCEPT !.reader = "holding"]
  <2>1. /\ p.reader = "reading" /\ pump' = [pump EXCEPT ![a] = q]
        /\ answered' = [answered EXCEPT ![a] = @ + 1]
    BY <1>1 DEF DestinationSends
  <2>2. q.reader = "holding" /\ q.writer = p.writer /\ q.why = p.why
    BY <1>p DEF Pump
  <2> HIDE DEF q
  <2>3. pump'[a] = q /\ answered'[a] = answered[a] + 1
    BY <1>p, <2>1
  <2>4. High(a) <= High(a)' /\ Low(a)' <= Low(a)
    BY <1>n, <2>1, <2>2, <2>3 DEF High, Low
  <2> QED BY <1>p, <2>1, <2>2, <2>3, <2>4 DEF PumpGoes, PumpSame
<1>2. CASE DestinationEnds(a)
  <2> DEFINE q == [p EXCEPT !.reader = "done"]
  <2>1. /\ p.reader = "reading" /\ pump' = [pump EXCEPT ![a] = q] /\ UNCHANGED answered
    BY <1>2 DEF DestinationEnds
  <2>2. q.reader = "done" /\ q.writer = p.writer /\ q.why = p.why
    BY <1>p DEF Pump
  <2> HIDE DEF q
  <2>3. High(a) <= High(a)' /\ Low(a)' <= Low(a)
    BY <1>n, <1>p, <2>1, <2>2 DEF High, Low
  <2> QED BY <1>p, <2>1, <2>2, <2>3 DEF PumpGoes, PumpSame
<1>3. CASE Stop(a)
  <2> DEFINE q == [p EXCEPT !.reader = "stopped"]
  <2>1. /\ p.reader = "late" /\ pump' = [pump EXCEPT ![a] = q] /\ UNCHANGED answered
    BY <1>3 DEF Stop
  <2>2. q.reader = "stopped" /\ q.writer = p.writer /\ q.why = p.why
    BY <1>p DEF Pump
  <2> HIDE DEF q
  <2>3. High(a) <= High(a)' /\ Low(a)' <= Low(a)
    BY <1>n, <1>p, <2>1, <2>2 DEF High, Low
  <2> QED BY <1>p, <2>1, <2>2, <2>3 DEF PumpGoes, PumpSame
<1>4. ASSUME NEW w \in {"writing", "select", "telling", "leaving", "gone"}, NEW box,
             p.writer # "none", w = "telling" => p.writer = "reporting",
             pump' = [pump EXCEPT ![a].writer = w, ![a].box = box], UNCHANGED answered
      PROVE  PumpGoes(a) /\ \A b \in Attempts : b # a => PumpSame(b)
  <2> DEFINE q == [p EXCEPT !.writer = w, !.box = box]
  <2>1. pump' = [pump EXCEPT ![a] = q]
    BY <1>4
  <2>2. q.reader = p.reader /\ q.writer = w /\ q.why = p.why
    BY <1>p DEF Pump
  <2> HIDE DEF q
  <2>3. High(a) <= High(a)' /\ Low(a)' <= Low(a)
    BY <1>4, <1>n, <1>p, <2>1, <2>2 DEF High, Low
  <2> QED BY <1>4, <1>p, <2>1, <2>2, <2>3 DEF PumpGoes, PumpSame
<1>5. ASSUME NEW w, pump' = [pump EXCEPT ![a].writer = w]
      PROVE  pump' = [pump EXCEPT ![a].writer = w, ![a].box = p.box]
  <2>1. [p EXCEPT !.writer = w] = [p EXCEPT !.writer = w, !.box = p.box]
    BY <1>p DEF Pump
  <2> QED BY <1>5, <2>1
<1>6. CASE Written(a) \/ Report(a) \/ Tell(a) \/ Leave(a)
  <2>1. PICK w \in {"select", "telling", "leaving", "gone"} :
          /\ p.writer # "none" /\ (w = "telling" => p.writer = "reporting")
          /\ pump' = [pump EXCEPT ![a].writer = w] /\ UNCHANGED answered
    BY <1>6 DEF Written, Report, Tell, Leave
  <2> QED BY <1>4, <1>5, <2>1
<1>7. CASE TakeEntry(a)
  <2>1. CASE Head(p.box) = "data"
    <3>1. pump' = [pump EXCEPT ![a].writer = "writing", ![a].box = Tail(p.box)]
          /\ p.writer = "select" /\ UNCHANGED answered
      BY <1>7, <2>1 DEF TakeEntry
    <3> QED BY <1>4, <3>1
  <2>2. CASE Head(p.box) # "data"
    BY <1>7, <2>2, FinishGoes DEF TakeEntry, Reason
  <2> QED BY <2>1, <2>2
<1>8. CASE WriteFails(a) \/ SeeEnd(a)
  BY <1>8, FinishGoes DEF WriteFails, SeeEnd, Reason
<1> QED BY <1>1, <1>2, <1>3, <1>6, <1>7, <1>8 DEF TaskStep, Tasks

\* The tasks go on, and no chunk of b is sent.
LEMMA Goes ==
  ASSUME TunnelsAssumption, Typed, Typed', NEW b \in Attempts, Whole(b), PumpGoes(b),
         PipeSame(b), UNCHANGED Downward, Opening(b)' <=> Opening(b), CleanIsLast(b)',
         \A f : IsData(f, b) => (Contains(Upward', f) <=> Contains(Upward, f)),
         \A f, g : IsData(f, b) /\ IsData(g, b) /\ Before(Upward', f, g)
           => Before(Upward, f, g)
  PROVE  Whole(b)'
<1>1. pump[b].reader # "none" /\ pump'[b].reader # "none" /\ pump'[b].writer # "none"
  BY DEF PumpGoes
<1>2. OpensOnce(b)' /\ Fresh(b)'
  BY <1>1 DEF Whole, OpensOnce, Fresh, PipeSame, Unsent
<1>3. Unconnected(b)'
  BY DEF Whole, Unconnected, PipeSame
<1>4. InOrder(b)'
  <2> SUFFICES ASSUME Accepting(b)' PROVE InOrder(b)'
    BY DEF InOrder
  <2>1. Accepting(b) /\ got'[b] = got[b]
    BY DEF Accepting, PipeSame, Up, Sink
  <2>2. \A m : IsData(Data(b, m), b)
    BY DEF Data, IsData
  <2>3. /\ Len(got[b]) \in Int /\ High(b) \in Int /\ Low(b) \in Int
        /\ High(b)' \in Int /\ Low(b)' \in Int
    BY Responses, ResponsesNext DEF Numbers
  <2>4. /\ Len(got[b]) <= High(b)'
        /\ Len(got[b]) + 1 .. High(b) \subseteq Len(got[b]) + 1 .. High(b)'
        /\ Len(got[b]) + 1 .. Low(b)' \subseteq Len(got[b]) + 1 .. Low(b)
    BY <2>1, <2>3 DEF Whole, InOrder, PumpGoes
  <2> QED BY <2>1, <2>2, <2>4 DEF Whole, InOrder
<1>5. Delivered(b)'
  BY DEF Whole, Delivered, PumpGoes, PipeSame, Up
<1> QED BY <1>2, <1>3, <1>4, <1>5 DEF Whole

\* The reader sends the chunk it holds.
LEMMA Published ==
  ASSUME TunnelsAssumption, Typed, Typed', NEW b \in Attempts, Whole(b), Publish(b)
  PROVE  Whole(b)'
<1> DEFINE p == pump[b]
           f == Data(b, answered[b])
           r == IF p.reader = "late" THEN "stopped" ELSE "reading"
           q == [p EXCEPT !.reader = r]
<1>1. /\ p.reader \in {"holding", "late"} /\ SendUp(f) /\ pump' = [pump EXCEPT ![b] = q]
      /\ UNCHANGED <<loop, order, answered>>
  BY DEF Publish
<1>2. q.reader = r /\ q.writer = p.writer /\ q.why = p.why /\ pump \in [Attempts -> Pump]
  BY DEF Typed, TypeOK, PumpOK, Pump
<1> HIDE DEF q
<1>3. pump'[b].reader = r /\ pump'[b].writer = p.writer /\ pump'[b].why = p.why
  BY <1>1, <1>2
<1>4. answered[b] \in Chunks /\ answered[b] \in Nat /\ Len(got[b]) \in Nat
  BY Responses DEF Typed, TypeOK, AnsweredOK
<1>5. Grown(Upward, f, Upward') /\ UNCHANGED Downward
  <2>1. f \in Frame
    BY <1>4, Frames DEF Reason
  <2> QED BY <1>1, <2>1, Sends
<1>6. PipeSame(b) /\ (Opening(b)' <=> Opening(b)) /\ answered' = answered
  BY <1>1 DEF SendUp, PipeSame, client, server, wire, Opening
<1>7. IsData(f, b) /\ ~EndsClean(f, b) /\ f.chunk = answered[b]
  BY DEF IsData, EndsClean, Data
<1>8. \A m : Data(b, m) = f \/ m # answered[b]
  OBVIOUS
<1> HIDE DEF f
<1>9. /\ \A y : Contains(Upward', y) <=> Contains(Upward, y) \/ y = f
      /\ \A y, z : Before(Upward', y, z)
           => Before(Upward, y, z) \/ (Contains(Upward, y) /\ z = f)
      /\ \A y, z : Before(Upward, y, z) => Contains(Upward, y) /\ Contains(Upward, z)
  <2>1. Upward \in Seq(Frame) /\ Upward' \in Seq(Frame)
    BY PathsNow, PathsNext DEF Carried
  <2> QED BY <1>5, <2>1, Orders
<1>w. /\ OpensOnce(b) /\ Fresh(b) /\ Unconnected(b) /\ CleanIsLast(b)
      /\ InOrder(b) /\ Delivered(b)
  BY DEF Whole
<1>10. OpensOnce(b)' /\ Fresh(b)'
  BY <1>1, <1>3, <1>5, <1>6, <1>w DEF OpensOnce, Fresh, PipeSame, Unsent
<1>11. Unconnected(b)'
  BY <1>6, <1>w DEF Unconnected, PipeSame
<1>12. CleanIsLast(b)'
  BY <1>1, <1>3, <1>7, <1>9, <1>w DEF CleanIsLast
<1>13. InOrder(b)'
  <2> SUFFICES ASSUME Accepting(b)' PROVE InOrder(b)'
    BY DEF InOrder
  <2>1. Accepting(b) /\ got'[b] = got[b]
    BY <1>6 DEF Accepting, PipeSame, Up, Sink
  <2>2. /\ High(b) = answered[b] - 1 /\ Low(b) = answered[b] - 1
        /\ High(b)' = answered[b] /\ Low(b)' \in {answered[b] - 1, answered[b]}
    BY <1>1, <1>3, <1>6 DEF High, Low
  <2>3. Len(got[b]) <= answered[b] - 1
    BY <1>w, <2>1, <2>2 DEF InOrder
  <2>4. ASSUME NEW g, Contains(Upward', g), IsData(g, b)
        PROVE  g.chunk \in Len(got[b]) + 1 .. answered[b]
    <3>1. CASE g = f
      BY <1>4, <1>7, <2>3, <3>1
    <3>2. CASE Contains(Upward, g)
      <4>1. g.chunk \in Len(got[b]) + 1 .. answered[b] - 1
        BY <1>w, <2>1, <2>2, <2>4, <3>2 DEF InOrder
      <4> QED BY <1>4, <4>1
    <3> QED BY <1>9, <2>4, <3>1, <3>2
  <2>5. ASSUME NEW g, NEW h, Before(Upward', g, h), IsData(g, b), IsData(h, b)
        PROVE  g.chunk < h.chunk
    <3>1. CASE Before(Upward, g, h)
      BY <1>w, <2>1, <2>5, <3>1 DEF InOrder
    <3>2. CASE Contains(Upward, g) /\ h = f
      <4>1. g.chunk \in Len(got[b]) + 1 .. answered[b] - 1
        BY <1>w, <2>1, <2>2, <2>5, <3>2 DEF InOrder
      <4> QED BY <1>4, <1>7, <3>2, <4>1
    <3> QED BY <1>9, <2>5, <3>1, <3>2
  <2>6. ASSUME NEW m \in Len(got[b]) + 1 .. Low(b)'
        PROVE  Contains(Upward', Data(b, m))
    <3>1. m \in Len(got[b]) + 1 .. answered[b] - 1 \/ m = answered[b]
      BY <1>4, <2>2
    <3>2. CASE m \in Len(got[b]) + 1 .. answered[b] - 1
      <4>1. Contains(Upward, Data(b, m))
        BY <1>w, <2>1, <2>2, <3>2 DEF InOrder
      <4> QED BY <1>9, <4>1
    <3>3. CASE m = answered[b]
      BY <1>8, <1>9, <3>3
    <3> QED BY <3>1, <3>2, <3>3
  <2>7. Len(got[b]) <= answered[b]
    BY <1>4, <2>3
  <2> QED BY <2>1, <2>2, <2>4, <2>5, <2>6, <2>7 DEF InOrder
<1>14. Delivered(b)'
  BY <1>1, <1>6, <1>w DEF Delivered, PipeSame, Up
<1> QED BY <1>10, <1>11, <1>12, <1>13, <1>14 DEF Whole

\* Every response stays whole, whatever a pump does.
LEMMA PumpWhole ==
  ASSUME TunnelsAssumption, Typed, Typed', NEW a \in Attempts, TaskStep(a),
         \A b \in Attempts : Whole(b), NEW b \in Attempts
  PROVE  Whole(b)'
<1>1. UNCHANGED <<client, server, wire, bridge, inq, loop>>
  BY DEF TaskStep, Tasks, Publish, Stop, TakeEntry, SeeEnd, Report, Tell, Leave,
     DestinationSends, DestinationEnds, Written, WriteFails, PumpOnly, SendUp
<1>2. PipeSame(b) /\ (Opening(b)' <=> Opening(b))
  BY <1>1 DEF PipeSame, client, server, wire, Opening
<1>3. /\ Whole(a) /\ Whole(b)
  OBVIOUS
<1>4. UNCHANGED Downward
  BY <1>1, PathsKept DEF wire
<1>5. DownLess(b)
  BY <1>4 DEF DownLess
<1>6. CASE Publish(a)
  <2>1. CASE b = a
    BY <1>3, <1>6, <2>1, Published
  <2>2. CASE b # a
    <3> DEFINE f == Data(a, answered[a])
    <3>1. SendUp(f) /\ UNCHANGED answered
          /\ pump' = [pump EXCEPT ![a].reader = IF @ = "late" THEN "stopped" ELSE "reading"]
      BY <1>6 DEF Publish
    <3>2. PumpSame(b)
      BY <2>2, <3>1 DEF PumpSame, Typed, TypeOK, PumpOK
    <3>3. f \in Frame
      BY Frames DEF Typed, TypeOK, AnsweredOK, Reason
    <3>4. Grown(Upward, f, Upward')
      BY <3>1, <3>3, Sends
    <3>5. ~IsData(f, b) /\ ~EndsClean(f, b)
      BY <2>2 DEF IsData, EndsClean, Data
    <3> HIDE DEF f
    <3>6. UpSame(b)
      BY <3>4, <3>5, UpSames
    <3> QED BY <1>2, <1>3, <1>5, <3>2, <3>6, Stays
  <2> QED BY <2>1, <2>2
<1>7. CASE ~Publish(a)
  <2>1. PumpGoes(a) /\ (b # a => PumpSame(b))
    BY <1>3, <1>7, TaskGoes
  <2>2. PICK x : /\ UNCHANGED Upward \/ Grown(Upward, x, Upward')
                 /\ x.kind \notin {"data", "open"}
                 /\ x.kind = "close" => /\ x.of = a /\ x.why = pump[a].why
                                       /\ pump[a].writer = "telling"
    <3>1. CASE Report(a)
      <4>1. SendUp(Update(a))
        BY <3>1 DEF Report
      <4>2. Update(a) \in Frame
        BY Frames DEF Reason, Chunks, TunnelsAssumption
      <4>3. Grown(Upward, Update(a), Upward') /\ Update(a).kind = "update"
        BY <4>1, <4>2, Sends DEF Update
      <4> QED BY <4>3
    <3>2. CASE Tell(a)
      <4> DEFINE x == Close(a, pump[a].why)
      <4>1. SendUp(x) /\ pump[a].writer = "telling"
        BY <3>2 DEF Tell
      <4>2. pump[a].why \in {"clean", "error"}
        BY DEF Typed, TypeOK, PumpOK, Pump, Reason
      <4>3. x \in Frame
        BY <4>2, Closes
      <4>4. Grown(Upward, x, Upward')
        BY <4>1, <4>3, Sends
      <4>5. x.kind = "close" /\ x.of = a /\ x.why = pump[a].why
        BY DEF Close
      <4> HIDE DEF x
      <4> QED BY <4>1, <4>4, <4>5
    <3>3. CASE ~Report(a) /\ ~Tell(a)
      <4>1. UNCHANGED outq
        BY <1>7, <3>3 DEF TaskStep, Tasks, Stop, TakeEntry, SeeEnd, Leave,
           DestinationSends, DestinationEnds, Written, WriteFails, PumpOnly
      <4>2. UNCHANGED Upward
        BY <1>1, <4>1, PathsKept DEF wire
      <4>3. Update(a).kind = "update"
        BY DEF Update
      <4> QED BY <4>2, <4>3
    <3> QED BY <3>1, <3>2, <3>3
  <2>3. ~IsData(x, b) /\ (b # a => ~EndsClean(x, b))
    BY <2>2 DEF IsData, EndsClean
  <2>4. CASE b # a
    <3>1. UpSame(b)
      BY <2>2, <2>3, <2>4, UpSames
    <3> QED BY <1>2, <1>3, <1>5, <2>1, <2>4, <3>1, Stays
  <2>5. CASE b = a
    <3>1. Upward \in Seq(Frame) /\ Upward' \in Seq(Frame)
      BY PathsNow, PathsNext DEF Carried
    <3>2. /\ \A y : Contains(Upward', y) => Contains(Upward, y) \/ y = x
          /\ \A y : Contains(Upward, y) => Contains(Upward', y)
          /\ \A y, z : Before(Upward', y, z)
               => Before(Upward, y, z) \/ (Contains(Upward, y) /\ z = x)
      BY <2>2, <3>1, Orders
    <3>3. EndsClean(x, b) => pump[b].reader = "done" \/ ~Grown(Upward, x, Upward')
      BY <1>3, <2>2, <2>5 DEF Whole, CleanIsLast, EndsClean
    <3>4. CleanIsLast(b)'
      <4>1. CASE UNCHANGED Upward
        BY <1>3, <2>1, <2>5, <4>1 DEF Whole, CleanIsLast, PumpGoes
      <4>2. CASE Grown(Upward, x, Upward')
        BY <1>3, <2>1, <2>3, <2>5, <3>2, <3>3, <4>2 DEF Whole, CleanIsLast, PumpGoes
      <4> QED BY <2>2, <4>1, <4>2
    <3> QED BY <1>2, <1>3, <1>4, <2>1, <2>3, <2>5, <3>2, <3>4, Goes
  <2> QED BY <2>4, <2>5
<1> QED BY <1>6, <1>7


-----------------------------------------------------------------------------
(* ResponseIsIntact: the breaks, and the whole.                             *)

\* After a break no connection is on the stream that is up, and a part of the
\* frames is left.
LEMMA BreaksWhole ==
  ASSUME TunnelsAssumption, Typed, Typed', Break \/ Crash \/ Reconnect,
         NEW b \in Attempts, Whole(b)
  PROVE  Whole(b)'
<1>1. /\ UNCHANGED <<client, server, answered>> /\ stream' \in {0, streams + 1}
      /\ streams' \in {streams, streams + 1} /\ streams \in Nat
  BY DEF Break, Crash, Reconnect, daemon, Typed, TypeOK, WireOK, TunnelsAssumption
<1>2. /\ \A y : Contains(Upward', y) => Contains(Upward, y)
      /\ \A y, z : Before(Upward', y, z) => Before(Upward, y, z)
      /\ DownLess(b)
  <2>1. Upward \in Seq(Frame) /\ Upward' \in Seq(Frame)
    BY PathsNow, PathsNext DEF Carried
  <2>2. CASE Break \/ Crash
    <3>1. Window(Upward, Upward') /\ Window(Downward, Downward')
      BY <2>2, Losses
    <3>2. DownLess(b)
      BY <3>1, DownLesses
    <3> QED BY <2>1, <3>1, <3>2, Orders
  <2>3. CASE Reconnect
    <3>1. UNCHANGED Upward /\ UNCHANGED Downward
      BY <2>3, PathsKept DEF Reconnect, daemon
    <3> QED BY <3>1 DEF DownLess
  <2> QED BY <2>2, <2>3
<1>3. Opening(b)' => Opening(b)
  BY DEF Break, Crash, Reconnect, daemon, Opening, IdleLoop
<1>4. \/ PumpSame(b)
      \/ /\ pump[b].writer # "none" /\ pump'[b].writer = "gone"
         /\ pump'[b].reader = "stopped" /\ \A y : ~Contains(Upward', y)
  <2>1. CASE Break \/ Reconnect
    BY <2>1 DEF Break, Reconnect, daemon, PumpSame
  <2>2. CASE Crash
    <3>1. Upward' = <<>>
      <4>1. up' = <<>> /\ outq' = <<>> /\ Cross("up")' = <<>>
        BY <2>2 DEF Crash, Cross, Free
      <4> QED BY <4>1 DEF Upward
    <3>2. \A y : ~Contains(Upward', y)
      BY <3>1 DEF Contains
    <3>3. pump'[b] = IF pump[b].writer = "none" THEN pump[b]
                     ELSE [writer |-> "gone", reader |-> "stopped", box |-> <<>>,
                           why |-> "error"]
      BY <2>2 DEF Crash
    <3> QED BY <1>1, <3>2, <3>3 DEF PumpSame
  <2> QED BY <2>1, <2>2
<1>w. /\ OpensOnce(b) /\ Fresh(b) /\ Unconnected(b) /\ CleanIsLast(b) /\ Delivered(b)
  BY DEF Whole
<1>p. pipe'[b] = pipe[b] /\ gone'[b] = gone[b] /\ got'[b] = got[b] /\ answered'[b] = answered[b]
  BY <1>1 DEF client, server
<1>5. (pump'[b].reader = "none" <=> pump[b].reader = "none")
      /\ (pump'[b].writer = "none" <=> pump[b].writer = "none")
  BY <1>4, <1>w DEF OpensOnce, PumpSame
<1>6. OpensOnce(b)'
  BY <1>2, <1>3, <1>5, <1>p, <1>w DEF OpensOnce, DownLess, Unsent
<1>7. Fresh(b)'
  BY <1>2, <1>5, <1>p, <1>w DEF Fresh
<1>8. Unconnected(b)'
  BY <1>1, <1>p, <1>w DEF Unconnected
<1>9. CleanIsLast(b)'
  BY <1>2, <1>4, <1>w DEF CleanIsLast, PumpSame
<1>10. Up(b)' => pipe[b].conn = 0
  BY <1>1, <1>p, <1>w DEF Up, Unconnected
<1>11. InOrder(b)'
  <2>1. Sink(b)' => pipe[b].conn \in 1 .. streams
    BY <1>p DEF Sink, Typed, Conns
  <2> QED BY <1>1, <1>10, <2>1 DEF InOrder, Accepting
<1>12. Delivered(b)'
  <2>1. Up(b)' => got[b] = <<>> /\ pipe[b].ended # "clean"
    BY <1>10, <1>w DEF Unconnected
  <2> QED BY <1>p, <1>w, <2>1 DEF Delivered
<1> QED BY <1>6, <1>7, <1>8, <1>9, <1>11, <1>12 DEF Whole

\* Every attempt's response is whole.
AllWhole == \A b \in Attempts : Whole(b)

\* At first there is nothing to be given.
LEMMA InitWhole == TunnelsAssumption /\ Init => AllWhole
<1> SUFFICES ASSUME TunnelsAssumption, Init, NEW b \in Attempts PROVE Whole(b)
  BY DEF AllWhole
<1>1. /\ pipe[b] = NewPipe /\ pump[b] = NoPump /\ answered[b] = 0 /\ got[b] = <<>>
      /\ gone[b] = FALSE /\ stream = 1 /\ streams = 1 /\ ~Opening(b)
  BY DEF Init, Opening, IdleLoop
<1>2. Upward = <<>> /\ Downward = <<>>
  BY DEF Init, Upward, Downward, Cross, Free
<1>3. \A f, g : /\ ~Contains(Upward, f) /\ ~Before(Upward, f, g)
                /\ ~Contains(Downward, f) /\ ~Before(Downward, f, g)
  BY <1>2 DEF Contains, Before
<1>4. pump[b].reader = "none" /\ pump[b].writer = "none" /\ pipe[b].ended = "no"
  BY <1>1 DEF NewPipe, NoPump
<1>a. OpensOnce(b)
  BY <1>1, <1>3, <1>4 DEF OpensOnce
<1>b. Fresh(b)
  BY <1>1, <1>3, <1>4 DEF Fresh
<1>c. CleanIsLast(b)
  BY <1>3, <1>4 DEF CleanIsLast
<1>5. Unconnected(b) /\ InOrder(b) /\ Delivered(b)
  BY <1>1 DEF Unconnected, InOrder, Delivered, Accepting, Up, Sink, NewPipe
<1> QED BY <1>a, <1>b, <1>c, <1>5 DEF Whole

\* No step harms a response.
LEMMA NextWhole ==
  TunnelsAssumption /\ Typed /\ Typed' /\ AllWhole /\ [Next]_vars => AllWhole'
<1> SUFFICES ASSUME TunnelsAssumption, Typed, Typed', AllWhole, [Next]_vars,
                    NEW b \in Attempts
             PROVE  Whole(b)'
  BY DEF AllWhole
<1>1. Whole(b)
  BY DEF AllWhole
<1>2. CASE UNCHANGED vars
  <2>1. UNCHANGED Upward /\ UNCHANGED Downward
    BY <1>2, PathsKept DEF vars, wire, daemon
  <2>2. UpSame(b) /\ DownLess(b) /\ PumpSame(b) /\ PipeSame(b) /\ (Opening(b)' => Opening(b))
    BY <1>2, <2>1 DEF UpSame, DownLess, PumpSame, PipeSame, Opening, vars, client,
       server, wire, daemon
  <2> QED BY <1>1, <2>2, Stays
<1>3. ASSUME NEW a \in Attempts,
             \/ Accept(a) \/ Handler(a) \/ CustomerLeaves(a) \/ ReadChunk(a)
             \/ ReadEnd(a) \/ ReceiverCloses(a)
      PROVE  Whole(b)'
  BY <1>1, <1>3, HandlerWhole
<1>4. ASSUME NEW a \in Attempts,
             ReceiveData(a) \/ ReceiveFails(a) \/ ReceiveClose(a) \/ ReceiveDrops(a)
      PROVE  Whole(b)'
  BY <1>1, <1>4, ReceiveWhole
<1>5. ASSUME NEW a \in Attempts, TaskStep(a) PROVE Whole(b)'
  BY <1>5, PumpWhole DEF AllWhole
<1>6. CASE BridgeTakes \/ BridgePuts
  BY <1>1, <1>6, BridgeWhole
<1>7. CASE DispatchLoop
  BY <1>1, <1>7, LoopWhole
<1>8. CASE Break \/ Crash \/ Reconnect
  BY <1>1, <1>8, BreaksWhole
<1>9. CASE Next
  BY <1>3, <1>4, <1>5, <1>6, <1>7, <1>8, <1>9 DEF Next, ReceiveLoop, TaskStep
<1> QED BY <1>2, <1>9

\* On a stream that did not break a customer is given what his destination
\* sent, in order and without a gap, and all of it when the daemon closed the
\* tunnel without an error.
THEOREM ResponsesIntact == Spec => []ResponseIsIntact
<1>1. Init => Typed /\ AllWhole
  BY InitTyped, InitWhole, TunnelsAssumption
<1>2. Typed /\ AllWhole /\ [Next]_vars => (Typed /\ AllWhole)'
  BY NextTyped, NextWhole, TunnelsAssumption
<1>3. AllWhole => ResponseIsIntact
  BY DEF AllWhole, Whole, Delivered, ResponseIsIntact
<1> QED BY <1>1, <1>2, <1>3, PTL DEF Spec

-----------------------------------------------------------------------------
(* closeOnce.                                                               *)

\* Who runs it has not finished, and who has finished left a reason.
OnceIsHeld ==
  \A b \in Attempts :
    /\ pipe[b].once = "pump" <=> pipe[b].at = "closing"
    /\ pipe[b].once = "receiver" <=> receiver = b
    /\ pipe[b].once = "done" <=> pipe[b].ended # "no"

\* One pipe moves, and the receive loop with it.
LEMMA OnceMoves ==
  ASSUME TunnelsAssumption, Typed, OnceIsHeld, NEW a \in Attempts, NEW q,
         pipe' = [pipe EXCEPT ![a] = q],
         q.once = "pump" <=> q.at = "closing",
         q.once = "receiver" <=> receiver' = a,
         q.once = "done" <=> q.ended # "no",
         receiver' = receiver \/ {receiver, receiver'} \subseteq {NoOne, a}
  PROVE  OnceIsHeld'
<1>1. pipe'[a] = q /\ \A b \in Attempts : b # a => pipe'[b] = pipe[b]
  BY DEF Typed, TypeOK, ServerOK
<1>2. \A b \in Attempts : b # a => (receiver' = b <=> receiver = b)
  BY DEF TunnelsAssumption
<1> QED BY <1>1, <1>2 DEF OnceIsHeld

\* No step takes closeOnce from who runs it.
LEMMA NextHeld ==
  TunnelsAssumption /\ Typed /\ OnceIsHeld /\ [Next]_vars => OnceIsHeld'
<1> SUFFICES ASSUME TunnelsAssumption, Typed, OnceIsHeld, [Next]_vars
             PROVE  OnceIsHeld'
  OBVIOUS
<1>p. \A a \in Attempts : pipe[a] \in Pipe
  BY DEF Typed, TypeOK, ServerOK
<1>h. ASSUME NEW a \in Attempts
      PROVE  /\ pipe[a].once = "pump" <=> pipe[a].at = "closing"
             /\ pipe[a].once = "receiver" <=> receiver = a
             /\ pipe[a].once = "done" <=> pipe[a].ended # "no"
  BY DEF OnceIsHeld
<1>1. ASSUME UNCHANGED server PROVE OnceIsHeld'
  BY <1>1 DEF server, OnceIsHeld
<1>2. ASSUME NEW a \in Attempts, NEW at \in {"pumping", "over", "sending"},
             UNCHANGED receiver, pipe[a].at # "closing",
             pipe' = [pipe EXCEPT ![a].at = at]
      PROVE  OnceIsHeld'
  <2> DEFINE q == [pipe[a] EXCEPT !.at = at]
  <2>1. q.at = at /\ q.once = pipe[a].once /\ q.ended = pipe[a].ended
    BY <1>p DEF Pipe
  <2>2. pipe' = [pipe EXCEPT ![a] = q]
    BY <1>2
  <2> HIDE DEF q
  <2>3. /\ q.once = "pump" <=> q.at = "closing"
        /\ q.once = "receiver" <=> receiver' = a
        /\ q.once = "done" <=> q.ended # "no"
    BY <1>2, <1>h, <2>1
  <2> QED BY <1>2, <2>2, <2>3, OnceMoves
<1>3. ASSUME NEW a \in Attempts, Accept(a) PROVE OnceIsHeld'
  <2> DEFINE at == IF stream = 0 THEN "over" ELSE "registered"
             q == [pipe[a] EXCEPT !.at = at, !.conn = stream]
  <2>1. /\ pipe[a].at = "new" /\ UNCHANGED receiver
        /\ pipe' = [pipe EXCEPT ![a] = q]
    BY <1>3 DEF Accept
  <2>2. q.at # "closing" /\ q.once = pipe[a].once /\ q.ended = pipe[a].ended
    BY <1>p DEF Pipe
  <2> HIDE DEF q
  <2> QED BY <1>h, <2>1, <2>2, OnceMoves
<1>4. ASSUME NEW a \in Attempts,
             SendOpen(a) \/ ReadChunk(a) \/ ReadClosed(a)
             \/ (SendData(a) /\ pipe' = [pipe EXCEPT ![a].at = "pumping"])
      PROVE  OnceIsHeld'
  <2>1. PICK at \in {"pumping", "over", "sending"} :
          /\ pipe[a].at # "closing" /\ UNCHANGED receiver
          /\ pipe' = [pipe EXCEPT ![a].at = at]
    BY <1>4 DEF SendOpen, ReadChunk, ReadClosed, SendData
  <2> QED BY <1>2, <2>1
<1>5. ASSUME NEW a \in Attempts, SendData(a),
             pipe' = [pipe EXCEPT ![a].at = "over", ![a].once = "done",
                                  ![a].ended = IF @ = "no" THEN "here" ELSE @]
      PROVE  OnceIsHeld'
  <2> DEFINE e == IF pipe[a].ended = "no" THEN "here" ELSE pipe[a].ended
             q == [pipe[a] EXCEPT !.at = "over", !.once = "done", !.ended = e]
  <2>1. pipe' = [pipe EXCEPT ![a] = q] /\ UNCHANGED receiver
    BY <1>5 DEF SendData
  <2>2. q.at = "over" /\ q.once = "done" /\ q.ended # "no"
    BY <1>p DEF Pipe
  <2>3. receiver # a
    <3>1. \/ pipe[a].once \in {"free", "done"}
          \/ pipe' = [pipe EXCEPT ![a] = [pipe[a] EXCEPT !.at = "pumping"]]
      BY <1>5 DEF SendData
    <3>2. [pipe[a] EXCEPT !.at = "pumping"].at = "pumping"
      BY <1>p DEF Pipe
    <3>3. pipe \in [Attempts -> Pipe] /\ q.at = "over"
      BY <2>2 DEF Typed, TypeOK, ServerOK
    <3> HIDE DEF q
    <3>4. pipe'[a].at = "over"
      BY <2>1, <3>3
    <3>5. pipe' # [pipe EXCEPT ![a] = [pipe[a] EXCEPT !.at = "pumping"]]
      BY <3>2, <3>3, <3>4
    <3> QED BY <1>h, <3>1, <3>5
  <2> HIDE DEF q
  <2> QED BY <2>1, <2>2, <2>3, OnceMoves
<1>6. ASSUME NEW a \in Attempts, ReadGone(a) \/ ReadEnd(a) PROVE OnceIsHeld'
  <2> DEFINE q == [pipe[a] EXCEPT !.at = "closing", !.once = "pump"]
  <2>1. /\ pipe[a].once = "free" /\ UNCHANGED receiver
        /\ pipe' = [pipe EXCEPT ![a] = q]
    BY <1>6 DEF ReadGone, ReadEnd, Closing
  <2>2. q.at = "closing" /\ q.once = "pump" /\ q.ended = pipe[a].ended
    BY <1>p DEF Pipe
  <2> HIDE DEF q
  <2> QED BY <1>h, <2>1, <2>2, OnceMoves
<1>7. ASSUME NEW a \in Attempts, SendClose(a) PROVE OnceIsHeld'
  <2> DEFINE q == [pipe[a] EXCEPT !.at = "over", !.once = "done", !.ended = "here"]
  <2>1. /\ pipe[a].at = "closing" /\ UNCHANGED receiver
        /\ pipe' = [pipe EXCEPT ![a] = q]
    BY <1>7 DEF SendClose
  <2>2. q.at = "over" /\ q.once = "done" /\ q.ended = "here"
    BY <1>p DEF Pipe
  <2> HIDE DEF q
  <2> QED BY <1>h, <2>1, <2>2, OnceMoves
<1>8. ASSUME NEW a \in Attempts, ReceiverCloses(a) PROVE OnceIsHeld'
  <2> DEFINE q == [pipe[a] EXCEPT !.once = "done", !.ended = "here"]
  <2>1. /\ receiver = a /\ receiver' = NoOne /\ NoOne # a
        /\ pipe' = [pipe EXCEPT ![a] = q]
    BY <1>8 DEF ReceiverCloses, Closed, TunnelsAssumption
  <2>2. q.at = pipe[a].at /\ q.once = "done" /\ q.ended = "here"
    BY <1>p DEF Pipe
  <2> HIDE DEF q
  <2> QED BY <1>h, <2>1, <2>2, OnceMoves
<1>9. ASSUME NEW a \in Attempts, ReceiveFails(a) PROVE OnceIsHeld'
  <2> DEFINE q == [pipe[a] EXCEPT !.once = "receiver"]
  <2>1. /\ pipe[a].once = "free" /\ receiver = NoOne
        /\ \/ receiver' = a /\ pipe' = [pipe EXCEPT ![a] = q]
           \/ UNCHANGED server
    BY <1>9 DEF ReceiveFails, Received
  <2>2. q.at = pipe[a].at /\ q.once = "receiver" /\ q.ended = pipe[a].ended
    BY <1>p DEF Pipe
  <2> HIDE DEF q
  <2> QED BY <1>1, <1>h, <2>1, <2>2, OnceMoves
<1>10. ASSUME NEW a \in Attempts, ReceiveClose(a) PROVE OnceIsHeld'
  <2> DEFINE q == [pipe[a] EXCEPT !.once = "done", !.ended = Head(up).why]
  <2>1. /\ pipe[a].once = "free" /\ UNCHANGED receiver /\ Received
        /\ pipe' = [pipe EXCEPT ![a] = q]
    BY <1>10 DEF ReceiveClose
  <2>2. q.at = pipe[a].at /\ q.once = "done" /\ q.ended = Head(up).why
    BY <1>p DEF Pipe
  <2>3. Head(up).why # "no"
    BY <2>1, UpTaken DEF Frame, Reason
  <2> HIDE DEF q
  <2> QED BY <1>h, <2>1, <2>2, <2>3, OnceMoves
<1>11. ASSUME NEW a \in Attempts,
              \/ CustomerLeaves(a) \/ ReceiveData(a) \/ ReceiveDrops(a)
              \/ TaskStep(a)
       PROVE  OnceIsHeld'
  BY <1>1, <1>11 DEF CustomerLeaves, ReceiveData, ReceiveDrops, TaskStep, Tasks,
     Publish, Stop, TakeEntry, SeeEnd, Report, Tell, Leave, DestinationSends,
     DestinationEnds, Written, WriteFails, PumpOnly, SendUp
<1>12. CASE BridgeTakes \/ BridgePuts \/ Break \/ Crash \/ Reconnect \/ UNCHANGED vars
  BY <1>1, <1>12 DEF BridgeTakes, BridgePuts, Break, Crash, Reconnect, vars
<1>13. CASE DispatchLoop
  BY <1>1, <1>13 DEF DispatchLoop, TakeOpen, TakeData, TakeClose, LoopTakes, PostClose,
     Refuse, BelowCap, Evict, PostEviction, NotifyEviction, DialFails, DialWorks,
     SendRefusal, SendUp, LoopGoes
<1>14. ASSUME NEW a \in Attempts, SendData(a) PROVE OnceIsHeld'
  BY <1>4, <1>5, <1>14 DEF SendData
<1>15. CASE Next
  BY <1>3, <1>4, <1>6, <1>7, <1>8, <1>9, <1>10, <1>11, <1>12, <1>13, <1>14, <1>15
  DEF Next, Handler, ReceiveLoop, TaskStep
<1> QED BY <1>12, <1>15

\* closeOnce has one runner at a time: a handler that is in it is sending its
\* close frame, the receive loop that is in it closes that pipe, and whoever
\* finds it run finds the reason of the end.
THEOREM CloseOnceHeld == Spec => []OnceIsHeld
<1>1. Init => OnceIsHeld
  BY TunnelsAssumption DEF Init, OnceIsHeld, NewPipe, TunnelsAssumption
<1>2. Typed /\ OnceIsHeld /\ [Next]_vars => OnceIsHeld'
  BY NextHeld, TunnelsAssumption
<1>3. Init => Typed
  BY InitTyped, TunnelsAssumption
<1>4. Typed /\ [Next]_vars => Typed'
  BY NextTyped, TunnelsAssumption
<1> QED BY <1>1, <1>2, <1>3, <1>4, PTL DEF Spec

-----------------------------------------------------------------------------
(* The manager's map.                                                       *)

Distinct(s) == \A i, j \in 1 .. Len(s) : s[i] = s[j] => i = j

\* What the changes of the map keep: one entry per attempt, and the others.
LEMMA MapChanges ==
  ASSUME NEW S, NEW s \in Seq(S), Distinct(s)
  PROVE  /\ s # <<>> => /\ Distinct(Tail(s))
                        /\ \A c : Contains(Tail(s), c) => Contains(s, c)
                        /\ \A c : Contains(s, c) => c = Head(s) \/ Contains(Tail(s), c)
         /\ \A x \in S : ~Contains(s, x) =>
              /\ Distinct(Append(s, x))
              /\ \A c : Contains(Append(s, x), c) <=> Contains(s, c) \/ c = x
<1>n. Len(s) \in Nat
  OBVIOUS
<1>1. ASSUME s # <<>>
      PROVE  /\ Distinct(Tail(s))
             /\ \A c : Contains(Tail(s), c) => Contains(s, c)
             /\ \A c : Contains(s, c) => c = Head(s) \/ Contains(Tail(s), c)
  <2> DEFINE t == Tail(s)
             x == Head(s)
  <2>1. t \in Seq(S) /\ Shrunk(s, x, t)
    BY <1>1, TakenOne
  <2> HIDE DEF t, x
  <2>2. \A c : Contains(s, c) <=> Contains(t, c) \/ c = x
    BY <2>1, Orders
  <2>3. Distinct(t)
    BY <2>1 DEF Shrunk, Distinct
  <2> QED BY <2>2, <2>3 DEF t, x
<1>2. ASSUME NEW x \in S, ~Contains(s, x)
      PROVE  /\ Distinct(Append(s, x))
             /\ \A c : Contains(Append(s, x), c) <=> Contains(s, c) \/ c = x
  <2> DEFINE t == Append(s, x)
  <2>1. t \in Seq(S) /\ Grown(s, x, t)
    BY Windows
  <2> HIDE DEF t
  <2>2. \A c : Contains(t, c) <=> Contains(s, c) \/ c = x
    BY <2>1, Orders
  <2>3. Distinct(t)
    <3>1. \A i \in 1 .. Len(s) : s[i] # x
      BY <1>2 DEF Contains
    <3> QED BY <1>n, <2>1, <3>1 DEF Grown, Distinct
  <2> QED BY <2>2, <2>3 DEF t
<1> QED BY <1>1, <1>2

\* The map without an attempt has all others.
LEMMA WithoutOne ==
  ASSUME OrderOK, Distinct(order), NEW a
  PROVE  /\ Distinct(Without(a)) /\ \A c : Contains(Without(a), c) => Contains(order, c)
         /\ \A c : Contains(order, c) => c = a \/ Contains(Without(a), c)
<1>1. CASE Contains(order, a)
  <2> DEFINE i == CHOOSE j \in 1 .. Len(order) : order[j] = a
  <2>1. i \in 1 .. Len(order) /\ order[i] = a
    BY <1>1 DEF Contains
  <2>7. Without(a) = RemoveAt(order, i)
    BY <1>1 DEF Without, i
  <2> HIDE DEF i
  <2>2. order \in Seq(Attempts) /\ Len(order) \in Nat
    BY DEF OrderOK
  <2> DEFINE w == RemoveAt(order, i)
  <2>3. /\ Len(w) = Len(order) - 1
        /\ \A k \in 1 .. Len(w) : w[k] = IF k < i THEN order[k] ELSE order[k + 1]
    <3> DEFINE l == SubSeq(order, 1, i - 1)
               r == SubSeq(order, i + 1, Len(order))
    <3>1. l \in Seq(Attempts) /\ Len(l) = i - 1 /\ \A k \in 1 .. i - 1 : l[k] = order[k]
      BY <2>1, <2>2
    <3>2. /\ r \in Seq(Attempts) /\ Len(r) = Len(order) - i
          /\ \A k \in 1 .. Len(order) - i : r[k] = order[k + i]
      BY <2>1, <2>2
    <3>3. w = l \o r
      BY DEF RemoveAt
    <3> HIDE DEF l, r, w
    <3>4. /\ Len(l \o r) = Len(l) + Len(r)
          /\ \A k \in 1 .. Len(l) + Len(r) :
               (l \o r)[k] = IF k <= Len(l) THEN l[k] ELSE r[k - Len(l)]
      BY <3>1, <3>2, ConcatProperties, Zenon
    <3>5. Len(w) = Len(order) - 1
      BY <2>1, <2>2, <3>1, <3>2, <3>3, <3>4
    <3>6. ASSUME NEW k \in 1 .. Len(w)
          PROVE  w[k] = IF k < i THEN order[k] ELSE order[k + 1]
      <4>1. w[k] = IF k <= i - 1 THEN l[k] ELSE r[k - (i - 1)]
        BY <2>1, <2>2, <3>1, <3>2, <3>3, <3>4, <3>5
      <4>2. CASE k < i
        BY <2>1, <2>2, <3>1, <4>1, <4>2
      <4>3. CASE ~(k < i)
        <5>1. k - (i - 1) \in 1 .. Len(order) - i /\ (k - (i - 1)) + i = k + 1
          BY <2>1, <2>2, <3>5, <4>3
        <5>2. r[k - (i - 1)] = order[(k - (i - 1)) + i]
          BY <3>2, <5>1
        <5> QED BY <2>1, <4>1, <4>3, <5>1, <5>2
      <4> QED BY <4>2, <4>3
    <3> QED BY <3>5, <3>6
  <2> HIDE DEF w
  <2>4. Distinct(w)
    <3> SUFFICES ASSUME NEW j \in 1 .. Len(w), NEW k \in 1 .. Len(w), w[j] = w[k]
                 PROVE  j = k
      BY DEF Distinct
    <3> DEFINE at(n) == IF n < i THEN n ELSE n + 1
    <3>1. /\ at(j) \in 1 .. Len(order) /\ at(k) \in 1 .. Len(order)
          /\ w[j] = order[at(j)] /\ w[k] = order[at(k)]
      BY <2>1, <2>2, <2>3
    <3>2. at(j) = at(k)
      BY <3>1 DEF Distinct
    <3> QED BY <2>1, <2>2, <2>3, <3>2
  <2>5. ASSUME NEW c, Contains(w, c) PROVE Contains(order, c)
    <3>1. PICK k \in 1 .. Len(w) : w[k] = c
      BY <2>5 DEF Contains
    <3>2. k \in 1 .. Len(order) /\ k + 1 \in 1 .. Len(order)
      BY <2>2, <2>3
    <3> QED BY <2>3, <3>1, <3>2 DEF Contains
  <2>6. ASSUME NEW c, Contains(order, c), c # a PROVE Contains(w, c)
    <3>1. PICK k \in 1 .. Len(order) : order[k] = c
      BY <2>6 DEF Contains
    <3>2. k # i
      BY <2>1, <2>6, <3>1
    <3>3. CASE k < i
      <4>1. k \in 1 .. Len(w) /\ w[k] = c
        BY <2>1, <2>2, <2>3, <3>1, <3>3
      <4> QED BY <4>1 DEF Contains
    <3>4. CASE k > i
      <4>1. k - 1 \in 1 .. Len(w) /\ ~(k - 1 < i) /\ (k - 1) + 1 = k
        BY <2>1, <2>2, <2>3, <3>4
      <4>2. w[k - 1] = c
        BY <2>3, <3>1, <4>1
      <4> QED BY <4>1, <4>2 DEF Contains
    <3> QED BY <2>1, <2>2, <3>2, <3>3, <3>4
  <2> QED BY <2>4, <2>5, <2>6, <2>7 DEF w
<1>2. CASE ~Contains(order, a)
  BY <1>2 DEF Without
<1> QED BY <1>1, <1>2

\* Someone can still end the tunnel of b: it is on the map, the frame that
\* ends it is in its mailbox, or the loop is about to put it there.
Watched(b) ==
  \/ Contains(order, b) \/ Contains(pump[b].box, "close")
  \/ loop.at = "closing" /\ loop.of = b
  \/ loop.at = "evicting" /\ loop.victim = b

Running(b) == pump[b].writer \in {"select", "writing"}

OnMap == /\ Distinct(order)
         /\ \A b \in Attempts : Contains(order, b) => pump[b].writer # "none"
NoOrphans == \A b \in Attempts : Running(b) => Watched(b)
MapInv == OnMap /\ NoOrphans

\* The tunnel of b goes on, or ends, and keeps the frame that ends it.
BoxKept(b) ==
  /\ pump'[b].writer = "none" => pump[b].writer = "none"
  /\ Running(b)' => Running(b)
       /\ (Contains(pump[b].box, "close") => Contains(pump'[b].box, "close"))

\* A step after which everybody who lost his place is watched otherwise.
LEMMA MapStays ==
  ASSUME MapInv, \A b \in Attempts : BoxKept(b), Distinct(order'),
         \A b \in Attempts : Contains(order', b) => Contains(order, b),
         \A b \in Attempts : Running(b)' /\ Contains(order, b) => Watched(b)',
         \A b \in Attempts : loop.at = "closing" /\ loop.of = b /\ Running(b)' => Watched(b)',
         \A b \in Attempts : loop.at = "evicting" /\ loop.victim = b /\ Running(b)' => Watched(b)'
  PROVE  MapInv'
BY DEF MapInv, OnMap, NoOrphans, BoxKept, Watched

\* A step that leaves the map and the loop alone.
LEMMA MapSame ==
  ASSUME MapInv, \A b \in Attempts : BoxKept(b), UNCHANGED <<order, loop>>
  PROVE  MapInv'
BY DEF MapInv, OnMap, NoOrphans, BoxKept, Watched

\* An entry more in a mailbox.
LEMMA BoxGrows ==
  ASSUME Typed, NEW a \in Attempts, NEW e \in {"data", "close"},
         pump' = [pump EXCEPT ![a].box = Append(@, e)]
  PROVE  /\ \A b \in Attempts : BoxKept(b)
         /\ e = "close" => Contains(pump'[a].box, "close")
<1> DEFINE x == Append(pump[a].box, e)
           q == [pump[a] EXCEPT !.box = x]
<1>1. /\ pump \in [Attempts -> Pump] /\ pump[a] \in Pump
      /\ pump[a].box \in Seq({"data", "close"}) /\ pump' = [pump EXCEPT ![a] = q]
  BY DEF Typed, TypeOK, PumpOK, Pump
<1>2. x \in Seq({"data", "close"}) /\ Grown(pump[a].box, e, x)
  BY <1>1, Windows
<1>3. \A y : Contains(x, y) <=> Contains(pump[a].box, y) \/ y = e
  <2> HIDE DEF x
  <2> QED BY <1>1, <1>2, Orders
<1> HIDE DEF x
<1>4. q.writer = pump[a].writer /\ q.box = x
  BY <1>1 DEF Pump
<1> HIDE DEF q
<1>5. pump'[a] = q /\ \A b \in Attempts : b # a => pump'[b] = pump[b]
  BY <1>1
<1> QED BY <1>3, <1>4, <1>5 DEF BoxKept, Running

\* What a step of a pump does to its mailbox.
LEMMA TaskKeeps ==
  ASSUME Typed, NEW a \in Attempts, TaskStep(a), OpensOnce(a)
  PROVE  \A b \in Attempts : BoxKept(b)
<1> DEFINE p == pump[a]
<1>p. /\ p \in Pump /\ pump \in [Attempts -> Pump] /\ p.box \in Seq({"data", "close"})
      /\ p.reader = "none" <=> p.writer = "none"
  BY DEF Typed, TypeOK, PumpOK, Pump, OpensOnce
<1>1. ASSUME NEW q, pump' = [pump EXCEPT ![a] = q], p.writer # "none", q.writer # "none",
             q.writer \in {"select", "writing"} =>
               /\ p.writer \in {"select", "writing"}
               /\ Contains(p.box, "close") => Contains(q.box, "close")
      PROVE  \A b \in Attempts : BoxKept(b)
  BY <1>1, <1>p DEF BoxKept, Running
<1>2. ASSUME NEW r, p.reader # "none", pump' = [pump EXCEPT ![a].reader = r]
      PROVE  \A b \in Attempts : BoxKept(b)
  <2> DEFINE q == [p EXCEPT !.reader = r]
  <2>1. q.writer = p.writer /\ q.box = p.box /\ pump' = [pump EXCEPT ![a] = q]
    BY <1>2, <1>p DEF Pump
  <2> HIDE DEF q
  <2> QED BY <1>1, <1>2, <1>p, <2>1
<1>3. ASSUME NEW w \in {"select", "writing", "telling", "leaving", "gone"},
             w \in {"select", "writing"} => p.writer \in {"select", "writing"},
             p.writer # "none", pump' = [pump EXCEPT ![a].writer = w]
      PROVE  \A b \in Attempts : BoxKept(b)
  <2> DEFINE q == [p EXCEPT !.writer = w]
  <2>1. q.writer = w /\ q.box = p.box /\ pump' = [pump EXCEPT ![a] = q]
    BY <1>3, <1>p DEF Pump
  <2> HIDE DEF q
  <2> QED BY <1>1, <1>3, <2>1
<1>4. ASSUME NEW why, NEW box, Finish(a, why, box), p.writer # "none"
      PROVE  \A b \in Attempts : BoxKept(b)
  <2>1. PICK r : pump' = [pump EXCEPT ![a].writer = "reporting", ![a].reader = r,
                                      ![a].why = why, ![a].box = box]
    BY <1>4 DEF Finish
  <2> DEFINE q == [p EXCEPT !.writer = "reporting", !.reader = r, !.why = why,
                            !.box = box]
  <2>2. q.writer = "reporting" /\ pump' = [pump EXCEPT ![a] = q]
    BY <2>1, <1>p DEF Pump
  <2> HIDE DEF q
  <2> QED BY <1>1, <1>4, <2>2
<1>5. CASE Publish(a) \/ DestinationSends(a) \/ DestinationEnds(a) \/ Stop(a)
  <2>1. p.reader # "none"
        /\ \E r : pump' = [pump EXCEPT ![a].reader = r]
    BY <1>5, <1>p DEF Publish, DestinationSends, DestinationEnds, Stop
  <2> QED BY <1>2, <2>1
<1>6. CASE Written(a) \/ Report(a) \/ Tell(a) \/ Leave(a)
  <2>1. PICK w \in {"select", "telling", "leaving", "gone"} :
          /\ p.writer # "none" /\ (w = "select" => p.writer = "writing")
          /\ pump' = [pump EXCEPT ![a].writer = w]
    BY <1>6 DEF Written, Report, Tell, Leave
  <2> QED BY <1>3, <2>1
<1>7. CASE WriteFails(a) \/ SeeEnd(a)
  BY <1>4, <1>7 DEF WriteFails, SeeEnd
<1>8. CASE TakeEntry(a)
  <2>1. CASE Head(p.box) = "data"
    <3> DEFINE t == Tail(p.box)
               q == [p EXCEPT !.writer = "writing", !.box = t]
    <3>1. /\ p.writer = "select" /\ p.box # <<>>
          /\ pump' = [pump EXCEPT ![a] = q]
      BY <1>8, <2>1 DEF TakeEntry
    <3>2. t \in Seq({"data", "close"}) /\ Shrunk(p.box, "data", t)
      BY <1>p, <2>1, <3>1, TakenOne
    <3> HIDE DEF t
    <3>3. \A y : Contains(p.box, y) <=> Contains(t, y) \/ y = "data"
      BY <1>p, <3>2, Orders
    <3>4. q.writer = "writing" /\ q.box = t
      BY <1>p DEF Pump
    <3> HIDE DEF q
    <3> QED BY <1>1, <3>1, <3>3, <3>4
  <2>2. CASE Head(p.box) # "data"
    BY <1>4, <1>8, <2>2 DEF TakeEntry
  <2> QED BY <2>1, <2>2
<1> QED BY <1>5, <1>6, <1>7, <1>8 DEF TaskStep, Tasks

\* The dispatch loop.
LEMMA LoopWatches ==
  ASSUME TunnelsAssumption, Typed, MapInv, AllWhole, DispatchLoop
  PROVE  MapInv'
<1>l. /\ loop \in Loop /\ NoOne \notin Attempts /\ order \in Seq(Attempts)
      /\ loop.at # "idle" => loop.of \in Attempts
      /\ loop.at \in {"evicting", "notifying"} => loop.victim \in Attempts
      /\ pump \in [Attempts -> Pump] /\ OrderOK /\ Distinct(order)
  BY DEF Typed, TypeOK, LoopOK, Names, TunnelsAssumption, PumpOK, OrderOK, MapInv, OnMap
<1>k. UNCHANGED pump => \A b \in Attempts : BoxKept(b)
  BY DEF BoxKept, Running
<1>s. ASSUME \A b \in Attempts : BoxKept(b), UNCHANGED order,
             \A b \in Attempts : loop.at = "closing" /\ loop.of = b /\ Running(b)' => Watched(b)',
             \A b \in Attempts : loop.at = "evicting" /\ loop.victim = b /\ Running(b)' => Watched(b)'
      PROVE  MapInv'
  <2>1. \A b \in Attempts : Running(b)' /\ Contains(order, b) => Watched(b)'
    BY <1>s DEF Watched
  <2> QED BY <1>l, <1>s, <2>1, MapStays
<1>1. ASSUME NEW a \in Attempts, TakeOpen(a) PROVE MapInv'
  <2>1. loop.at = "idle" /\ UNCHANGED <<order, pump>>
    BY <1>1 DEF TakeOpen, LoopTakes
  <2> QED BY <1>k, <1>s, <2>1
<1>2. ASSUME NEW a \in Attempts, TakeData(a) PROVE MapInv'
  <2>1. /\ UNCHANGED <<order, loop>>
        /\ \/ pump' = [pump EXCEPT ![a].box = Append(@, "data")]
           \/ UNCHANGED pump
    BY <1>2 DEF TakeData
  <2>2. \A b \in Attempts : BoxKept(b)
    BY <1>k, <2>1, BoxGrows
  <2> QED BY <2>1, <2>2, MapSame
<1>3. ASSUME NEW a \in Attempts, TakeClose(a) PROVE MapInv'
  <2>1. /\ loop.at = "idle" /\ UNCHANGED pump /\ order' = Without(a)
        /\ Contains(order, a) => loop' = [IdleLoop EXCEPT !.at = "closing", !.of = a]
    BY <1>3 DEF TakeClose, LoopTakes
  <2>2. Contains(order, a) => loop'.at = "closing" /\ loop'.of = a
    BY <2>1 DEF IdleLoop
  <2>3. /\ Distinct(order') /\ \A c : Contains(order', c) => Contains(order, c)
        /\ \A c : Contains(order, c) => c = a \/ Contains(order', c)
    BY <1>l, <2>1, WithoutOne
  <2>4. \A b \in Attempts : Running(b)' /\ Contains(order, b) => Watched(b)'
    BY <2>2, <2>3 DEF Watched
  <2> QED BY <1>k, <2>1, <2>3, <2>4, MapStays
<1>4. ASSUME NEW a \in Attempts, PostTo(a), UNCHANGED order,
             loop.at = "closing" => loop.of = a,
             loop.at = "evicting" => loop.victim = a
      PROVE  MapInv'
  <2>1. CASE pump' = [pump EXCEPT ![a].box = Append(@, "close")]
    <3>1. (\A b \in Attempts : BoxKept(b)) /\ Contains(pump'[a].box, "close")
      BY <2>1, BoxGrows
    <3> QED BY <1>4, <1>s, <3>1 DEF Watched
  <2>2. CASE pump[a].writer \in {"leaving", "gone"} /\ UNCHANGED pump
    BY <1>4, <1>k, <1>s, <2>2 DEF Running
  <2> QED BY <1>4, <2>1, <2>2 DEF PostTo
<1>5. CASE PostClose
  BY <1>4, <1>5, <1>l DEF PostClose
<1>6. CASE PostEviction
  BY <1>4, <1>6, <1>l DEF PostEviction
<1>7. CASE Refuse \/ BelowCap \/ DialFails \/ NotifyEviction \/ SendRefusal
  <2>1. /\ loop.at \notin {"closing", "evicting"} /\ UNCHANGED <<order, pump>>
    BY <1>7 DEF Refuse, BelowCap, DialFails, LoopGoes, NotifyEviction, SendRefusal
  <2> QED BY <1>k, <1>s, <2>1
<1>8. CASE Evict
  <2>1. /\ loop.at = "opening" /\ UNCHANGED pump /\ order' = Tail(order)
        /\ loop' = [loop EXCEPT !.at = "evicting", !.victim = Head(order)]
        /\ Len(order) >= MaxConcurrent
    BY <1>8 DEF Evict
  <2>2. loop'.at = "evicting" /\ loop'.victim = Head(order)
    BY <1>l, <2>1 DEF Loop
  <2>e. order # <<>>
    BY <1>l, <2>1, TunnelsAssumption DEF TunnelsAssumption
  <2>3. /\ Distinct(order') /\ \A c : Contains(order', c) => Contains(order, c)
        /\ \A c : Contains(order, c) => c = Head(order) \/ Contains(order', c)
    BY <1>l, <2>1, <2>e, MapChanges
  <2>4. \A b \in Attempts : Running(b)' /\ Contains(order, b) => Watched(b)'
    BY <2>2, <2>3 DEF Watched
  <2> QED BY <1>k, <2>1, <2>3, <2>4, MapStays
<1>9. CASE DialWorks
  <2> DEFINE a == loop.of
             q == [writer |-> "select", reader |-> "reading", box |-> <<>>,
                   why |-> "clean"]
  <2>1. /\ Opening(a) /\ a \in Attempts /\ loop.at = "dialling"
        /\ order' = Append(order, a) /\ pump' = [pump EXCEPT ![a] = q]
    BY <1>9, <1>l DEF DialWorks, Opening
  <2>2. q.writer = "select"
    OBVIOUS
  <2> HIDE DEF a, q
  <2>3. pump[a].writer = "none"
    BY <2>1 DEF AllWhole, Whole, OpensOnce
  <2>4. ~Contains(order, a)
    BY <2>1, <2>3 DEF MapInv, OnMap
  <2>5. Distinct(order') /\ \A c : Contains(order', c) <=> Contains(order, c) \/ c = a
    BY <1>l, <2>1, <2>4, MapChanges
  <2>6. pump'[a].writer = "select" /\ \A b \in Attempts : b # a => pump'[b] = pump[b]
    BY <1>l, <2>1, <2>2
  <2>7. OnMap'
    BY <2>5, <2>6 DEF OnMap, MapInv
  <2>8. NoOrphans'
    BY <2>1, <2>5, <2>6 DEF NoOrphans, MapInv, Running, Watched
  <2> QED BY <2>7, <2>8 DEF MapInv
<1> QED BY <1>1, <1>2, <1>3, <1>5, <1>6, <1>7, <1>8, <1>9 DEF DispatchLoop

\* No step orphans a tunnel.
LEMMA NextMap ==
  TunnelsAssumption /\ Typed /\ AllWhole /\ MapInv /\ [Next]_vars => MapInv'
<1> SUFFICES ASSUME TunnelsAssumption, Typed, AllWhole, MapInv, [Next]_vars
             PROVE  MapInv'
  OBVIOUS
<1>l. OrderOK /\ Distinct(order)
  BY DEF Typed, TypeOK, MapInv, OnMap
<1>1. ASSUME UNCHANGED <<order, loop, pump>> PROVE MapInv'
  BY <1>1 DEF MapInv, OnMap, NoOrphans, Running, Watched
<1>2. ASSUME NEW a \in Attempts,
             \/ Accept(a) \/ Handler(a) \/ CustomerLeaves(a) \/ ReadChunk(a)
             \/ ReadEnd(a) \/ ReceiverCloses(a)
      PROVE  MapInv'
  BY <1>1, <1>2, HandlerMoves DEF daemon
<1>3. ASSUME NEW a \in Attempts,
             ReceiveData(a) \/ ReceiveFails(a) \/ ReceiveClose(a) \/ ReceiveDrops(a)
      PROVE  MapInv'
  BY <1>1, <1>3 DEF ReceiveData, ReceiveFails, ReceiveClose, ReceiveDrops, Received, daemon
<1>4. CASE BridgeTakes \/ BridgePuts \/ Break \/ Reconnect \/ UNCHANGED vars
  BY <1>1, <1>4 DEF BridgeTakes, BridgePuts, Break, Reconnect, vars, daemon
<1>5. CASE Crash
  <2>1. order' = <<>> /\ \A b \in Attempts : pump'[b] =
          IF pump[b].writer = "none" THEN pump[b] ELSE
            [writer |-> "gone", reader |-> "stopped", box |-> <<>>, why |-> "error"]
    BY <1>5 DEF Crash
  <2>2. Distinct(order') /\ \A c : ~Contains(order', c)
    BY <2>1 DEF Distinct, Contains
  <2>3. \A b \in Attempts : ~Running(b)'
    BY <2>1 DEF Running
  <2> QED BY <2>2, <2>3 DEF MapInv, OnMap, NoOrphans
<1>6. CASE DispatchLoop
  BY <1>6, LoopWatches
<1>7. ASSUME NEW a \in Attempts, TaskStep(a) PROVE MapInv'
  <2>1. \A b \in Attempts : BoxKept(b)
    BY <1>7, TaskKeeps DEF AllWhole, Whole
  <2>2. CASE Leave(a)
    <3>1. /\ UNCHANGED loop /\ order' = Without(a)
          /\ pump' = [pump EXCEPT ![a] = [pump[a] EXCEPT !.writer = "gone"]]
      BY <2>2 DEF Leave
    <3>2. /\ Distinct(order') /\ \A c : Contains(order', c) => Contains(order, c)
          /\ \A c : Contains(order, c) => c = a \/ Contains(order', c)
      BY <1>l, <3>1, WithoutOne
    <3>3. pump'[a].writer = "gone"
      BY <3>1 DEF Typed, TypeOK, PumpOK, Pump
    <3>4. /\ \A b \in Attempts : Running(b)' /\ Contains(order, b) => Watched(b)'
          /\ \A b \in Attempts : loop.at = "closing" /\ loop.of = b => Watched(b)'
          /\ \A b \in Attempts : loop.at = "evicting" /\ loop.victim = b => Watched(b)'
      BY <3>1, <3>2, <3>3 DEF Watched, Running
    <3> QED BY <2>1, <3>2, <3>4, MapStays
  <2>3. CASE ~Leave(a)
    <3>1. UNCHANGED <<order, loop>>
      BY <1>7, <2>3 DEF TaskStep, Tasks, Publish, Stop, TakeEntry, SeeEnd, Report, Tell,
         DestinationSends, DestinationEnds, Written, WriteFails, PumpOnly
    <3> QED BY <2>1, <3>1, MapSame
  <2> QED BY <2>2, <2>3
<1>8. CASE Next
  BY <1>2, <1>3, <1>4, <1>5, <1>6, <1>7, <1>8 DEF Next, ReceiveLoop, TaskStep
<1> QED BY <1>4, <1>8

\* The map has an attempt once, and a tunnel that runs is never out of reach:
\* it is on the map, or the frame that ends it is in its mailbox, or the loop
\* is about to put it there.
THEOREM TunnelsWatched == Spec => [](Distinct(order) /\ NoOrphans)
<1>1. Init => Typed /\ AllWhole /\ MapInv
  <2>1. Init => MapInv
    BY DEF Init, MapInv, OnMap, NoOrphans, Distinct, Contains, Running, NoPump
  <2> QED BY <2>1, InitTyped, InitWhole, TunnelsAssumption
<1>2. Typed /\ AllWhole /\ MapInv /\ [Next]_vars => (Typed /\ AllWhole /\ MapInv)'
  BY NextTyped, NextWhole, NextMap, TunnelsAssumption
<1>3. MapInv => Distinct(order) /\ NoOrphans
  BY DEF MapInv, OnMap
<1> QED BY <1>1, <1>2, <1>3, PTL DEF Spec
=============================================================================
