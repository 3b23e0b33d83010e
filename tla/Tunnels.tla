------------------------------ MODULE Tunnels ------------------------------
(***************************************************************************)
(* The tunnels of one provider: a proxy customer's connection, carried as  *)
(* frames over the provider's dispatch stream.                             *)
(*                                                                         *)
(*   customer = relay (proxy-gateway) = handler (workloads-svc forwarder)  *)
(*       handler -> down -> bridge -> inq  -> dispatch loop -> mailbox     *)
(*   receiver <- up   <- bridge <- outq <- reader, writer, dispatch loop   *)
(*                                                                         *)
(* The handler of a connection (forwarder.go) registers it as the sink of  *)
(* its attempt, sends an open frame and then what it reads; the receive    *)
(* loop of the stream (handlers/dispatch.go) writes what comes back.  In   *)
(* the daemon one task, the bridge (transport/lib.rs), moves frames both   *)
(* ways, one loop (core/lib.rs) takes the frames that arrived, and each    *)
(* tunnel has a pump of two tasks (core/tunnel.rs).                        *)
(*                                                                         *)
(* A stream breaks at any time and loses the frames on it; the daemon      *)
(* connects again with its tunnels and queues as they were, while a        *)
(* handler keeps the connection it took.  Frames and chunks are finite     *)
(* and every queue is bounded: in the code inq, outq and a mailbox hold 64 *)
(* entries, the wire what HTTP/2 lets it.  Attempts are distinct: each     *)
(* submission of the proxy makes a new one.  MaxChunks, MaxAnswers and     *)
(* MaxStreams bound the model only.                                        *)
(***************************************************************************)
EXTENDS Naturals, Sequences, SequencesExt

CONSTANTS
  Attempts,       \* the attempts customers' connections name
  NoOne,          \* no attempt
  MaxConcurrent,  \* tunnels the daemon keeps
  WireBuf,        \* frames a direction of the stream holds
  QueueBuf,       \* frames inq and outq hold
  MailboxBuf,     \* entries a mailbox holds
  MaxChunks,      \* bound: MaxChunks[a] chunks from a's customer
  MaxAnswers,     \* bound: MaxAnswers[a] chunks from a's destination
  MaxStreams      \* bound: streams the daemon opens

ASSUME TunnelsAssumption ==
  /\ NoOne \notin Attempts
  /\ {MaxConcurrent, WireBuf, QueueBuf, MailboxBuf} \subseteq Nat \ {0}
  /\ MaxChunks \in [Attempts -> Nat] /\ MaxAnswers \in [Attempts -> Nat]
  /\ MaxStreams \in Nat \ {0}

VARIABLES
  gone,      \* gone[a]: the customer left
  got,       \* got[a]: the chunks the customer was given, in order
  asked,     \* asked[a]: chunks the handler read from the customer
  pipe,      \* pipe[a]: the handler of a's connection
  receiver,  \* the attempt whose pipe the receive loop is closing
  stream,    \* the stream that is up, or 0
  streams,   \* streams opened so far
  down, up,  \* frames on the stream
  bridge,    \* the frame the bridge holds, and which way it goes
  inq, outq, \* the daemon's in_tx and out_tx
  loop,      \* the dispatch loop
  order,     \* the tunnels on the manager's map, oldest first
  pump,      \* pump[a]: the tasks and the mailbox of a's tunnel
  answered   \* answered[a]: chunks read from a's destination

client == <<gone, got, asked>>
server == <<pipe, receiver>>
wire   == <<stream, streams, down, up>>
daemon == <<bridge, inq, outq, loop, order, pump, answered>>
vars   == <<client, server, wire, daemon>>

-----------------------------------------------------------------------------
(* Frames.  The update a pump sends names no workload, because the router   *)
(* keeps none for bandwidth, and is dropped on arrival.                     *)

(* The reasons the coordinator closes with reach nobody: what the daemon     *)
(* answers finds the connection closed.                                     *)

Reason == {"clean", "error"}
Chunks == UNION {(0 .. MaxChunks[a]) \cup (0 .. MaxAnswers[a]) : a \in Attempts}

Open(a)       == [kind |-> "open", of |-> a, chunk |-> 0, why |-> "clean"]
Data(a, n)    == [kind |-> "data", of |-> a, chunk |-> n, why |-> "clean"]
Close(a, why) == [kind |-> "close", of |-> a, chunk |-> 0, why |-> why]
Update(a)     == [kind |-> "update", of |-> a, chunk |-> 0, why |-> "clean"]

Frame == [kind : {"open", "data", "close", "update"}, of : Attempts,
          chunk : Chunks, why : Reason]

Pipe == [at : {"new", "registered", "pumping", "sending", "closing", "over"},
         conn : 0 .. MaxStreams,    \* the stream it took
         once : {"free", "pump", "receiver", "done"},   \* closeOnce
         ended : {"no", "here"} \cup Reason]   \* by whom; the daemon's reason

Pump == [writer : {"none", "select", "writing", "reporting", "telling",
                   "leaving", "gone"},
         reader : {"none", "reading", "holding", "late", "done", "stopped"},
         box    : Seq({"data", "close"}),
         why    : Reason]

Bridge == [to : {"inq", "up"}, frame : Frame] \cup [to : {"none"}]

Loop == [at : {"idle", "opening", "evicting", "notifying", "dialling",
               "refusing", "closing"},
         of : Attempts \cup {NoOne}, victim : Attempts \cup {NoOne}]

NewPipe  == [at |-> "new", conn |-> 0, once |-> "free", ended |-> "no"]
NoPump   == [writer |-> "none", reader |-> "none", box |-> <<>>,
             why |-> "clean"]
Free     == [to |-> "none"]
IdleLoop == [at |-> "idle", of |-> NoOne, victim |-> NoOne]

Init ==
  /\ gone = [a \in Attempts |-> FALSE]
  /\ got = [a \in Attempts |-> <<>>]
  /\ asked = [a \in Attempts |-> 0]
  /\ pipe = [a \in Attempts |-> NewPipe]
  /\ receiver = NoOne
  /\ stream = 1 /\ streams = 1
  /\ down = <<>> /\ up = <<>>
  /\ bridge = Free
  /\ inq = <<>> /\ outq = <<>>
  /\ loop = IdleLoop
  /\ order = <<>>
  /\ pump = [a \in Attempts |-> NoPump]
  /\ answered = [a \in Attempts |-> 0]

-----------------------------------------------------------------------------
(* The customer.  When he leaves, or nothing flows for the relay's idle     *)
(* timeout, the relay closes the connection both ways.                      *)

Sink(a) == pipe[a].at \notin {"new", "over"}

CustomerLeaves(a) ==
  /\ ~gone[a] /\ Sink(a)
  /\ gone' = [gone EXCEPT ![a] = TRUE]
  /\ UNCHANGED <<got, asked, server, wire, daemon>>

-----------------------------------------------------------------------------
(* handleConn, pumpInbound and closeWithReason of the handler.  A send      *)
(* waits for room on the stream and fails once the handler's stream is gone.*)

Up(a) == pipe[a].conn = stream

\* f goes down the stream the handler of its attempt took.
SendDown(f) ==
  /\ Up(f.of)
  /\ Len(down) < WireBuf
  /\ down' = Append(down, f)
  /\ UNCHANGED <<stream, streams, up>>

SendFails(a) == ~Up(a) /\ UNCHANGED wire

\* The attempt is known; the provider's connection is looked up and kept.
Accept(a) ==
  /\ pipe[a].at = "new"
  /\ pipe' = [pipe EXCEPT ![a].at = IF stream = 0 THEN "over" ELSE "registered",
                          ![a].conn = stream]
  /\ UNCHANGED <<client, receiver, wire, daemon>>

SendOpen(a) ==
  /\ pipe[a].at = "registered"
  /\ \/ /\ SendDown(Open(a))
        /\ pipe' = [pipe EXCEPT ![a].at = "pumping"]
     \/ /\ SendFails(a)
        /\ pipe' = [pipe EXCEPT ![a].at = "over"]
  /\ UNCHANGED <<client, receiver, daemon>>

ReadChunk(a) ==
  /\ pipe[a].at = "pumping" /\ pipe[a].once # "done"
  /\ ~gone[a]
  /\ asked[a] < MaxChunks[a]
  /\ asked' = [asked EXCEPT ![a] = @ + 1]
  /\ pipe' = [pipe EXCEPT ![a].at = "sending"]
  /\ UNCHANGED <<gone, got, receiver, wire, daemon>>

\* When the send fails, so does the close frame, and the handler ends.
SendData(a) ==
  /\ pipe[a].at = "sending"
  /\ \/ /\ SendDown(Data(a, asked[a]))
        /\ pipe' = [pipe EXCEPT ![a].at = "pumping"]
     \/ /\ SendFails(a) /\ pipe[a].once \in {"free", "done"}
        /\ pipe' = [pipe EXCEPT ![a].at = "over", ![a].once = "done",
                       ![a].ended = IF @ = "no" THEN "here" ELSE @]
  /\ UNCHANGED <<client, receiver, daemon>>

Closing(a) ==
  /\ pipe[a].at = "pumping" /\ pipe[a].once = "free"
  /\ pipe' = [pipe EXCEPT ![a].at = "closing", ![a].once = "pump"]
  /\ UNCHANGED <<client, receiver, wire, daemon>>

\* The customer is done sending: the relay closes its half.
ReadEnd(a) == ~gone[a] /\ Closing(a)

\* The customer is gone.
ReadGone(a) == gone[a] /\ Closing(a)

SendClose(a) ==
  /\ pipe[a].at = "closing"
  /\ SendDown(Close(a, "clean")) \/ SendFails(a)
  /\ pipe' = [pipe EXCEPT ![a].at = "over", ![a].once = "done",
                          ![a].ended = "here"]
  /\ UNCHANGED <<client, receiver, daemon>>

\* Somebody else closed the connection under the handler.
ReadClosed(a) ==
  /\ pipe[a].at = "pumping" /\ pipe[a].once = "done"
  /\ pipe' = [pipe EXCEPT ![a].at = "over"]
  /\ UNCHANGED <<client, receiver, wire, daemon>>

-----------------------------------------------------------------------------
(* The receive loop of the stream: DeliverTunnelData, DeliverTunnelClose.   *)

\* The loop receives the next frame.
Received ==
  /\ receiver = NoOne
  /\ up # <<>>
  /\ up' = Tail(up)
  /\ UNCHANGED <<stream, streams, down, asked, gone, daemon>>

ReceiveData(a) ==
  LET f == Head(up) IN
    /\ Received
    /\ f.kind = "data" /\ f.of = a
    /\ Sink(a) /\ pipe[a].once # "done"
    /\ ~gone[a]
    /\ got' = [got EXCEPT ![a] = Append(@, f.chunk)]
    /\ UNCHANGED server

\* The write to a customer who left fails sooner or later; the loop then
\* closes the pipe itself, or waits until its handler has.
ReceiveFails(a) ==
  LET f == Head(up) IN
    /\ Received
    /\ f.kind = "data" /\ f.of = a
    /\ Sink(a) /\ pipe[a].once = "free"
    /\ gone[a]
    /\ \/ /\ receiver' = a
          /\ pipe' = [pipe EXCEPT ![a].once = "receiver"]
       \/ UNCHANGED server
    /\ UNCHANGED got

Closed(a) ==
  /\ receiver' = NoOne
  /\ pipe' = [pipe EXCEPT ![a].once = "done", ![a].ended = "here"]
  /\ UNCHANGED <<client, daemon>>

\* Mutated: the close frame has to go out first.
ReceiverCloses_Insists(a) ==
  /\ receiver = a
  /\ SendDown(Close(a, "clean"))
  /\ Closed(a)

\* closeWithReason in the receive loop: no frame is received meanwhile.
ReceiverCloses(a) ==
  /\ receiver = a
  /\ SendDown(Close(a, "clean")) \/ SendFails(a)
  /\ Closed(a)

ReceiveClose(a) ==
  LET f == Head(up) IN
    /\ Received
    /\ f.kind = "close" /\ f.of = a
    /\ Sink(a) /\ pipe[a].once = "free"
    /\ pipe' = [pipe EXCEPT ![a].once = "done", ![a].ended = f.why]
    /\ UNCHANGED <<got, receiver>>

\* Updates, and frames of a connection that is closed.
ReceiveDrops(a) ==
  LET f == Head(up) IN
    /\ Received
    /\ f.of = a
    /\ f.kind = "update" \/ ~Sink(a) \/ pipe[a].once = "done"
    /\ UNCHANGED <<got, server>>

-----------------------------------------------------------------------------
(* The bridge: one task that moves one frame at a time, either way.         *)

BridgeTakes ==
  /\ stream # 0 /\ bridge = Free
  /\ \/ /\ down # <<>>
        /\ bridge' = [to |-> "inq", frame |-> Head(down)]
        /\ down' = Tail(down)
        /\ UNCHANGED outq
     \/ /\ outq # <<>>
        /\ bridge' = [to |-> "up", frame |-> Head(outq)]
        /\ outq' = Tail(outq)
        /\ UNCHANGED down
  /\ UNCHANGED <<client, server, stream, streams, up, inq, loop, order, pump,
                 answered>>

BridgePuts ==
  /\ \/ /\ bridge.to = "inq" /\ Len(inq) < QueueBuf
        /\ inq' = Append(inq, bridge.frame)
        /\ UNCHANGED up
     \/ /\ bridge.to = "up" /\ Len(up) < WireBuf
        /\ up' = Append(up, bridge.frame)
        /\ UNCHANGED inq
  /\ bridge' = Free
  /\ UNCHANGED <<client, server, stream, streams, down, outq, loop, order,
                 pump, answered>>

-----------------------------------------------------------------------------
(* The dispatch loop and the tunnel manager.                                *)

LoopTakes(f) ==
  /\ loop.at = "idle"
  /\ inq # <<>> /\ f = Head(inq)
  /\ inq' = Tail(inq)
  /\ UNCHANGED <<client, server, wire, bridge, outq, answered>>

TakeOpen(a) ==
  /\ LoopTakes(Open(a))
  /\ loop' = [IdleLoop EXCEPT !.at = "opening", !.of = a]
  /\ UNCHANGED <<order, pump>>

\* try_send: what finds no tunnel or a full mailbox is dropped.
TakeData(a) ==
  \E n \in Chunks :
    /\ LoopTakes(Data(a, n))
    /\ IF Contains(order, a) /\ Len(pump[a].box) < MailboxBuf
       THEN pump' = [pump EXCEPT ![a].box = Append(@, "data")]
       ELSE UNCHANGED pump
    /\ UNCHANGED <<loop, order>>

\* An attempt is on the map once, for its open frame is sent once.
Without(a) == IF Contains(order, a)
              THEN RemoveAt(order, CHOOSE i \in 1 .. Len(order) : order[i] = a)
              ELSE order

TakeClose(a) ==
  /\ LoopTakes(Close(a, "clean"))
  /\ loop' = IF Contains(order, a)
             THEN [IdleLoop EXCEPT !.at = "closing", !.of = a] ELSE loop
  /\ order' = Without(a)
  /\ UNCHANGED pump

\* A mailbox takes an entry when it has room, or nobody reads it any more.
PostTo(a) ==
  \/ /\ Len(pump[a].box) < MailboxBuf
     /\ pump' = [pump EXCEPT ![a].box = Append(@, "close")]
  \/ /\ pump[a].writer \in {"leaving", "gone"}
     /\ UNCHANGED pump

\* close: the loop waits until the mailbox takes it.
PostClose ==
  /\ loop.at = "closing"
  /\ PostTo(loop.of)
  /\ loop' = IdleLoop
  /\ UNCHANGED <<client, server, wire, bridge, inq, outq, order, answered>>

LoopGoes(at) ==
  /\ loop' = [loop EXCEPT !.at = at]
  /\ UNCHANGED <<client, server, wire, bridge, inq, outq, order, pump, answered>>

\* The target does not resolve, is private, or the filter blocks it.
Refuse == loop.at = "opening" /\ LoopGoes("refusing")

\* Mutated: one tunnel too many.
BelowCap_OneMore ==
  loop.at = "opening" /\ Len(order) <= MaxConcurrent /\ LoopGoes("dialling")

BelowCap ==
  loop.at = "opening" /\ Len(order) < MaxConcurrent /\ LoopGoes("dialling")

\* The map's lock is held until the coordinator has been notified.
Evict ==
  /\ loop.at = "opening" /\ Len(order) >= MaxConcurrent
  /\ loop' = [loop EXCEPT !.at = "evicting", !.victim = Head(order)]
  /\ order' = Tail(order)
  /\ UNCHANGED <<client, server, wire, bridge, inq, outq, pump, answered>>

PostEviction ==
  /\ loop.at = "evicting"
  /\ PostTo(loop.victim)
  /\ loop' = [loop EXCEPT !.at = "notifying"]
  /\ UNCHANGED <<client, server, wire, bridge, inq, outq, order, answered>>

\* f waits for room in out_tx.
SendUp(f) ==
  /\ Len(outq) < QueueBuf
  /\ outq' = Append(outq, f)
  /\ UNCHANGED <<client, server, wire, bridge, inq>>

NotifyEviction ==
  /\ loop.at = "notifying"
  /\ SendUp(Close(loop.victim, "error"))
  /\ loop' = [loop EXCEPT !.at = "dialling", !.victim = NoOne]
  /\ UNCHANGED <<order, pump, answered>>

DialFails == loop.at = "dialling" /\ LoopGoes("refusing")

DialWorks ==
  /\ loop.at = "dialling"
  /\ loop' = IdleLoop
  /\ order' = Append(order, loop.of)
  /\ pump' = [pump EXCEPT ![loop.of] =
                [writer |-> "select", reader |-> "reading", box |-> <<>>,
                 why |-> "clean"]]
  /\ UNCHANGED <<client, server, wire, bridge, inq, outq, answered>>

\* Mutated: the loop goes on and tells nobody.
SendRefusal_Silent ==
  /\ loop.at = "refusing"
  /\ loop' = IdleLoop
  /\ UNCHANGED <<client, server, wire, bridge, inq, outq, order, pump, answered>>

SendRefusal ==
  /\ loop.at = "refusing"
  /\ SendUp(Close(loop.of, "error"))
  /\ loop' = IdleLoop
  /\ UNCHANGED <<order, pump, answered>>

-----------------------------------------------------------------------------
(* pump: the reader of the destination and the writer's select loop.        *)

PumpOnly == UNCHANGED <<client, server, wire, bridge, inq, outq, loop, order>>

\* The destination sends a chunk.
DestinationSends(a) ==
  /\ pump[a].reader = "reading" /\ answered[a] < MaxAnswers[a]
  /\ answered' = [answered EXCEPT ![a] = @ + 1]
  /\ pump' = [pump EXCEPT ![a].reader = "holding"]
  /\ PumpOnly

DestinationEnds(a) ==
  /\ pump[a].reader = "reading"
  /\ pump' = [pump EXCEPT ![a].reader = "done"]
  /\ PumpOnly /\ UNCHANGED answered

\* A reader that was past its read when it was aborted still sends.
Publish(a) ==
  /\ pump[a].reader \in {"holding", "late"}
  /\ SendUp(Data(a, answered[a]))
  /\ pump' = [pump EXCEPT ![a].reader =
                IF @ = "late" THEN "stopped" ELSE "reading"]
  /\ UNCHANGED <<loop, order, answered>>

Stop(a) ==
  /\ pump[a].reader = "late"
  /\ pump' = [pump EXCEPT ![a].reader = "stopped"]
  /\ PumpOnly /\ UNCHANGED answered

\* The writer leaves its loop for this reason and aborts the reader.
Finish(a, why, box) ==
  \E r \in {"done", "late", "stopped"} :
    /\ r = "done" <=> pump[a].reader = "done"
    /\ r = "late" => pump[a].reader = "holding"
    /\ pump' = [pump EXCEPT ![a].writer = "reporting", ![a].reader = r,
                            ![a].why = why, ![a].box = box]

\* The select is biased: the mailbox first.
TakeEntry(a) ==
  /\ pump[a].writer = "select" /\ pump[a].box # <<>>
  /\ IF Head(pump[a].box) = "data"
     THEN pump' = [pump EXCEPT ![a].writer = "writing", ![a].box = Tail(@)]
     ELSE Finish(a, "error", Tail(pump[a].box))
  /\ PumpOnly /\ UNCHANGED answered

\* The destination takes the bytes, which it need not ever do.
Written(a) ==
  /\ pump[a].writer = "writing"
  /\ pump' = [pump EXCEPT ![a].writer = "select"]
  /\ PumpOnly /\ UNCHANGED answered

WriteFails(a) ==
  /\ pump[a].writer = "writing"
  /\ Finish(a, "error", pump[a].box)
  /\ PumpOnly /\ UNCHANGED answered

\* Mutated: the end of the destination is seen while chunks are unsent.
SeeEnd_Early(a) ==
  /\ pump[a].writer = "select" /\ pump[a].box = <<>>
  /\ pump[a].reader \in {"holding", "done"}
  /\ Finish(a, "clean", <<>>)
  /\ PumpOnly /\ UNCHANGED answered

\* The reader has published all there was.
SeeEnd(a) ==
  /\ pump[a].writer = "select" /\ pump[a].box = <<>>
  /\ pump[a].reader = "done"
  /\ Finish(a, "clean", <<>>)
  /\ PumpOnly /\ UNCHANGED answered

Report(a) ==
  /\ pump[a].writer = "reporting"
  /\ SendUp(Update(a))
  /\ pump' = [pump EXCEPT ![a].writer = "telling"]
  /\ UNCHANGED <<loop, order, answered>>

Tell(a) ==
  /\ pump[a].writer = "telling"
  /\ SendUp(Close(a, pump[a].why))
  /\ pump' = [pump EXCEPT ![a].writer = "leaving"]
  /\ UNCHANGED <<loop, order, answered>>

\* The map's entry goes last, under the lock.
Leave(a) ==
  /\ pump[a].writer = "leaving"
  /\ loop.at \notin {"evicting", "notifying"}
  /\ pump' = [pump EXCEPT ![a].writer = "gone"]
  /\ order' = Without(a)
  /\ UNCHANGED <<client, server, wire, bridge, inq, outq, loop, answered>>

-----------------------------------------------------------------------------
(* The stream breaks, the daemon dies, the daemon connects again.           *)

\* Frames on the wire are lost, and the one the bridge is writing to it.
Break ==
  /\ stream # 0 /\ streams < MaxStreams
  /\ stream' = 0
  /\ down' = <<>> /\ up' = <<>>
  /\ bridge' = IF bridge.to = "up" THEN Free ELSE bridge
  /\ UNCHANGED <<client, server, streams, inq, outq, loop, order, pump,
                 answered>>

Crash ==
  /\ stream # 0 /\ streams < MaxStreams
  /\ stream' = 0
  /\ down' = <<>> /\ up' = <<>>
  /\ bridge' = Free /\ inq' = <<>> /\ outq' = <<>>
  /\ loop' = IdleLoop /\ order' = <<>>
  /\ pump' = [a \in Attempts |-> IF pump[a].writer = "none" THEN pump[a] ELSE
                [writer |-> "gone", reader |-> "stopped", box |-> <<>>,
                 why |-> "error"]]
  /\ UNCHANGED <<client, server, streams, answered>>

\* The bridge notices the break when it is back at its select.
Reconnect ==
  /\ stream = 0 /\ streams < MaxStreams
  /\ bridge = Free
  /\ stream' = streams + 1 /\ streams' = streams + 1
  /\ UNCHANGED <<client, server, down, up, daemon>>

-----------------------------------------------------------------------------
Handler(a) == SendOpen(a) \/ SendData(a) \/ ReadGone(a) \/ SendClose(a)
              \/ ReadClosed(a)

ReceiveLoop == \E a \in Attempts :
  ReceiveFails(a) \/ ReceiverCloses(a) \/ ReceiveClose(a) \/ ReceiveDrops(a)

DispatchLoop ==
  \/ \E a \in Attempts : TakeOpen(a) \/ TakeData(a) \/ TakeClose(a)
  \/ PostClose \/ Refuse \/ BelowCap \/ Evict \/ PostEviction
  \/ NotifyEviction \/ DialFails \/ DialWorks \/ SendRefusal

Tasks(a) == Publish(a) \/ Stop(a) \/ TakeEntry(a) \/ SeeEnd(a) \/ Report(a)
            \/ Tell(a) \/ Leave(a)

Next ==
  \/ \E a \in Attempts :
       \/ Accept(a) \/ Handler(a) \/ CustomerLeaves(a)
       \/ ReadChunk(a) \/ ReadEnd(a) \/ ReceiveData(a)
       \/ Tasks(a) \/ DestinationSends(a) \/ DestinationEnds(a)
       \/ Written(a) \/ WriteFails(a)
  \/ ReceiveLoop \/ BridgeTakes \/ BridgePuts \/ DispatchLoop
  \/ Break \/ Crash \/ Reconnect

Spec == Init /\ [][Next]_vars

\* Goroutines and tasks that can go on do, and the daemon connects again.
\* Nothing is assumed of customers and destinations: a write to either may
\* block for good.
Fairness ==
  /\ \A a \in Attempts : WF_vars(Handler(a)) /\ WF_vars(Tasks(a))
  /\ WF_vars(ReceiveLoop) /\ WF_vars(DispatchLoop)
  /\ WF_vars(BridgeTakes) /\ WF_vars(BridgePuts) /\ WF_vars(Reconnect)

FairSpec == Spec /\ Fairness

-----------------------------------------------------------------------------
(* Properties.                                                              *)

ClientOK == /\ gone \in [Attempts -> BOOLEAN]
            /\ got \in [Attempts -> Seq(Chunks)]
            /\ asked \in [Attempts -> Chunks]
ServerOK == /\ pipe \in [Attempts -> Pipe]
            /\ receiver \in Attempts \cup {NoOne}
WireOK == /\ streams \in 1 .. MaxStreams /\ stream \in {0, streams}
          /\ down \in Seq(Frame) /\ Len(down) <= WireBuf
          /\ up \in Seq(Frame) /\ Len(up) <= WireBuf
BridgeOK == bridge \in Bridge
InqOK == inq \in Seq(Frame) /\ Len(inq) <= QueueBuf
OutqOK == outq \in Seq(Frame) /\ Len(outq) <= QueueBuf
LoopOK == loop \in Loop
OrderOK == order \in Seq(Attempts) /\ Len(order) <= MaxConcurrent
PumpOK == pump \in [Attempts -> Pump]
AnsweredOK == answered \in [Attempts -> Chunks]

\* Everything has its type, and the map and every queue keep their bounds: a
\* daemon never carries more tunnels than it advertised.
TypeOK == /\ ClientOK /\ ServerOK /\ WireOK /\ BridgeOK /\ InqOK /\ OutqOK
          /\ LoopOK /\ OrderOK /\ PumpOK /\ AnsweredOK

\* The close frame of a's tunnel is on its way to the coordinator.
CloseComing(a) ==
  \E why \in Reason :
    \/ Contains(outq, Close(a, why)) \/ Contains(up, Close(a, why))
    \/ bridge = [to |-> "up", frame |-> Close(a, why)]

\* The open frame of a is on its way to the dispatch loop, or taken.
OpenComing(a) ==
  \/ Contains(down, Open(a)) \/ Contains(inq, Open(a))
  \/ bridge = [to |-> "inq", frame |-> Open(a)]
  \/ loop.of = a /\ loop.at \in {"opening", "evicting", "notifying",
                                 "dialling", "refusing"}

\* A handler that waits for the other side, on a stream that did not break,
\* waits for something: its open frame is under way, its tunnel lives, or the
\* frame that closes it is coming.  Whatever the daemon does with an open - 
\* refuse it, fail to dial, evict it, end it - answers.
WaitIsAnswered ==
  \A a \in Attempts :
    Up(a) /\ pipe[a].at \in {"pumping", "sending"} /\ pipe[a].once = "free" =>
      \/ OpenComing(a)
      \/ pump[a].writer \in {"select", "writing", "reporting", "telling"}
      \/ CloseComing(a)

\* What a customer is given, on a stream that did not break, is what his
\* destination sent, in order and without a gap; and all of it, when the
\* daemon closed the tunnel without an error.
ResponseIsIntact ==
  \A a \in Attempts :
    Up(a) =>
      /\ \A i \in 1 .. Len(got[a]) : got[a][i] = i
      /\ pipe[a].ended = "clean" /\ ~gone[a] => Len(got[a]) = answered[a]

\* As long as frames to the daemon move, the handler of a customer who left
\* ends, whoever notices first - its own read, the receive loop's write or the
\* daemon - and whether or not its stream is still there.
HandlersEnd ==
  []<>(Len(down) < WireBuf) =>
    \A a \in Attempts : gone[a] ~> pipe[a].at = "over"

\* "a single slow upstream cannot HOL-block ALL tunnels on the dispatch loop"
\* (tunnel.rs): as long as the coordinator takes the daemon's frames, the loop
\* comes back for the next one.
LoopComesBack == []<>(up = <<>>) => []<>(loop.at = "idle")
=============================================================================
