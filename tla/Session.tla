------------------------------ MODULE Session -------------------------------
(***************************************************************************)
(* One connection of a client to the daemon: client.go, protocol.go, and   *)
(* the connection's side of server.go and pool.go.  The client writes a    *)
(* JSON request and, with a terminal, frames of input; the daemon answers  *)
(* with frames of output and an exit frame, or with a JSON reply.  A frame *)
(* is two writes, its header and its payload, and the socket keeps their   *)
(* order.  Output bytes are numbered chunks.  Either end may die.          *)
(***************************************************************************)
EXTENDS Naturals, Sequences, SequencesExt

CONSTANTS
    MaxOut,     \* chunks per output stream, and stats samples
    MaxIn,      \* frames per input goroutine of the client
    SockCap     \* writes the socket buffers before the writer blocks

ASSUME SessionAssumption ==
    MaxOut \in Nat \ {0} /\ MaxIn \in Nat \ {0} /\ SockCap \in Nat \ {0}

Requests == {"batch", "tty", "stats", "control"}
Outputs == {"stdout", "stderr"}
Writers == {"main", "winch", "stdin"}
Codes == {0, 1, 3, 124}
Frame(t, k) == [type |-> t, n |-> k]
Frames == [type : Outputs \cup Writers \cup {"stats", "exit", "reply", "request", "garbled"},
           n : 0..(MaxOut + MaxIn)]
Piece(part, f) == [part |-> part, of |-> f]
Pieces == [part : {"head", "body", "json", "torn"}, of : Frames]
NoFrame == Frame("garbled", 0)
NoResult == [code |-> 0, timedOut |-> FALSE, error |-> FALSE]

VARIABLES
    kind,       \* what is requested
    up, down,   \* the socket, to the daemon and to the client
    cpc,        \* the client: "send", "resize", "read", "done" or "gone"
    wpc, wcnt,  \* its input writers: between header and payload; frames begun
    cwant,      \* the header it has read, NoFrame when it reads one next
    got,        \* the frames it has read
    status,     \* the exit status of the command line, and where it is from
    dpc,        \* the daemon's handler
    big,        \* the payload to write exceeds what the worker's stdin pipe buffers
    proc, code, \* the worker's process and its exit code
    emitted,    \* chunks it wrote to each stream
    pipe,       \* those nobody has read
    shut,       \* the read ends are closed
    waited,     \* cmd.Wait has returned
    ctxDone,    \* the job's context is over, by deadline or Stop
    rpc, chunk, \* the output readers, and the chunk each has
    result,     \* what Execute returned, or an error
    wrote,      \* frames the daemon began to write
    fpc, fwant, \* the reader of input frames, and the header it has read
    applied,    \* input frames given to the terminal
    begun,      \* input frames the client began to write
    ahead,      \* the request's decoder took frames with it
    mixed       \* two input frames were written into each other

client == <<cpc, wpc, wcnt, cwant, got, status, begun, mixed>>
program == <<big, proc, code, emitted>>
streams == <<pipe, shut, waited, rpc, chunk>>
input == <<fpc, fwant, applied, ahead>>
vars == <<kind, up, down, client, dpc, program, streams, ctxDone, result, wrote, input>>

TypeOK ==
    /\ kind \in Requests
    /\ up \in Seq(Pieces) /\ down \in Seq(Pieces)
    /\ cpc \in {"send", "resize", "read", "done", "gone"}
    /\ wpc \in [Writers -> {"head", "body"}] /\ wcnt \in [Writers -> 0..MaxIn]
    /\ cwant \in Frames /\ got \in Seq(Frames)
    /\ status \in [code : Codes, from : {"none", "exit", "eof", "error", "reply"}]
    /\ dpc \in {"decode", "acquire", "write", "select", "streams", "stats", "statsBody",
                "reply", "exit", "exitBody", "close", "closed", "reset", "crashed"}
    /\ big \in BOOLEAN
    /\ proc \in {"none", "alive", "killed", "exited"} /\ code \in Codes
    /\ emitted \in [Outputs -> 0..MaxOut]
    /\ pipe \in [Outputs -> Seq(1..MaxOut)]
    /\ shut \in BOOLEAN /\ waited \in BOOLEAN /\ ctxDone \in BOOLEAN
    /\ rpc \in [Outputs -> {"read", "head", "body", "done"}]
    /\ chunk \in [Outputs -> 0..MaxOut]
    /\ result \in [code : Codes, timedOut : BOOLEAN, error : BOOLEAN]
    /\ wrote \in Seq(Frames)
    /\ fpc \in {"off", "on", "lost"} /\ fwant \in Frames
    /\ applied \in Seq(Frames) /\ begun \in Seq(Frames)
    /\ ahead \in BOOLEAN /\ mixed \in BOOLEAN

Init ==
    /\ kind \in Requests
    /\ up = <<>> /\ down = <<>>
    /\ cpc = "send"
    /\ wpc = [w \in Writers |-> "head"] /\ wcnt = [w \in Writers |-> 0]
    /\ cwant = NoFrame /\ got = <<>>
    /\ status = [code |-> 0, from |-> "none"]
    /\ dpc = "decode"
    /\ big \in IF kind = "batch" THEN BOOLEAN ELSE {FALSE}
    /\ proc = "none" /\ code = 0 /\ emitted = [s \in Outputs |-> 0]
    /\ pipe = [s \in Outputs |-> <<>>] /\ shut = FALSE /\ waited = FALSE
    /\ ctxDone = FALSE
    /\ rpc = [s \in Outputs |-> "done"] /\ chunk = [s \in Outputs |-> 0]
    /\ result = NoResult /\ wrote = <<>>
    /\ fpc = "off" /\ fwant = NoFrame /\ applied = <<>> /\ begun = <<>>
    /\ ahead = FALSE /\ mixed = FALSE

ClientOpen == cpc \in {"send", "resize", "read"}
DaemonOpen == dpc \notin {"closed", "reset", "crashed"}

\* A write of the daemon: it waits for room; to a closed client it fails, which
\* every caller ignores.
Write(p) ==
    /\ ClientOpen => Len(down) < SockCap
    /\ down' = IF ClientOpen THEN Append(down, p) ELSE down

-----------------------------------------------------------------------------
(* The client.                                                             *)

\* The request, in one write.  With a terminal its size follows.
SendRequest ==
    /\ cpc = "send" /\ DaemonOpen
    /\ up' = <<Piece("json", Frame("request", 0))>>
    /\ cpc' \in IF kind = "tty" THEN {"resize", "read"} ELSE {"read"}
    /\ UNCHANGED <<kind, down, wpc, wcnt, cwant, got, status, begun, mixed, dpc,
                   program, streams, ctxDone, result, wrote, input>>

\* Run, StreamStats or a control method returns, and the command line exits.
Return(c, from) ==
    /\ status' = [code |-> c, from |-> from]
    /\ cpc' = "done"

\* The daemon is gone before the request is written.
SendError ==
    /\ cpc = "send" /\ ~DaemonOpen
    /\ Return(1, "error")
    /\ UNCHANGED <<kind, up, down, wpc, wcnt, cwant, got, begun, mixed, dpc, program,
                   streams, ctxDone, result, wrote, input>>

\* WriteFrame's header: the first resize, then the SIGWINCH and the stdin
\* goroutine, which do not wait for each other.
InputHead(w) ==
    /\ IF w = "main" THEN cpc = "resize" ELSE cpc = "read" /\ wcnt["main"] = 1
    /\ wpc[w] = "head" /\ wcnt[w] < (IF w = "main" THEN 1 ELSE MaxIn)
    /\ DaemonOpen /\ Len(up) < SockCap
    /\ LET f == Frame(w, wcnt[w] + 1) IN
        /\ up' = Append(up, Piece("head", f))
        /\ begun' = Append(begun, f)
    /\ wcnt' = [wcnt EXCEPT ![w] = @ + 1]
    /\ wpc' = [wpc EXCEPT ![w] = "body"]
    /\ mixed' = (mixed \/ \E v \in Writers \ {w} : wpc[v] = "body")
    /\ UNCHANGED <<kind, down, cpc, cwant, got, status, dpc, program, streams, ctxDone,
                   result, wrote, input>>

\* Its payload.
InputBody(w) ==
    /\ wpc[w] = "body" /\ ClientOpen
    /\ DaemonOpen /\ Len(up) < SockCap
    /\ up' = Append(up, Piece("body", Frame(w, wcnt[w])))
    /\ wpc' = [wpc EXCEPT ![w] = "head"]
    /\ cpc' = IF w = "main" THEN "read" ELSE cpc
    /\ UNCHANGED <<kind, down, wcnt, cwant, got, status, begun, mixed, dpc, program,
                   streams, ctxDone, result, wrote, input>>

\* The first resize cannot be written any more, which is ignored.
ResizeError ==
    /\ cpc = "resize" /\ ~DaemonOpen
    /\ cpc' = "read"
    /\ UNCHANGED <<kind, up, down, wpc, wcnt, cwant, got, status, begun, mixed, dpc,
                   program, streams, ctxDone, result, wrote, input>>

\* ReadFrame's header.
ReadHead ==
    /\ cpc = "read" /\ cwant = NoFrame
    /\ down # <<>> /\ Head(down).part \in {"head", "body"}
    /\ cwant' = Head(down).of
    /\ down' = Tail(down)
    /\ UNCHANGED <<kind, up, cpc, wpc, wcnt, got, status, begun, mixed, dpc, program,
                   streams, ctxDone, result, wrote, input>>

\* Its payload: output is printed, an exit frame ends the loop.  Two pieces that
\* do not belong together are a frame nobody wrote.
ReadBody ==
    /\ cpc = "read" /\ cwant # NoFrame
    /\ down # <<>> /\ Head(down).part # "torn"
    /\ LET whole == Head(down) = Piece("body", cwant) IN
        /\ got' = Append(got, IF whole THEN cwant ELSE NoFrame)
        /\ IF cwant.type = "exit"
           THEN Return(IF result.error THEN 1 ELSE result.code, "exit")
           ELSE UNCHANGED <<status, cpc>>
    /\ cwant' = NoFrame
    /\ down' = Tail(down)
    /\ UNCHANGED <<kind, up, wpc, wcnt, begun, mixed, dpc, program, streams, ctxDone,
                   result, wrote, input>>

\* The JSON reply to a control request, a success or an error.
ReadReply ==
    /\ cpc = "read" /\ down # <<>> /\ Head(down).part = "json"
    /\ Return(result.code, "reply")
    /\ got' = Append(got, Head(down).of)
    /\ down' = Tail(down)
    /\ UNCHANGED <<kind, up, wpc, wcnt, cwant, begun, mixed, dpc, program, streams,
                   ctxDone, result, wrote, input>>

\* The end of the stream, before a header or before a payload, both of which
\* ReadFull reports as EOF.  Run then reports exit code 0, StreamStats no error,
\* and a control method that it found no reply.
ReadEOF ==
    /\ cpc = "read" /\ down = <<>> /\ dpc \in {"closed", "crashed"}
    /\ IF kind = "control" THEN Return(1, "error") ELSE Return(0, "eof")
    /\ UNCHANGED <<kind, up, down, wpc, wcnt, cwant, got, begun, mixed, dpc, program,
                   streams, ctxDone, result, wrote, input>>

\* Half a header or payload and then the end, or a connection reset, which is
\* what closing a socket with unread input does.
ReadError ==
    /\ cpc = "read"
    /\ \/ down # <<>> /\ Head(down).part = "torn"
       \/ down = <<>> /\ dpc = "reset"
    /\ Return(1, "error")
    /\ UNCHANGED <<kind, up, down, wpc, wcnt, cwant, got, begun, mixed, dpc, program,
                   streams, ctxDone, result, wrote, input>>

\* The client is killed, and what it has not read is lost.
Vanish ==
    /\ ClientOpen
    /\ cpc' = "gone"
    /\ down' = <<>> /\ cwant' = NoFrame
    /\ UNCHANGED <<kind, up, wpc, wcnt, got, status, begun, mixed, dpc,
                   program, streams, ctxDone, result, wrote, input>>

-----------------------------------------------------------------------------
(* The daemon's handler.                                                   *)

\* json.Decoder reads what the socket has, the frames behind the request too;
\* nobody looks at its buffer again.
Decode ==
    /\ dpc = "decode" /\ up # <<>>
    /\ \E n \in 1..Len(up) :
        /\ up' = SubSeq(up, n + 1, Len(up))
        /\ ahead' = (n > 1)
    /\ dpc' = IF kind \in {"batch", "tty"} THEN "acquire"
              ELSE IF kind = "stats" THEN "stats" ELSE "reply"
    /\ UNCHANGED <<kind, down, client, program, streams, ctxDone, result, wrote,
                   fpc, fwant, applied>>

\* The client left before it asked.
DecodeEOF ==
    /\ dpc = "decode" /\ up = <<>> /\ ~ClientOpen
    /\ dpc' = "close"
    /\ UNCHANGED <<kind, up, down, client, program, streams, ctxDone, result, wrote, input>>

\* It left with half of its request written: an exit frame nobody reads.
DecodeError ==
    /\ dpc = "decode" /\ up = <<>> /\ ~ClientOpen
    /\ result' = [NoResult EXCEPT !.code = 1, !.error = TRUE]
    /\ dpc' = "exit"
    /\ UNCHANGED <<kind, up, down, client, program, streams, ctxDone, wrote, input>>

\* A worker is acquired, and thawed.  ExecutePTY starts its goroutines at once,
\* ExecuteStream writes the payload first.
Execute ==
    /\ dpc = "acquire"
    /\ proc' = "alive"
    /\ rpc' = [s \in Outputs |-> IF s = "stdout" /\ kind = "tty" THEN "read" ELSE "done"]
    /\ fpc' = IF kind = "tty" THEN "on" ELSE "off"
    /\ dpc' = IF kind = "tty" THEN "select" ELSE "write"
    /\ UNCHANGED <<kind, up, down, client, big, code, emitted, pipe, shut, waited, chunk,
                   ctxDone, result, wrote, fwant, applied, ahead>>

\* io.WriteString returns once the pipe has taken the script, for a big one as far
\* as the process reads it; then the readers and cmd.Wait start.
PayloadWritten ==
    /\ dpc = "write" /\ proc # "exited"
    /\ rpc' = [s \in Outputs |-> "read"]
    /\ big' = FALSE
    /\ dpc' = "select"
    /\ UNCHANGED <<kind, up, down, client, proc, code, emitted, pipe, shut, waited, chunk,
                   ctxDone, result, wrote, input>>

\* The process is gone before it read the script: Kill, and an error.
PayloadError ==
    /\ dpc = "write" /\ proc = "exited"
    /\ result' = [NoResult EXCEPT !.code = 1, !.error = TRUE]
    /\ dpc' = "exit"
    /\ UNCHANGED <<kind, up, down, client, program, streams, ctxDone, wrote, input>>

\* No worker, no network, or a worker that cannot be thawed.
Reject ==
    /\ dpc = "acquire"
    /\ result' = [NoResult EXCEPT !.code = 1, !.error = TRUE]
    /\ dpc' = "exit"
    /\ UNCHANGED <<kind, up, down, client, program, streams, ctxDone, wrote, input>>

\* Fault: the deadline is reported and the process left alone.
SelectDoneNoKill ==
    /\ dpc = "select" /\ ctxDone
    /\ result' = [NoResult EXCEPT !.code = 124, !.timedOut = TRUE]
    /\ shut' = (shut \/ kind = "tty")
    /\ dpc' = "streams"
    /\ UNCHANGED <<kind, up, down, client, program, pipe, waited, rpc, chunk, ctxDone,
                   wrote, input>>

\* Fault: the code of a killed process.
SelectDoneSignal ==
    /\ dpc = "select" /\ ctxDone
    /\ proc' = IF proc = "alive" THEN "killed" ELSE proc
    /\ result' = [NoResult EXCEPT !.code = 137, !.timedOut = TRUE]
    /\ shut' = (shut \/ kind = "tty")
    /\ dpc' = "streams"
    /\ UNCHANGED <<kind, up, down, client, big, code, emitted, pipe, waited, rpc, chunk,
                   ctxDone, wrote, input>>

\* select: the process is killed, and the terminal closed.
SelectDone ==
    /\ dpc = "select" /\ ctxDone
    /\ proc' = IF proc = "alive" THEN "killed" ELSE proc
    /\ result' = [NoResult EXCEPT !.code = 124, !.timedOut = TRUE]
    /\ shut' = (shut \/ kind = "tty")
    /\ dpc' = "streams"
    /\ UNCHANGED <<kind, up, down, client, big, code, emitted, pipe, waited, rpc, chunk,
                   ctxDone, wrote, input>>

\* Fault: the exit error is not looked at.
SelectWaitZero ==
    /\ dpc = "select" /\ waited
    /\ result' = NoResult
    /\ shut' = (shut \/ kind = "tty")
    /\ dpc' = "streams"
    /\ UNCHANGED <<kind, up, down, client, program, pipe, waited, rpc, chunk, ctxDone,
                   wrote, input>>

\* select: the process has ended, and the terminal is closed.
SelectWait ==
    /\ dpc = "select" /\ waited
    /\ result' = [NoResult EXCEPT !.code = code]
    /\ shut' = (shut \/ kind = "tty")
    /\ dpc' = "streams"
    /\ UNCHANGED <<kind, up, down, client, program, pipe, waited, rpc, chunk, ctxDone,
                   wrote, input>>

\* streamWG.Wait, or <-outDone.
Streams ==
    /\ dpc = "streams" /\ \A s \in Outputs : rpc[s] = "done"
    /\ dpc' = "exit"
    /\ UNCHANGED <<kind, up, down, client, program, streams, ctxDone, result, wrote, input>>

\* WriteExitFrame, which takes no lock.
ExitHead ==
    /\ dpc = "exit"
    /\ Write(Piece("head", Frame("exit", 0)))
    /\ wrote' = Append(wrote, Frame("exit", 0))
    /\ dpc' = "exitBody"
    /\ UNCHANGED <<kind, up, client, program, streams, ctxDone, result, input>>

ExitBody ==
    /\ dpc = "exitBody"
    /\ Write(Piece("body", Frame("exit", 0)))
    /\ dpc' = "close"
    /\ UNCHANGED <<kind, up, client, program, streams, ctxDone, result, wrote, input>>

\* The deferred conn.Close.
Close ==
    /\ dpc = "close"
    /\ dpc' = IF up = <<>> THEN "closed" ELSE "reset"
    /\ fpc' = "off"
    /\ UNCHANGED <<kind, up, down, client, program, streams, ctxDone, result, wrote,
                   fwant, applied, ahead>>

\* list, stop, pause, unpause: the registry's answer, and the return.
Reply ==
    /\ dpc = "reply"
    /\ \E c \in {0, 1} : result' = [NoResult EXCEPT !.code = c]
    /\ Write(Piece("json", Frame("reply", 0)))
    /\ wrote' = Append(wrote, Frame("reply", 0))
    /\ dpc' = "close"
    /\ UNCHANGED <<kind, up, client, program, streams, ctxDone, input>>

\* A tick of handleStatsStream.
StatsHead ==
    /\ dpc = "stats" /\ Len(wrote) < MaxOut
    /\ Write(Piece("head", Frame("stats", Len(wrote) + 1)))
    /\ wrote' = Append(wrote, Frame("stats", Len(wrote) + 1))
    /\ dpc' = "statsBody"
    /\ UNCHANGED <<kind, up, client, program, streams, ctxDone, result, input>>

\* A client that is gone ends the stream.
StatsBody ==
    /\ dpc = "statsBody"
    /\ Write(Piece("body", Last(wrote)))
    /\ dpc' = IF ClientOpen THEN "stats" ELSE "close"
    /\ UNCHANGED <<kind, up, client, program, streams, ctxDone, result, wrote, input>>

\* The job is over or unknown, or its counters cannot be read: an exit frame.
StatsEnd ==
    /\ dpc = "stats"
    /\ \E e \in BOOLEAN : result' = [NoResult EXCEPT !.code = IF e THEN 1 ELSE 0, !.error = e]
    /\ dpc' = "exit"
    /\ UNCHANGED <<kind, up, down, client, program, streams, ctxDone, wrote, input>>

\* The daemon shuts down: no exit frame.
StatsShutdown ==
    /\ dpc = "stats"
    /\ dpc' = "close"
    /\ UNCHANGED <<kind, up, down, client, program, streams, ctxDone, result, wrote, input>>

\* The daemon is killed, perhaps with half of a write in the socket.
Crash ==
    /\ DaemonOpen
    /\ dpc' = IF up = <<>> THEN "crashed" ELSE "reset"
    /\ \/ down' = down
       \/ /\ dpc \in {"exit", "exitBody", "stats", "statsBody", "reply"}
                \/ \E s \in Outputs : rpc[s] \in {"head", "body"}
          /\ ClientOpen
          /\ down' = Append(down, Piece("torn", NoFrame))
    /\ fpc' = "off"
    /\ UNCHANGED <<kind, up, client, program, streams, ctxDone, result, wrote,
                   fwant, applied, ahead>>

-----------------------------------------------------------------------------
(* The worker's process, and the goroutines between it and the client.     *)
(* The process a crashed daemon leaves behind is the module Daemon's.      *)

Emit(s) ==
    /\ DaemonOpen /\ proc = "alive" /\ emitted[s] < MaxOut
    /\ s = "stdout" \/ kind = "batch"
    /\ emitted' = [emitted EXCEPT ![s] = @ + 1]
    /\ pipe' = [pipe EXCEPT ![s] = Append(@, emitted[s] + 1)]
    /\ UNCHANGED <<kind, up, down, client, dpc, big, proc, code, shut, waited, rpc, chunk,
                   ctxDone, result, wrote, input>>

\* The process ends by itself or of its SIGKILL.
ProcExit ==
    /\ DaemonOpen /\ proc \in {"alive", "killed"}
    /\ proc' = "exited" /\ code' \in {0, 3}
    /\ UNCHANGED <<kind, up, down, client, dpc, big, emitted, streams, ctxDone, result,
                   wrote, input>>

\* cmd.Wait, called once the payload is written, returns; it has closed the pipes
\* it made, read or not.
Wait ==
    /\ DaemonOpen /\ dpc # "write" /\ ~result.error
    /\ proc = "exited" /\ ~waited
    /\ waited' = TRUE
    /\ shut' = (shut \/ kind = "batch")
    /\ UNCHANGED <<kind, up, down, client, dpc, program, pipe, rpc, chunk, ctxDone,
                   result, wrote, input>>

\* The deadline passes, or somebody stops the job.
CtxDone ==
    /\ ~ctxDone /\ dpc \in {"write", "select"}
    /\ ctxDone' = TRUE
    /\ UNCHANGED <<kind, up, down, client, dpc, program, streams, result, wrote, input>>

\* Fault: a reader goes on with what it finds last in its buffer.
ReadOutputSkips(s) ==
    /\ DaemonOpen /\ rpc[s] = "read" /\ ~shut /\ pipe[s] # <<>>
    /\ chunk' = [chunk EXCEPT ![s] = Last(pipe[s])]
    /\ pipe' = [pipe EXCEPT ![s] = <<>>]
    /\ rpc' = [rpc EXCEPT ![s] = "head"]
    /\ UNCHANGED <<kind, up, down, client, dpc, program, shut, waited, ctxDone, result,
                   wrote, input>>

\* A Read that returns output.
ReadOutput(s) ==
    /\ DaemonOpen /\ rpc[s] = "read" /\ ~shut /\ pipe[s] # <<>>
    /\ chunk' = [chunk EXCEPT ![s] = Head(pipe[s])]
    /\ pipe' = [pipe EXCEPT ![s] = Tail(@)]
    /\ rpc' = [rpc EXCEPT ![s] = "head"]
    /\ UNCHANGED <<kind, up, down, client, dpc, program, shut, waited, ctxDone, result,
                   wrote, input>>

\* A Read that returns an error: the end of the output, or a closed file.
ReadOutputEnd(s) ==
    /\ DaemonOpen /\ rpc[s] = "read"
    /\ shut \/ (pipe[s] = <<>> /\ proc = "exited")
    /\ rpc' = [rpc EXCEPT ![s] = "done"]
    /\ UNCHANGED <<kind, up, down, client, dpc, program, pipe, shut, waited, chunk,
                   ctxDone, result, wrote, input>>

\* Fault: nobody takes writeMu.
OutputHeadUnlocked(s) ==
    /\ DaemonOpen /\ rpc[s] = "head"
    /\ Write(Piece("head", Frame(s, chunk[s])))
    /\ wrote' = Append(wrote, Frame(s, chunk[s]))
    /\ rpc' = [rpc EXCEPT ![s] = "body"]
    /\ UNCHANGED <<kind, up, client, dpc, program, pipe, shut, waited, chunk, ctxDone,
                   result, input>>

\* OnStdout, OnStderr, OnOutput: writeMu is taken and the header written.
OutputHead(s) ==
    /\ DaemonOpen /\ rpc[s] = "head" /\ \A t \in Outputs : rpc[t] # "body"
    /\ Write(Piece("head", Frame(s, chunk[s])))
    /\ wrote' = Append(wrote, Frame(s, chunk[s]))
    /\ rpc' = [rpc EXCEPT ![s] = "body"]
    /\ UNCHANGED <<kind, up, client, dpc, program, pipe, shut, waited, chunk, ctxDone,
                   result, input>>

\* The payload is written and writeMu released.
OutputBody(s) ==
    /\ DaemonOpen /\ rpc[s] = "body"
    /\ Write(Piece("body", Frame(s, chunk[s])))
    /\ rpc' = [rpc EXCEPT ![s] = "read"]
    /\ UNCHANGED <<kind, up, client, dpc, program, pipe, shut, waited, chunk, ctxDone,
                   result, wrote, input>>

\* Fault: the payload of a resize is left in the socket.
InputFrameHeadOnly ==
    /\ fpc = "on" /\ fwant = NoFrame /\ up # <<>>
    /\ up' = Tail(up)
    /\ IF Head(up).part # "head" THEN fpc' = "lost" /\ UNCHANGED <<fwant, applied>>
       ELSE IF Head(up).of.type = "stdin"
       THEN fwant' = Head(up).of /\ UNCHANGED <<fpc, applied>>
       ELSE applied' = Append(applied, Head(up).of) /\ UNCHANGED <<fpc, fwant>>
    /\ UNCHANGED <<kind, down, client, dpc, program, streams, ctxDone, result, wrote, ahead>>

\* The goroutine that reads input frames: a header.  Bytes that are not one are
\* taken for one, and from then on nothing it reads is a frame.
InputFrameHead ==
    /\ fpc = "on" /\ fwant = NoFrame /\ up # <<>>
    /\ up' = Tail(up)
    /\ IF Head(up).part = "head"
       THEN fwant' = Head(up).of /\ fpc' = fpc
       ELSE fpc' = "lost" /\ UNCHANGED fwant
    /\ UNCHANGED <<kind, down, client, dpc, program, streams, ctxDone, result, wrote,
                   applied, ahead>>

\* A payload, for WriteInput or Resize; a closed terminal takes it no more.
InputFrameBody ==
    /\ fpc = "on" /\ fwant # NoFrame /\ up # <<>>
    /\ up' = Tail(up)
    /\ IF Head(up) = Piece("body", fwant)
       THEN applied' = (IF shut THEN applied ELSE Append(applied, fwant)) /\ fpc' = fpc
       ELSE fpc' = "lost" /\ UNCHANGED applied
    /\ fwant' = NoFrame
    /\ UNCHANGED <<kind, down, client, dpc, program, streams, ctxDone, result, wrote, ahead>>

\* The client is gone, and its reader with it.
InputFrameEnd ==
    /\ fpc = "on" /\ up = <<>> /\ ~ClientOpen
    /\ fpc' = "off"
    /\ UNCHANGED <<kind, up, down, client, dpc, program, streams, ctxDone, result, wrote,
                   fwant, applied, ahead>>

-----------------------------------------------------------------------------
Client ==
    \/ SendRequest \/ SendError \/ ResizeError
    \/ ReadHead \/ ReadBody \/ ReadReply \/ ReadEOF \/ ReadError
Handler ==
    \/ Decode \/ DecodeEOF \/ DecodeError \/ Execute \/ Reject \/ PayloadError
    \/ SelectDone \/ SelectWait \/ Streams \/ ExitHead \/ ExitBody \/ Close \/ Reply \/ StatsBody
Reader(s) == ReadOutput(s) \/ ReadOutputEnd(s) \/ OutputHead(s) \/ OutputBody(s)

\* The connection is over on both sides.
Over == ~ClientOpen /\ ~DaemonOpen /\ UNCHANGED vars

Next ==
    \/ Client \/ Vanish
    \/ \E w \in Writers : InputHead(w) \/ InputBody(w)
    \/ Handler \/ PayloadWritten \/ StatsHead \/ StatsEnd \/ StatsShutdown \/ Crash
    \/ \E s \in Outputs : Emit(s) \/ Reader(s)
    \/ ProcExit \/ Wait \/ CtxDone
    \/ InputFrameHead \/ InputFrameBody \/ InputFrameEnd
    \/ Over

Spec == Init /\ [][Next]_vars

\* Goroutines that can run do, the client prints what it reads, timers fire, a
\* killed process exits, and a payload that fits the pipe is written.  Nobody has
\* to type, read a bigger payload, write output, hang up or crash, and a job whose
\* stats are shown may go on.
Fairness ==
    /\ WF_vars(Client) /\ WF_vars(InputBody("main") \/ InputHead("main"))
    /\ WF_vars(Handler) /\ WF_vars(~big /\ PayloadWritten)
    /\ \A s \in Outputs : WF_vars(Reader(s))
    /\ WF_vars(Wait) /\ WF_vars(CtxDone)
    /\ WF_vars(proc = "killed" /\ ProcExit)

FairSpec == Spec /\ Fairness

-----------------------------------------------------------------------------
(* Properties.                                                             *)

\* The daemon's frames reach the client whole, once, in order and with the exit
\* frame last, although three goroutines write them in two pieces each.
Link == INSTANCE Wire WITH sent <- wrote
ImplementsWire == Link!Spec

\* Of each stream the client has a prefix of what the process wrote: output may
\* be cut off, never reordered, repeated or lost in the middle.
OutputIsPrefix ==
    \A s \in Outputs, i \in 1..Len(got) : got[i].type = s =>
        /\ got[i].n \in 1..emitted[s]
        /\ \A k \in 1..(i - 1) : got[k].type = s => got[k].n < got[i].n
        /\ got[i].n > 1 => \E k \in 1..(i - 1) : got[k] = Frame(s, got[i].n - 1)

\* The command line exits with the result of the job, or because somebody died:
\* a stream that ends without an exit frame is a daemon that crashed or, for
\* stats, shut down.
StatusIsResult ==
    /\ status.from = "exit" =>
        /\ status.code = IF result.error THEN 1 ELSE result.code
        /\ kind \in {"batch", "tty"} /\ ~result.error /\ ~result.timedOut => status.code = code
    /\ status.from = "eof" => dpc = "crashed" \/ kind = "stats"

\* Input is applied as it was typed, as long as the decoder of the request took
\* none of it and no two frames were written into each other.
InputInOrder == ~ahead /\ ~mixed => fpc # "lost" /\ IsPrefix(applied, begun)

\* Neither end waits for ever: a client that asked returns, except from the stats
\* of a job that goes on and from a payload that its job does not read; and once a
\* job is watched, or a stats stream over, both ends are done, also when the
\* client is gone.
SessionEnds ==
    /\ cpc = "read" ~> cpc # "read" \/ dpc = "stats" \/ (dpc = "write" /\ big)
    /\ dpc \in {"select", "exit"} ~> ~DaemonOpen /\ ~ClientOpen

\* "ExecuteStream streams batch process output in real-time": with the exit code
\* of a process that ended by itself the client has all its output.
OutputComplete ==
    kind = "batch" /\ status.from = "exit" /\ ~result.error /\ ~result.timedOut =>
        \A s \in Outputs : Len(SelectSeq(got, LAMBDA f : f.type = s)) = emitted[s]

=============================================================================
