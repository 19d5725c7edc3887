---------------------------- MODULE SessionProofs ---------------------------
(***************************************************************************)
(* Proofs about Session, for every number of chunks and frames and every   *)
(* size of the socket's buffer.                                            *)
(***************************************************************************)
EXTENDS Session, TLAPS

USE SessionAssumption

-----------------------------------------------------------------------------
(* The parts of the inductive invariant.                                   *)

\* Which request brings the handler where, and when its goroutines run.
Roles ==
    /\ dpc \in {"stats", "statsBody"} => kind = "stats"
    /\ dpc = "reply" => kind = "control"
    /\ dpc \in {"acquire", "write", "select", "streams"} => kind \in {"batch", "tty"}
    /\ dpc \in {"exit", "exitBody"} => kind # "control" \/ ~ClientOpen
    /\ dpc \notin {"select", "streams", "reset", "crashed"} =>
        \A s \in Outputs : rpc[s] = "done"
    /\ dpc \in {"decode", "acquire"} => proc = "none"
    /\ waited => proc = "exited"

\* The frame of which a goroutine has written the header and not the payload.
Pending == dpc \in {"exitBody", "statsBody"} \/ \E s \in Outputs : rpc[s] = "body"
LastIs(f) == wrote # <<>> /\ wrote[Len(wrote)] = f
Half ==
    /\ dpc = "exitBody" => LastIs(Frame("exit", 0))
    /\ dpc = "statsBody" => wrote # <<>>
    /\ \A s \in Outputs : rpc[s] = "body" => LastIs(Frame(s, chunk[s]))
    /\ \A s, t \in Outputs : rpc[s] = "body" /\ rpc[t] = "body" => s = t

\* What is in the socket, in its place: the pieces of the frames that were
\* written and not read, header before payload.
Reading == IF cwant = NoFrame THEN 0 ELSE 1
InPlace(i) ==
    \E j \in 1..Len(wrote) :
        /\ down[i].of = wrote[j]
        /\ \/ down[i].part = "head" /\ i + Reading = 2 * (j - Len(got)) - 1
           \/ down[i].part = "body" /\ i + Reading = 2 * (j - Len(got))
           \/ /\ down[i].part = "json" /\ kind = "control"
              /\ i = 1 /\ Reading = 0 /\ j = Len(got) + 1
Torn(i) == down[i].part = "torn" /\ i = Len(down) /\ dpc \in {"reset", "crashed"}
Stream ==
    /\ Len(got) <= Len(wrote)
    /\ \A i \in 1..Len(got) : got[i] = wrote[i]
    /\ \A i \in 1..Len(wrote) : wrote[i].type # "garbled"
    /\ cwant # NoFrame => Len(got) < Len(wrote) /\ cwant = wrote[Len(got) + 1]
    /\ \A i \in 1..Len(down) : InPlace(i) \/ Torn(i)
    /\ kind = "control" => \A i \in 1..Len(down) : down[i].part \in {"json", "torn"}
    /\ dpc \in {"decode", "acquire", "reply"} => wrote = <<>> /\ down = <<>>

\* As long as both ends live, nothing of it is missing.
Complete ==
    ClientOpen /\ dpc \notin {"reset", "crashed"} /\ kind # "control" =>
        Reading + Len(down) + (IF Pending THEN 1 ELSE 0) = 2 * (Len(wrote) - Len(got))

\* An exit frame is the last, and the result it carries is settled.
WroteExit == \E i \in 1..Len(wrote) : wrote[i].type = "exit"
Settled ==
    /\ WroteExit => dpc \in {"exitBody", "close", "closed", "reset", "crashed"}
    /\ /\ WroteExit \/ dpc \in {"streams", "exit", "exitBody"}
       /\ kind \in {"batch", "tty"} /\ ~result.error /\ ~result.timedOut
       => result.code = code /\ proc = "exited"
    /\ kind \in {"batch", "tty"} /\ ClientOpen /\ dpc \in {"exitBody", "close", "closed"} =>
        LastIs(Frame("exit", 0)) /\ Len(got) < Len(wrote)
    /\ status.from = "exit" => WroteExit

\* The chunks of a stream: written without a gap up to the n-th; then one with
\* the reader, the rest in the pipe.
Written(s, n) ==
    /\ \A i \in 1..Len(wrote) : wrote[i].type = s =>
        /\ wrote[i].n \in 1..n
        /\ \A k \in 1..(i - 1) : wrote[k].type = s => wrote[k].n < wrote[i].n
        /\ wrote[i].n > 1 => \E k \in 1..(i - 1) : wrote[k] = Frame(s, wrote[i].n - 1)
    /\ n > 0 => \E i \in 1..Len(wrote) : wrote[i] = Frame(s, n)
Top(s) == IF rpc[s] = "head" THEN chunk[s] - 1 ELSE chunk[s]
Piped(s) ==
    /\ rpc[s] = "head" => chunk[s] > 0
    /\ chunk[s] + Len(pipe[s]) = emitted[s]
    /\ \A i \in 1..Len(pipe[s]) : pipe[s][i] = chunk[s] + i
Chunks == \A s \in Outputs : Piped(s) /\ Written(s, Top(s))

\* Input: the pieces the client has written, those of them still in the socket,
\* and the frames given to the terminal.
HalfInput == IF \E w \in Writers : wpc[w] = "body" THEN 1 ELSE 0
Pieced == 2 * Len(begun) - HalfInput
Wanting == IF fwant = NoFrame THEN 0 ELSE 1
InputInPlace(i, k) ==
    \E j \in 1..Len(begun) :
        /\ up[i].of = begun[j]
        /\ \/ up[i].part = "head" /\ k = 2 * j - 1
           \/ up[i].part = "body" /\ k = 2 * j
Asking ==
    /\ cpc = "send" =>
        /\ up = <<>> /\ begun = <<>> /\ \A w \in Writers : wpc[w] = "head"
        /\ dpc \in {"decode", "reset", "crashed"}
    /\ dpc = "decode" => ~ahead
    /\ dpc \in {"decode", "acquire"} => fwant = NoFrame /\ applied = <<>> /\ fpc = "off"
    /\ dpc = "decode" /\ up # <<>> => up[1].part = "json"
    /\ dpc = "decode" /\ up = <<>> /\ cpc # "send" => ~ClientOpen
    /\ \A i \in 1..Len(begun) : begun[i].type # "garbled"
Typed ==
    ~mixed =>
        /\ \A w \in Writers : wpc[w] = "body" =>
            begun # <<>> /\ begun[Len(begun)] = Frame(w, wcnt[w])
        /\ \A v, w \in Writers : wpc[v] = "body" /\ wpc[w] = "body" => v = w
        /\ dpc = "decode" /\ up # <<>> =>
            /\ Len(up) = Pieced + 1
            /\ \A i \in 2..Len(up) : InputInPlace(i, i - 1)
Applied ==
    ~ahead /\ ~mixed =>
        /\ fpc # "lost"
        /\ Len(applied) <= Len(begun) /\ \A i \in 1..Len(applied) : applied[i] = begun[i]
        /\ dpc = "acquire" \/ fpc = "on" =>
            /\ ~shut => 2 * Len(applied) + Wanting = Pieced - Len(up)
            /\ \A i \in 1..Len(up) : InputInPlace(i, Pieced - Len(up) + i)
            /\ fwant # NoFrame => \E j \in 1..Len(begun) :
                fwant = begun[j] /\ Pieced - Len(up) = 2 * j - 1
            /\ fwant = NoFrame => \E j \in 0..Len(begun) : Pieced - Len(up) = 2 * j

\* The inductive invariant.
SessionInv ==
    /\ TypeOK /\ Roles /\ Half /\ Stream /\ Complete /\ Settled /\ StatusIsResult
    /\ Chunks /\ Asking /\ Typed /\ Applied

-----------------------------------------------------------------------------
(* Types.                                                                  *)

\* Frames, pieces and what is put into the socket.
LEMMA FrameTypes ==
    /\ \A s \in Outputs, n \in 0..MaxOut : Frame(s, n) \in Frames
    /\ \A w \in Writers, n \in 0..MaxIn : Frame(w, n) \in Frames
    /\ \A n \in 0..MaxOut : Frame("stats", n) \in Frames
    /\ {Frame("exit", 0), Frame("reply", 0), Frame("request", 0), NoFrame} \subseteq Frames
  BY DEF Frame, Frames, NoFrame
LEMMA PieceTypes ==
    \A p \in {"head", "body", "json", "torn"}, f \in Frames : Piece(p, f) \in Pieces
  BY DEF Piece, Pieces
LEMMA AppendType ==
    ASSUME NEW S, NEW q \in Seq(S), NEW e \in S
    PROVE  Append(q, e) \in Seq(S)
OBVIOUS
LEMMA AppendIs ==
    ASSUME NEW S, NEW q \in Seq(S), NEW e
    PROVE  /\ Len(Append(q, e)) = Len(q) + 1 /\ Append(q, e) # <<>>
           /\ Append(q, e)[Len(q) + 1] = e
           /\ \A i \in 1..Len(q) : Append(q, e)[i] = q[i]
OBVIOUS
LEMMA TailType ==
    ASSUME NEW S, NEW q \in Seq(S), q # <<>>
    PROVE  Tail(q) \in Seq(S) /\ Head(q) \in S
OBVIOUS

\* What Execute, the registry and the stats stream return.
Results == [code : Codes, timedOut : BOOLEAN, error : BOOLEAN]
LEMMA ResultTypes ==
    ASSUME NEW c \in Codes, NEW b \in BOOLEAN
    PROVE  /\ [NoResult EXCEPT !.code = c] \in Results
           /\ [NoResult EXCEPT !.code = c, !.timedOut = b] \in Results
           /\ [NoResult EXCEPT !.code = c, !.error = b] \in Results
<1>1. NoResult \in Results BY DEF NoResult, Results, Codes
<1>2. ASSUME NEW r \in Results PROVE [r EXCEPT !.code = c] \in Results BY DEF Results
<1>3. ASSUME NEW r \in Results PROVE [r EXCEPT !.timedOut = b] \in Results BY DEF Results
<1>4. ASSUME NEW r \in Results PROVE [r EXCEPT !.error = b] \in Results BY DEF Results
<1>5. [NoResult EXCEPT !.code = c] \in Results BY <1>1, <1>2
<1> QED BY <1>3, <1>4, <1>5

\* A write of the daemon puts a piece into the socket.
LEMMA WriteType ==
    ASSUME TypeOK, NEW p \in Pieces, Write(p)
    PROVE  down' \in Seq(Pieces)
  BY AppendType DEF TypeOK, Write

\* The types of one side's variables.
ClientTyped ==
    /\ up \in Seq(Pieces) /\ down \in Seq(Pieces)
    /\ cpc \in {"send", "resize", "read", "done", "gone"}
    /\ wpc \in [Writers -> {"head", "body"}] /\ wcnt \in [Writers -> 0..MaxIn]
    /\ cwant \in Frames /\ got \in Seq(Frames)
    /\ status \in [code : Codes, from : {"none", "exit", "eof", "error", "reply"}]
    /\ begun \in Seq(Frames) /\ mixed \in BOOLEAN
StreamsTyped ==
    /\ big \in BOOLEAN /\ proc \in {"none", "alive", "killed", "exited"} /\ code \in Codes
    /\ emitted \in [Outputs -> 0..MaxOut]
    /\ pipe \in [Outputs -> Seq(1..MaxOut)]
    /\ shut \in BOOLEAN /\ waited \in BOOLEAN /\ ctxDone \in BOOLEAN
    /\ rpc \in [Outputs -> {"read", "head", "body", "done"}]
    /\ chunk \in [Outputs -> 0..MaxOut]
DaemonTyped ==
    /\ dpc \in {"decode", "acquire", "write", "select", "streams", "stats", "statsBody",
                "reply", "exit", "exitBody", "close", "closed", "reset", "crashed"}
    /\ result \in Results
    /\ wrote \in Seq(Frames)
    /\ fpc \in {"off", "on", "lost"} /\ fwant \in Frames
    /\ applied \in Seq(Frames) /\ ahead \in BOOLEAN
LEMMA TypeParts ==
    TypeOK <=> kind \in Requests /\ ClientTyped /\ StreamsTyped /\ DaemonTyped
  BY DEF TypeOK, ClientTyped, StreamsTyped, DaemonTyped, Results
LEMMA TypePartsNext ==
    ASSUME kind' \in Requests, ClientTyped', StreamsTyped', DaemonTyped'
    PROVE  TypeOK'
  BY DEF TypeOK, ClientTyped, StreamsTyped, DaemonTyped, Results

\* Steps of the client.
LEMMA ClientTypes ==
    ASSUME TypeOK, \/ Client \/ Vanish \/ \E w \in Writers : InputHead(w) \/ InputBody(w)
    PROVE  TypeOK'
<1> USE DEF TypeOK, program, streams, input, Codes
<1>1. CASE SendRequest
  <2>1. up' \in Seq(Pieces) BY <1>1, FrameTypes, PieceTypes DEF SendRequest
  <2> QED BY <1>1, <2>1 DEF SendRequest
<1>2. CASE SendError BY <1>2 DEF SendError, Return
<1>3. CASE ResizeError BY <1>3 DEF ResizeError
<1>4. CASE ReadHead
  <2>1. down' \in Seq(Pieces) /\ Head(down) \in Pieces BY <1>4, TailType DEF ReadHead
  <2>2. cwant' \in Frames BY <1>4, <2>1 DEF ReadHead, Pieces
  <2>3. UNCHANGED <<kind, up, cpc, wpc, wcnt, got, status, begun, mixed, dpc, program,
                    streams, ctxDone, result, wrote, input>>
    BY <1>4 DEF ReadHead
  <2> QED BY <2>1, <2>2, <2>3
<1>5. CASE ReadBody
  <2>1. down' \in Seq(Pieces) /\ cwant' \in Frames BY <1>5, TailType, FrameTypes DEF ReadBody
  <2>2. got' \in Seq(Frames) BY <1>5, AppendType, FrameTypes DEF ReadBody
  <2>3. /\ status' \in [code : Codes, from : {"none", "exit", "eof", "error", "reply"}]
        /\ cpc' \in {"done", "read"}
    BY <1>5 DEF ReadBody, Return
  <2> QED BY <1>5, <2>1, <2>2, <2>3 DEF ReadBody
<1>6. CASE ReadReply
  <2>1. down' \in Seq(Pieces) /\ Head(down) \in Pieces BY <1>6, TailType DEF ReadReply
  <2>2. Head(down).of \in Frames BY <2>1 DEF Pieces
  <2>3. got' \in Seq(Frames) BY <1>6, <2>2, AppendType DEF ReadReply
  <2>4. UNCHANGED <<kind, up, wpc, wcnt, cwant, begun, mixed, dpc, program, streams,
                    ctxDone, result, wrote, input>>
    BY <1>6 DEF ReadReply
  <2>5. /\ status' \in [code : Codes, from : {"none", "exit", "eof", "error", "reply"}]
        /\ cpc' = "done"
    BY <1>6 DEF ReadReply, Return
  <2> QED BY <2>1, <2>3, <2>4, <2>5
<1>7. CASE ReadEOF BY <1>7 DEF ReadEOF, Return
<1>8. CASE ReadError BY <1>8 DEF ReadError, Return
<1>9. CASE Vanish BY <1>9, FrameTypes DEF Vanish
<1>10. ASSUME NEW w \in Writers, InputHead(w) PROVE TypeOK'
  <2>1. wcnt[w] + 1 \in 0..MaxIn BY <1>10 DEF InputHead
  <2>2. Frame(w, wcnt[w] + 1) \in Frames BY <2>1, FrameTypes
  <2>3. up' \in Seq(Pieces) /\ begun' \in Seq(Frames)
    BY <1>10, <2>2, PieceTypes, AppendType DEF InputHead
  <2>4. wpc' \in [Writers -> {"head", "body"}] /\ wcnt' \in [Writers -> 0..MaxIn]
    BY <1>10, <2>1 DEF InputHead
  <2>5. UNCHANGED <<kind, down, cpc, cwant, got, status, dpc, program, streams, ctxDone,
                    result, wrote, input>>
    BY <1>10 DEF InputHead
  <2>6. mixed' \in BOOLEAN BY <1>10 DEF InputHead
  <2>7. StreamsTyped' BY <2>5, TypeParts DEF StreamsTyped
  <2>8. DaemonTyped' /\ kind' \in Requests BY <2>5, TypeParts DEF DaemonTyped
  <2>9. ClientTyped' BY <2>3, <2>4, <2>5, <2>6 DEF ClientTyped
  <2> HIDE DEF TypeOK
  <2> QED BY <2>7, <2>8, <2>9, TypePartsNext
<1>11. ASSUME NEW w \in Writers, InputBody(w) PROVE TypeOK'
  <2>1. up' \in Seq(Pieces) BY <1>11, FrameTypes, PieceTypes, AppendType DEF InputBody
  <2> QED BY <1>11, <2>1 DEF InputBody
<1> QED BY <1>1, <1>2, <1>3, <1>4, <1>5, <1>6, <1>7, <1>8, <1>9, <1>10, <1>11 DEF Client

\* Steps of the daemon's handler.
LEMMA HandlerTypes ==
    ASSUME TypeOK, Half, Handler \/ PayloadWritten \/ StatsHead \/ StatsEnd \/ StatsShutdown \/ Crash
    PROVE  TypeOK'
<1> USE DEF TypeOK, client, program, streams, input, Codes
<1>1. CASE Decode
  <2>1. up' \in Seq(Pieces) BY <1>1 DEF Decode
  <2>2. ahead' \in BOOLEAN /\ dpc' \in {"acquire", "stats", "reply"} BY <1>1 DEF Decode
  <2>3. UNCHANGED <<kind, down, client, program, streams, ctxDone, result, wrote,
                    fpc, fwant, applied>>
    BY <1>1 DEF Decode
  <2> QED BY <2>1, <2>2, <2>3
<1>2. CASE DecodeEOF BY <1>2 DEF DecodeEOF
<1>3. CASE Execute BY <1>3 DEF Execute
<1>4. CASE Reject
  <2>1. result' \in Results BY <1>4, ResultTypes DEF Reject
  <2> QED BY <1>4, <2>1 DEF Reject, Results
<1>17. CASE DecodeError
  <2>1. result' \in Results BY <1>17, ResultTypes DEF DecodeError
  <2> QED BY <1>17, <2>1 DEF DecodeError, Results
<1>18. CASE PayloadError
  <2>1. result' \in Results BY <1>18, ResultTypes DEF PayloadError
  <2> QED BY <1>18, <2>1 DEF PayloadError, Results
<1>19. CASE PayloadWritten
  <2>1. rpc' \in [Outputs -> {"read", "head", "body", "done"}] BY <1>19 DEF PayloadWritten
  <2>2. big' = FALSE /\ dpc' = "select" BY <1>19 DEF PayloadWritten
  <2>3. UNCHANGED <<kind, up, down, client, proc, code, emitted, pipe, shut, waited, chunk,
                    ctxDone, result, wrote, input>>
    BY <1>19 DEF PayloadWritten
  <2>4. StreamsTyped' BY <2>1, <2>2, <2>3, TypeParts DEF StreamsTyped
  <2>5. DaemonTyped' /\ ClientTyped' /\ kind' \in Requests
    BY <2>2, <2>3, TypeParts DEF DaemonTyped, ClientTyped
  <2> HIDE DEF TypeOK
  <2> QED BY <2>4, <2>5, TypePartsNext
<1>5. CASE SelectDone
  <2>1. result' \in Results BY <1>5, ResultTypes DEF SelectDone
  <2>2. proc' \in {"none", "alive", "killed", "exited"} /\ shut' \in BOOLEAN
    BY <1>5 DEF SelectDone
  <2>3. dpc' = "streams" /\ UNCHANGED <<kind, up, down, client, big, code, emitted, pipe, waited,
                                        rpc, chunk, ctxDone, wrote, input>>
    BY <1>5 DEF SelectDone
  <2> QED BY <2>1, <2>2, <2>3 DEF Results
<1>6. CASE SelectWait
  <2>1. result' \in Results BY <1>6, ResultTypes DEF SelectWait
  <2>2. shut' \in BOOLEAN BY <1>6 DEF SelectWait
  <2>3. dpc' = "streams" /\ UNCHANGED <<kind, up, down, client, program, pipe, waited, rpc,
                                        chunk, ctxDone, wrote, input>>
    BY <1>6 DEF SelectWait
  <2> QED BY <2>1, <2>2, <2>3 DEF Results
<1>7. CASE Streams BY <1>7 DEF Streams
<1>8. CASE ExitHead
  <2>1. down' \in Seq(Pieces) BY <1>8, WriteType, FrameTypes, PieceTypes DEF ExitHead
  <2>2. wrote' \in Seq(Frames) BY <1>8, AppendType, FrameTypes DEF ExitHead
  <2> QED BY <1>8, <2>1, <2>2 DEF ExitHead
<1>9. CASE ExitBody
  <2>1. down' \in Seq(Pieces) BY <1>9, WriteType, FrameTypes, PieceTypes DEF ExitBody
  <2> QED BY <1>9, <2>1 DEF ExitBody
<1>10. CASE Close BY <1>10 DEF Close
<1>11. CASE Reply
  <2>1. down' \in Seq(Pieces) BY <1>11, WriteType, FrameTypes, PieceTypes DEF Reply
  <2>2. wrote' \in Seq(Frames) BY <1>11, AppendType, FrameTypes DEF Reply
  <2>3. result' \in Results
    <3>1. PICK c \in {0, 1} : result' = [NoResult EXCEPT !.code = c] BY <1>11 DEF Reply
    <3> QED BY <3>1, ResultTypes
  <2> QED BY <1>11, <2>1, <2>2, <2>3 DEF Reply, Results
<1>12. CASE StatsHead
  <2>1. Len(wrote) + 1 \in 0..MaxOut BY <1>12 DEF StatsHead
  <2>2. Frame("stats", Len(wrote) + 1) \in Frames BY <2>1, FrameTypes
  <2>3. down' \in Seq(Pieces) BY <1>12, <2>2, WriteType, PieceTypes DEF StatsHead
  <2>4. wrote' \in Seq(Frames) BY <1>12, <2>2, AppendType DEF StatsHead
  <2> QED BY <1>12, <2>3, <2>4 DEF StatsHead
<1>13. CASE StatsBody
  <2>1. Last(wrote) \in Frames BY <1>13 DEF StatsBody, Half, Last
  <2>2. down' \in Seq(Pieces) BY <1>13, <2>1, WriteType, PieceTypes DEF StatsBody
  <2> QED BY <1>13, <2>2 DEF StatsBody
<1>14. CASE StatsEnd
  <2>1. PICK e \in BOOLEAN :
          result' = [NoResult EXCEPT !.code = IF e THEN 1 ELSE 0, !.error = e]
    BY <1>14 DEF StatsEnd
  <2>2. (IF e THEN 1 ELSE 0) \in Codes OBVIOUS
  <2>3. result' \in Results BY <2>1, <2>2, ResultTypes
  <2>4. dpc' = "exit" /\ UNCHANGED <<kind, up, down, client, program, streams, ctxDone, wrote,
                                     input>>
    BY <1>14 DEF StatsEnd
  <2> QED BY <2>3, <2>4 DEF Results
<1>15. CASE StatsShutdown BY <1>15 DEF StatsShutdown
<1>16. CASE Crash
  <2>1. down' \in Seq(Pieces)
    <3>1. down' = down \/ down' = Append(down, Piece("torn", NoFrame)) BY <1>16 DEF Crash
    <3>2. Piece("torn", NoFrame) \in Pieces BY FrameTypes, PieceTypes
    <3>3. Append(down, Piece("torn", NoFrame)) \in Seq(Pieces) BY <3>2, AppendType
    <3>4. down \in Seq(Pieces) OBVIOUS
    <3> QED BY <3>1, <3>3, <3>4, Zenon
  <2> QED BY <1>16, <2>1 DEF Crash
<1> QED BY <1>1, <1>2, <1>3, <1>4, <1>5, <1>6, <1>7, <1>8, <1>9, <1>10, <1>11, <1>12, <1>13,
           <1>14, <1>15, <1>16, <1>17, <1>18, <1>19
        DEF Handler

\* Steps of the process and of the goroutines between it and the client.
LEMMA WorkerTypes ==
    ASSUME TypeOK, \/ \E s \in Outputs : Emit(s) \/ Reader(s)
                   \/ ProcExit \/ Wait \/ CtxDone
    PROVE  TypeOK'
<1> USE DEF TypeOK, client, program, streams, input, Codes
<1>1. ASSUME NEW s \in Outputs, Emit(s) PROVE TypeOK'
  <2>1. emitted[s] + 1 \in 1..MaxOut BY <1>1 DEF Emit
  <2>2. Append(pipe[s], emitted[s] + 1) \in Seq(1..MaxOut) BY <2>1, AppendType
  <2>3. pipe' \in [Outputs -> Seq(1..MaxOut)] BY <1>1, <2>2 DEF Emit
  <2>4. emitted' \in [Outputs -> 0..MaxOut] BY <1>1, <2>1 DEF Emit
  <2> QED BY <1>1, <2>3, <2>4 DEF Emit
<1>2. ASSUME NEW s \in Outputs, ReadOutput(s) PROVE TypeOK'
  <2>1. Tail(pipe[s]) \in Seq(1..MaxOut) /\ Head(pipe[s]) \in 1..MaxOut
    BY <1>2, TailType DEF ReadOutput
  <2>2. pipe' \in [Outputs -> Seq(1..MaxOut)] BY <1>2, <2>1 DEF ReadOutput
  <2>3. chunk' \in [Outputs -> 0..MaxOut] BY <1>2, <2>1 DEF ReadOutput
  <2>4. rpc' \in [Outputs -> {"read", "head", "body", "done"}] BY <1>2 DEF ReadOutput
  <2>5. UNCHANGED <<kind, up, down, client, dpc, program, shut, waited, ctxDone, result,
                    wrote, input>>
    BY <1>2 DEF ReadOutput
  <2>6. StreamsTyped' BY <2>2, <2>3, <2>4, <2>5, TypeParts DEF StreamsTyped
  <2>7. DaemonTyped' /\ ClientTyped' /\ kind' \in Requests
    BY <2>5, TypeParts DEF DaemonTyped, ClientTyped
  <2> HIDE DEF TypeOK
  <2> QED BY <2>6, <2>7, TypePartsNext
<1>3. ASSUME NEW s \in Outputs, ReadOutputEnd(s) PROVE TypeOK' BY <1>3 DEF ReadOutputEnd
<1>4. ASSUME NEW s \in Outputs, OutputHead(s) PROVE TypeOK'
  <2>1. Frame(s, chunk[s]) \in Frames BY FrameTypes
  <2>2. down' \in Seq(Pieces) BY <1>4, <2>1, WriteType, PieceTypes DEF OutputHead
  <2>3. wrote' \in Seq(Frames) BY <1>4, <2>1, AppendType DEF OutputHead
  <2>4. rpc' \in [Outputs -> {"read", "head", "body", "done"}] BY <1>4 DEF OutputHead
  <2>5. UNCHANGED <<kind, up, client, dpc, program, pipe, shut, waited, chunk, ctxDone,
                    result, input>>
    BY <1>4 DEF OutputHead
  <2>6. StreamsTyped' BY <2>4, <2>5, TypeParts DEF StreamsTyped
  <2>7. DaemonTyped' BY <2>3, <2>5, TypeParts DEF DaemonTyped
  <2>8. ClientTyped' /\ kind' \in Requests BY <2>2, <2>5, TypeParts DEF ClientTyped
  <2> HIDE DEF TypeOK
  <2> QED BY <2>6, <2>7, <2>8, TypePartsNext
<1>5. ASSUME NEW s \in Outputs, OutputBody(s) PROVE TypeOK'
  <2>1. Frame(s, chunk[s]) \in Frames BY FrameTypes
  <2>2. down' \in Seq(Pieces) BY <1>5, <2>1, WriteType, PieceTypes DEF OutputBody
  <2>3. rpc' \in [Outputs -> {"read", "head", "body", "done"}] BY <1>5 DEF OutputBody
  <2>4. UNCHANGED <<kind, up, client, dpc, program, pipe, shut, waited, chunk, ctxDone,
                    result, wrote, input>>
    BY <1>5 DEF OutputBody
  <2> QED BY <2>2, <2>3, <2>4
<1>6. CASE ProcExit BY <1>6 DEF ProcExit
<1>7. CASE Wait BY <1>7 DEF Wait
<1>8. CASE CtxDone BY <1>8 DEF CtxDone
<1> QED BY <1>1, <1>2, <1>3, <1>4, <1>5, <1>6, <1>7, <1>8 DEF Reader

\* Steps of the reader of input frames.
LEMMA InputTypes ==
    ASSUME TypeOK, InputFrameHead \/ InputFrameBody \/ InputFrameEnd
    PROVE  TypeOK'
<1> USE DEF TypeOK, client, program, streams
<1>1. CASE InputFrameHead
  <2>1. up' \in Seq(Pieces) /\ Head(up) \in Pieces BY <1>1, TailType DEF InputFrameHead
  <2>2. Head(up).of \in Frames BY <2>1 DEF Pieces
  <2>3. fwant' \in Frames /\ fpc' \in {"on", "lost"} BY <1>1, <2>2 DEF InputFrameHead
  <2>4. UNCHANGED <<kind, down, client, dpc, program, streams, ctxDone, result, wrote,
                    applied, ahead>>
    BY <1>1 DEF InputFrameHead
  <2> QED BY <2>1, <2>3, <2>4
<1>2. CASE InputFrameBody
  <2>1. up' \in Seq(Pieces) BY <1>2, TailType DEF InputFrameBody
  <2>2. applied' \in Seq(Frames)
    <3>1. applied' = applied \/ applied' = Append(applied, fwant) BY <1>2 DEF InputFrameBody
    <3>2. Append(applied, fwant) \in Seq(Frames) BY AppendType
    <3> QED BY <3>1, <3>2
  <2>3. fwant' \in Frames /\ fpc' \in {"on", "lost"} BY <1>2, FrameTypes DEF InputFrameBody
  <2>4. UNCHANGED <<kind, down, client, dpc, program, streams, ctxDone, result, wrote, ahead>>
    BY <1>2 DEF InputFrameBody
  <2> QED BY <2>1, <2>2, <2>3, <2>4
<1>3. CASE InputFrameEnd BY <1>3 DEF InputFrameEnd
<1> QED BY <1>1, <1>2, <1>3

\* Every step keeps the types.
LEMMA TypeStep ==
    ASSUME TypeOK, Half, [Next]_vars
    PROVE  TypeOK'
<1>1. CASE Over \/ UNCHANGED vars
  BY <1>1 DEF Over, vars, client, program, streams, input, TypeOK
<1> QED BY <1>1, ClientTypes, HandlerTypes, WorkerTypes, InputTypes DEF Next

-----------------------------------------------------------------------------
(* What each side leaves alone.                                            *)

ClientStep == Client \/ Vanish \/ \E w \in Writers : InputHead(w) \/ InputBody(w)
HandlerStep == Handler \/ PayloadWritten \/ StatsHead \/ StatsEnd \/ StatsShutdown \/ Crash
WorkerStep == (\E s \in Outputs : Emit(s) \/ Reader(s)) \/ ProcExit \/ Wait \/ CtxDone
InputStep == InputFrameHead \/ InputFrameBody \/ InputFrameEnd

LEMMA Sides ==
    ASSUME [Next]_vars
    PROVE  ClientStep \/ HandlerStep \/ WorkerStep \/ InputStep \/ UNCHANGED vars
  BY DEF Next, ClientStep, HandlerStep, WorkerStep, InputStep, Over
LEMMA ClientFrame ==
    ASSUME ClientStep
    PROVE  UNCHANGED <<kind, dpc, program, streams, ctxDone, result, wrote, input>>
  BY DEF ClientStep, Client, SendRequest, SendError, ResizeError, ReadHead, ReadBody,
         ReadReply, ReadEOF, ReadError, Vanish, InputHead, InputBody
LEMMA HandlerFrame ==
    ASSUME HandlerStep
    PROVE  UNCHANGED <<kind, client>>
  BY DEF HandlerStep, Handler, Decode, DecodeEOF, DecodeError, Execute, Reject, PayloadError,
         PayloadWritten, SelectDone, SelectWait,
         Streams, ExitHead, ExitBody, Close, Reply, StatsBody, StatsHead, StatsEnd,
         StatsShutdown, Crash
LEMMA WorkerFrame ==
    ASSUME WorkerStep
    PROVE  UNCHANGED <<kind, up, client, dpc, result, input>>
  BY DEF WorkerStep, Emit, Reader, ReadOutput, ReadOutputEnd, OutputHead, OutputBody,
         ProcExit, Wait, CtxDone
LEMMA InputFrame ==
    ASSUME InputStep
    PROVE  UNCHANGED <<kind, down, client, dpc, program, streams, ctxDone, result, wrote, ahead>>
  BY DEF InputStep, InputFrameHead, InputFrameBody, InputFrameEnd

-----------------------------------------------------------------------------
(* The handler and its goroutines.                                         *)

LEMMA RolesStep ==
    ASSUME TypeOK, Roles, [Next]_vars
    PROVE  Roles'
<1> USE DEF client, program, streams, input
<1>1. CASE ClientStep
  <2>1. ClientOpen' => ClientOpen
    BY <1>1 DEF ClientStep, Client, SendRequest, SendError, ResizeError, ReadHead, ReadBody,
         ReadReply, ReadEOF, ReadError, Vanish, InputHead, InputBody, Return, ClientOpen
  <2> QED BY <1>1, <2>1, ClientFrame DEF Roles
<1>2. CASE InputStep
  <2>1. ClientOpen' <=> ClientOpen BY <1>2, InputFrame DEF ClientOpen
  <2> QED BY <1>2, <2>1, InputFrame DEF Roles
<1>3. CASE HandlerStep
  <2>1. kind' = kind BY <1>3, HandlerFrame
  <2>0. ClientOpen' <=> ClientOpen BY <1>3, HandlerFrame DEF ClientOpen
  <2>2. CASE Decode BY <2>1, <2>2 DEF Decode, Roles, TypeOK, Requests
  <2>3. CASE DecodeEOF \/ Reject \/ Close \/ Reply \/ StatsShutdown
    BY <2>0, <2>1, <2>3 DEF DecodeEOF, Reject, Close, Reply, StatsShutdown, Roles
  <2>4. CASE Execute BY <2>0, <2>1, <2>4 DEF Execute, Roles
  <2>10. CASE DecodeError \/ PayloadError \/ PayloadWritten
    BY <2>0, <2>1, <2>10 DEF DecodeError, PayloadError, PayloadWritten, Roles
  <2>5. CASE SelectDone BY <2>0, <2>1, <2>5 DEF SelectDone, Roles
  <2>6. CASE SelectWait \/ Streams BY <2>0, <2>1, <2>6 DEF SelectWait, Streams, Roles
  <2>7. CASE ExitHead \/ ExitBody BY <2>0, <2>1, <2>7 DEF ExitHead, ExitBody, Roles
  <2>8. CASE StatsHead \/ StatsBody \/ StatsEnd
    <3>1. CASE StatsHead BY <2>0, <2>1, <3>1 DEF StatsHead, Roles
    <3>2. CASE StatsBody BY <2>0, <2>1, <3>2 DEF StatsBody, Roles
    <3>3. CASE StatsEnd BY <2>0, <2>1, <3>3 DEF StatsEnd, Roles
    <3> QED BY <2>8, <3>1, <3>2, <3>3
  <2>9. CASE Crash BY <2>0, <2>1, <2>9 DEF Crash, Roles
  <2> QED BY <1>3, <2>2, <2>3, <2>4, <2>5, <2>6, <2>7, <2>8, <2>9, <2>10 DEF HandlerStep, Handler
<1>4. CASE WorkerStep
  <2>1. UNCHANGED <<kind, dpc>> /\ (ClientOpen' <=> ClientOpen)
    BY <1>4, WorkerFrame DEF ClientOpen
  <2>2. ASSUME NEW s \in Outputs, Emit(s) PROVE Roles' BY <2>1, <2>2 DEF Emit, Roles
  <2>3. ASSUME NEW s \in Outputs, Reader(s) PROVE Roles'
    <3>1. dpc \in {"select", "streams"}
      BY <2>3 DEF Reader, ReadOutput, ReadOutputEnd, OutputHead, OutputBody, Roles,
                  DaemonOpen, TypeOK
    <3>2. UNCHANGED <<waited, proc>>
      BY <2>3 DEF Reader, ReadOutput, ReadOutputEnd, OutputHead, OutputBody
    <3> QED BY <2>1, <3>1, <3>2 DEF Roles
  <2>4. CASE ProcExit \/ Wait \/ CtxDone BY <2>1, <2>4 DEF ProcExit, Wait, CtxDone, Roles
  <2> QED BY <1>4, <2>2, <2>3, <2>4 DEF WorkerStep
<1>5. CASE UNCHANGED vars BY <1>5 DEF vars, Roles, ClientOpen
<1> QED BY <1>1, <1>2, <1>3, <1>4, <1>5, Sides

\* A reader writes while the handler waits for it, in select or after.
LEMMA ReaderRuns ==
    ASSUME TypeOK, Roles, NEW s \in Outputs, Reader(s)
    PROVE  dpc \in {"select", "streams"} /\ kind \in {"batch", "tty"}
  BY DEF Reader, ReadOutput, ReadOutputEnd, OutputHead, OutputBody, Roles, DaemonOpen, TypeOK

LEMMA HalfStep ==
    ASSUME TypeOK, Roles, Half, [Next]_vars
    PROVE  Half'
<1> USE DEF client, program, streams, input
<1>1. CASE ClientStep BY <1>1, ClientFrame DEF Half, LastIs
<1>2. CASE InputStep BY <1>2, InputFrame DEF Half, LastIs
<1>3. CASE HandlerStep
  <2>1. CASE ExitHead \/ StatsHead \/ Reply
    <3>1. \A s \in Outputs : rpc'[s] = "done" BY <2>1 DEF ExitHead, StatsHead, Reply, Roles
    <3>2. PICK f \in {Frame("exit", 0), Frame("reply", 0), Frame("stats", Len(wrote) + 1)} :
            /\ wrote' = Append(wrote, f)
            /\ dpc' = "exitBody" => f = Frame("exit", 0)
      BY <2>1 DEF ExitHead, StatsHead, Reply
    <3>0. wrote \in Seq(Frames) BY DEF TypeOK
    <3>3. wrote' # <<>> /\ wrote'[Len(wrote')] = f BY <3>0, <3>2, AppendIs
    <3> QED BY <3>1, <3>2, <3>3 DEF Half, LastIs
  <2>2. CASE Execute \/ PayloadWritten BY <2>2 DEF Execute, PayloadWritten, Half, LastIs
  <2>3. CASE UNCHANGED <<wrote, rpc, chunk>> /\ dpc' \notin {"exitBody", "statsBody"}
    BY <2>3 DEF Half, LastIs
  <2>4. CASE Crash BY <2>4 DEF Crash, Half, LastIs
  <2> QED BY <1>3, <2>1, <2>2, <2>3, <2>4
          DEF HandlerStep, Handler, Decode, DecodeEOF, DecodeError, Reject, PayloadError,
          SelectDone, SelectWait, Streams,
              ExitBody, Close, StatsBody, StatsEnd, StatsShutdown
<1>4. CASE WorkerStep
  <2>1. dpc' = dpc BY <1>4, WorkerFrame
  <2>2. ASSUME NEW s \in Outputs, OutputHead(s) PROVE Half'
    <3>1. dpc \in {"select", "streams"} BY <2>2, ReaderRuns DEF Reader
    <3>2. wrote' # <<>> /\ wrote'[Len(wrote')] = Frame(s, chunk[s])
      <4>1. wrote \in Seq(Frames) /\ wrote' = Append(wrote, Frame(s, chunk[s]))
        BY <2>2 DEF OutputHead, TypeOK
      <4> QED BY <4>1, AppendIs
    <3>3. \A t \in Outputs : rpc'[t] = "body" => t = s BY <2>2 DEF OutputHead, TypeOK
    <3>4. chunk' = chunk BY <2>2 DEF OutputHead
    <3> QED BY <2>1, <3>1, <3>2, <3>3, <3>4 DEF Half, LastIs
  <2>3. ASSUME NEW s \in Outputs, ReadOutput(s) \/ ReadOutputEnd(s) \/ OutputBody(s)
        PROVE  Half'
    <3>1. wrote' = wrote /\ rpc'[s] # "body"
      BY <2>3 DEF ReadOutput, ReadOutputEnd, OutputBody, TypeOK
    <3>2. \A t \in Outputs \ {s} : rpc'[t] = rpc[t] /\ chunk'[t] = chunk[t]
      BY <2>3 DEF ReadOutput, ReadOutputEnd, OutputBody, TypeOK
    <3> QED BY <2>1, <3>1, <3>2 DEF Half, LastIs
  <2>4. CASE UNCHANGED <<wrote, rpc, chunk>> BY <2>1, <2>4 DEF Half, LastIs
  <2> QED BY <1>4, <2>2, <2>3, <2>4 DEF WorkerStep, Reader, Emit, ProcExit, Wait, CtxDone
<1>5. CASE UNCHANGED vars BY <1>5 DEF vars, Half, LastIs
<1> QED BY <1>1, <1>2, <1>3, <1>4, <1>5, Sides

-----------------------------------------------------------------------------
(* The stream of frames to the client.                                     *)

\* A step that writes nothing and reads nothing.
LEMMA StreamFrame ==
    ASSUME Stream, UNCHANGED <<kind, down, cwant, got, wrote>>,
           dpc' \in {"decode", "acquire", "reply"} => dpc \in {"decode", "acquire", "reply"},
           dpc \in {"reset", "crashed"} => dpc' \in {"reset", "crashed"}
    PROVE  Stream'
  BY DEF Stream, InPlace, Torn, Reading
LEMMA CompleteFrame ==
    ASSUME Complete, UNCHANGED <<kind, down, cwant, got, wrote>>, ClientOpen' => ClientOpen,
           dpc' \notin {"reset", "crashed"} =>
                dpc \notin {"reset", "crashed"} /\ (Pending' <=> Pending)
    PROVE  Complete'
  BY DEF Complete, Reading

\* A header is written: the writer holds writeMu, or all others are done.
LEMMA HeadWritten ==
    ASSUME TypeOK, Stream, Complete, NEW f \in Frames, f.type # "garbled",
           Write(Piece("head", f)), wrote' = Append(wrote, f), UNCHANGED <<kind, client>>,
           kind # "control" \/ ~ClientOpen, ~Pending, Pending',
           dpc \notin {"reset", "crashed"}, dpc' \notin {"decode", "acquire", "reply"}
    PROVE  Stream' /\ Complete'
<1> DEFINE p == Piece("head", f)
<1>1. /\ wrote \in Seq(Frames) /\ down \in Seq(Pieces) /\ got \in Seq(Frames)
      /\ Len(wrote) \in Nat /\ Len(down) \in Nat /\ Len(got) \in Nat
  BY DEF TypeOK
<1>2. /\ Len(wrote') = Len(wrote) + 1 /\ wrote'[Len(wrote) + 1] = f
      /\ \A i \in 1..Len(wrote) : wrote'[i] = wrote[i]
  BY <1>1, AppendIs
<1>3. UNCHANGED <<cwant, got, cpc>> BY DEF client
<1>4. Reading' = Reading /\ Reading \in {0, 1} BY <1>3 DEF Reading
<1>5. ClientOpen' <=> ClientOpen BY <1>3 DEF ClientOpen
<1>6. \A i \in 1..Len(down) : InPlace(i) BY DEF Stream, Torn
<1>7. ASSUME NEW i \in 1..Len(down), down'[i] = down[i] PROVE InPlace(i)'
  <2>1. PICK j \in 1..Len(wrote) :
            /\ down[i].of = wrote[j]
            /\ \/ down[i].part = "head" /\ i + Reading = 2 * (j - Len(got)) - 1
               \/ down[i].part = "body" /\ i + Reading = 2 * (j - Len(got))
               \/ /\ down[i].part = "json" /\ kind = "control"
                  /\ i = 1 /\ Reading = 0 /\ j = Len(got) + 1
    BY <1>6 DEF InPlace
  <2>2. j \in 1..Len(wrote') /\ wrote'[j] = wrote[j] BY <1>1, <1>2
  <2> QED BY <1>3, <1>4, <1>7, <2>1, <2>2 DEF InPlace
<1>8. /\ \A i \in 1..Len(got) : got'[i] = wrote'[i]
      /\ \A i \in 1..Len(wrote') : wrote'[i].type # "garbled"
      /\ cwant' # NoFrame => Len(got') < Len(wrote') /\ cwant' = wrote'[Len(got') + 1]
      /\ Len(got') <= Len(wrote')
  BY <1>1, <1>2, <1>3 DEF Stream
<1>9. CASE ~ClientOpen
  <2>1. down' = down BY <1>9 DEF Write
  <2>2. \A i \in 1..Len(down') : InPlace(i)' BY <1>7, <2>1
  <2>3. kind' = "control" => \A i \in 1..Len(down') : down'[i].part \in {"json", "torn"}
    BY <2>1 DEF Stream
  <2>4. Complete' BY <1>5, <1>9 DEF Complete
  <2> QED BY <1>3, <1>8, <2>2, <2>3, <2>4 DEF Stream
<1>10. CASE ClientOpen
  <2>1. down' = Append(down, p) BY <1>10 DEF Write
  <2>2. /\ Len(down') = Len(down) + 1 /\ down'[Len(down) + 1] = p
        /\ \A i \in 1..Len(down) : down'[i] = down[i]
    BY <1>1, <2>1, AppendIs
  <2>3. Reading + Len(down) = 2 * (Len(wrote) - Len(got)) BY <1>1, <1>4, <1>10 DEF Complete
  <2>4. p.part = "head" /\ p.of = f BY DEF Piece
  <2>5. ASSUME NEW i \in 1..Len(down') PROVE InPlace(i)'
    <3>1. CASE i = Len(down) + 1
      <4>1. i + Reading' = 2 * ((Len(wrote) + 1) - Len(got')) - 1
        <5>0. Reading \in {0, 1} /\ Len(wrote) \in Nat /\ Len(down) \in Nat /\ Len(got) \in Nat
          BY <1>1, <1>4
        <5>1. i + Reading = 2 * ((Len(wrote) + 1) - Len(got)) - 1 BY <2>3, <3>1, <5>0
        <5> QED BY <1>3, <1>4, <5>1, Zenon
      <4>2. Len(wrote) + 1 \in 1..Len(wrote') BY <1>1, <1>2
      <4>3. down'[i].part = "head" /\ down'[i].of = wrote'[Len(wrote) + 1]
        BY <1>2, <2>2, <2>4, <3>1
      <4> QED BY <4>1, <4>2, <4>3 DEF InPlace
    <3>2. CASE i \in 1..Len(down) BY <1>7, <2>2, <3>2
    <3> QED BY <1>1, <2>2, <3>1, <3>2
  <2>6. \A i \in 1..Len(down') : InPlace(i)' BY <2>5
  <2>7. Complete' BY <1>1, <1>2, <1>3, <1>4, <2>2, <2>3 DEF Complete
  <2>8. kind' # "control" BY <1>10
  <2> QED BY <1>3, <1>8, <2>6, <2>7, <2>8 DEF Stream
<1> QED BY <1>9, <1>10

\* The payload follows, from the goroutine that wrote the header.
LEMMA BodyWritten ==
    ASSUME TypeOK, Stream, Complete, wrote # <<>>, NEW f, f = wrote[Len(wrote)],
           Write(Piece("body", f)), UNCHANGED <<kind, client, wrote>>,
           kind # "control" \/ ~ClientOpen, Pending, ~Pending',
           dpc \notin {"reset", "crashed"}, dpc' \notin {"decode", "acquire", "reply"}
    PROVE  Stream' /\ Complete'
<1> DEFINE p == Piece("body", f)
<1>1. wrote \in Seq(Frames) /\ down \in Seq(Pieces) BY DEF TypeOK
<1>2. Len(wrote) \in Nat \ {0} /\ Len(down) \in Nat /\ Len(got) \in Nat BY DEF TypeOK
<1>3. UNCHANGED <<cwant, got, cpc>> BY DEF client
<1>4. Reading' = Reading /\ Reading \in {0, 1} BY <1>3 DEF Reading
<1>5. ClientOpen' <=> ClientOpen BY <1>3 DEF ClientOpen
<1>6. \A i \in 1..Len(down) : InPlace(i) BY DEF Stream, Torn
<1>7. ASSUME NEW i \in 1..Len(down), down'[i] = down[i] PROVE InPlace(i)'
  BY <1>3, <1>4, <1>6, <1>7 DEF InPlace
<1>8. CASE ~ClientOpen
  <2>1. down' = down BY <1>8 DEF Write
  <2>2. \A i \in 1..Len(down') : InPlace(i)' BY <1>7, <2>1
  <2> QED BY <1>3, <1>5, <1>8, <2>1, <2>2 DEF Stream, Complete
<1>9. CASE ClientOpen
  <2>1. down' = Append(down, p) BY <1>9 DEF Write
  <2>2. /\ Len(down') = Len(down) + 1 /\ down'[Len(down) + 1] = p
        /\ \A i \in 1..Len(down) : down'[i] = down[i]
    BY <1>1, <2>1, AppendIs
  <2>3. Reading + Len(down) + 1 = 2 * (Len(wrote) - Len(got)) BY <1>2, <1>4, <1>9 DEF Complete
  <2>4. p.part = "body" /\ p.of = f BY DEF Piece
  <2>5. ASSUME NEW i \in 1..Len(down') PROVE InPlace(i)'
    <3>1. CASE i = Len(down) + 1
      <4>1. i + Reading = 2 * (Len(wrote) - Len(got)) BY <1>2, <1>4, <2>3, <3>1
      <4>2. i + Reading' = 2 * (Len(wrote') - Len(got')) BY <1>3, <1>4, <4>1, Zenon
      <4>3. Len(wrote) \in 1..Len(wrote') BY <1>2
      <4>4. down'[i].part = "body" /\ down'[i].of = wrote'[Len(wrote)] BY <2>2, <2>4, <3>1
      <4> QED BY <4>2, <4>3, <4>4 DEF InPlace
    <3>2. CASE i \in 1..Len(down) BY <1>7, <2>2, <3>2
    <3> QED BY <1>2, <2>2, <3>1, <3>2
  <2>6. \A i \in 1..Len(down') : InPlace(i)' BY <2>5
  <2>7. Complete' BY <1>2, <1>3, <1>4, <2>2, <2>3 DEF Complete
  <2>8. kind' # "control" BY <1>9
  <2> QED BY <1>3, <2>6, <2>7, <2>8 DEF Stream
<1> QED BY <1>8, <1>9

\* The head of the socket moves to the client.
LEMMA TailIs ==
    ASSUME NEW S, NEW q \in Seq(S), q # <<>>
    PROVE  /\ Len(q) \in Nat \ {0} /\ Len(Tail(q)) = Len(q) - 1 /\ Head(q) = q[1]
           /\ \A i \in 1..(Len(q) - 1) : Tail(q)[i] = q[i + 1]
OBVIOUS

\* The client reads a header, and it is that of the next frame.
LEMMA HeadRead ==
    ASSUME TypeOK, Stream, Complete, ReadHead
    PROVE  Stream' /\ Complete'
<1>1. UNCHANGED <<kind, cpc, got, dpc, wrote, rpc>> BY DEF ReadHead, streams
<1>2. cwant = NoFrame /\ Reading = 0 BY DEF ReadHead, Reading
<1>3. /\ down # <<>> /\ down' = Tail(down) /\ cwant' = Head(down).of
      /\ Head(down).part \in {"head", "body"}
  BY DEF ReadHead
<1>4. down \in Seq(Pieces) BY DEF TypeOK
<1>5. /\ Len(down) \in Nat \ {0} /\ Len(down') = Len(down) - 1 /\ Head(down) = down[1]
      /\ \A i \in 1..(Len(down) - 1) : down'[i] = down[i + 1]
  BY <1>3, <1>4, TailIs
<1>6. Len(wrote) \in Nat /\ Len(got) \in Nat BY DEF TypeOK
<1>7. Len(got) < Len(wrote) /\ cwant' = wrote[Len(got) + 1]
  <2>0. 1 \in 1..Len(down) /\ down[1].part \in {"head", "body"} BY <1>3, <1>5
  <2>a. InPlace(1) \/ Torn(1) BY <2>0 DEF Stream
  <2>1. InPlace(1) BY <2>0, <2>a DEF Torn
  <2>2. PICK j \in 1..Len(wrote) :
            /\ down[1].of = wrote[j]
            /\ 1 = 2 * (j - Len(got)) - 1 \/ 1 = 2 * (j - Len(got))
    BY <1>2, <1>3, <1>5, <2>1 DEF InPlace
  <2>3. j = Len(got) + 1 BY <1>6, <2>2
  <2> QED BY <1>3, <1>5, <1>6, <2>2, <2>3
<1>8. cwant' # NoFrame /\ Reading' = 1
  <2>1. cwant'.type # "garbled" BY <1>6, <1>7 DEF Stream
  <2>2. NoFrame.type = "garbled" BY DEF NoFrame, Frame
  <2> QED BY <2>1, <2>2 DEF Reading
<1>9. ASSUME NEW i \in 1..Len(down') PROVE InPlace(i)' \/ Torn(i)'
  <2>1. i + 1 \in 1..Len(down) /\ down'[i] = down[i + 1] BY <1>5
  <2>2. CASE Torn(i + 1) BY <1>1, <1>5, <2>1, <2>2 DEF Torn
  <2>3. CASE InPlace(i + 1)
    <3>1. PICK j \in 1..Len(wrote) :
            /\ down[i + 1].of = wrote[j]
            /\ \/ down[i + 1].part = "head" /\ i + 1 = 2 * (j - Len(got)) - 1
               \/ down[i + 1].part = "body" /\ i + 1 = 2 * (j - Len(got))
      BY <1>2, <2>1, <2>3 DEF InPlace
    <3>2. i + Reading' = i + 1 BY <1>8
    <3>3. InPlace(i)' BY <1>1, <2>1, <3>1, <3>2 DEF InPlace
    <3> QED BY <3>3
  <2> QED BY <2>1, <2>2, <2>3 DEF Stream
<1>10. Stream'
  <2>1. kind' = "control" => \A i \in 1..Len(down') : down'[i].part \in {"json", "torn"}
    BY <1>1, <1>5 DEF Stream
  <2>2. /\ Len(got') <= Len(wrote')
        /\ \A i \in 1..Len(got') : got'[i] = wrote'[i]
        /\ \A i \in 1..Len(wrote') : wrote'[i].type # "garbled"
    BY <1>1 DEF Stream
  <2>3. dpc' \notin {"decode", "acquire", "reply"} BY <1>1, <1>3 DEF Stream
  <2> QED BY <1>1, <1>7, <1>9, <2>1, <2>2, <2>3 DEF Stream
<1>11. Complete'
  <2>1. (Pending' <=> Pending) /\ (ClientOpen' <=> ClientOpen)
    BY <1>1 DEF Pending, ClientOpen
  <2> QED BY <1>1, <1>2, <1>5, <1>6, <1>8, <2>1 DEF Complete
<1> QED BY <1>10, <1>11

\* The client reads a payload, and it belongs to the header.
LEMMA BodyRead ==
    ASSUME TypeOK, Stream, Complete, ReadBody
    PROVE  /\ Stream' /\ Complete'
           /\ Len(got) < Len(wrote) /\ cwant = wrote[Len(got) + 1]
           /\ got' = Append(got, wrote[Len(got) + 1])
<1>1. UNCHANGED <<kind, dpc, wrote, rpc>> BY DEF ReadBody, streams
<1>2. cwant # NoFrame /\ Reading = 1 /\ cwant' = NoFrame /\ Reading' = 0
  BY DEF ReadBody, Reading
<1>3. down # <<>> /\ down' = Tail(down) /\ Head(down).part # "torn" BY DEF ReadBody
<1>4. down \in Seq(Pieces) /\ got \in Seq(Frames) BY DEF TypeOK
<1>5. /\ Len(down) \in Nat \ {0} /\ Len(down') = Len(down) - 1 /\ Head(down) = down[1]
      /\ \A i \in 1..(Len(down) - 1) : down'[i] = down[i + 1]
  BY <1>3, <1>4, TailIs
<1>6. Len(wrote) \in Nat /\ Len(got) \in Nat BY DEF TypeOK
<1>7. Len(got) < Len(wrote) /\ cwant = wrote[Len(got) + 1] BY <1>2 DEF Stream
<1>8. Head(down) = Piece("body", cwant)
  <2>0. 1 \in 1..Len(down) /\ down[1].part # "torn" BY <1>3, <1>5
  <2>a. InPlace(1) \/ Torn(1) BY <2>0 DEF Stream
  <2>1. InPlace(1) BY <2>0, <2>a DEF Torn
  <2>2. PICK j \in 1..Len(wrote) :
            /\ down[1].of = wrote[j]
            /\ \/ 2 = 2 * (j - Len(got)) - 1
               \/ down[1].part = "body" /\ 2 = 2 * (j - Len(got))
    BY <1>2, <1>5, <2>1 DEF InPlace
  <2>3. j = Len(got) + 1 /\ down[1].part = "body" BY <1>6, <2>2
  <2>4. down[1] \in Pieces BY <1>4, <2>0
  <2>5. down[1] = [part |-> "body", of |-> cwant] BY <1>7, <2>2, <2>3, <2>4 DEF Pieces
  <2> QED BY <1>5, <2>5 DEF Piece
<1>9. got' = Append(got, cwant) BY <1>8 DEF ReadBody
<1>10. /\ Len(got') = Len(got) + 1 /\ got'[Len(got) + 1] = wrote[Len(got) + 1]
       /\ \A i \in 1..Len(got) : got'[i] = got[i]
  BY <1>4, <1>7, <1>9, AppendIs
<1>11. ASSUME NEW i \in 1..Len(down') PROVE InPlace(i)' \/ Torn(i)'
  <2>1. i + 1 \in 1..Len(down) /\ down'[i] = down[i + 1] BY <1>5
  <2>2. CASE Torn(i + 1) BY <1>1, <1>5, <2>1, <2>2 DEF Torn
  <2>3. CASE InPlace(i + 1)
    <3>1. PICK j \in 1..Len(wrote) :
            /\ down[i + 1].of = wrote[j]
            /\ \/ down[i + 1].part = "head" /\ (i + 1) + 1 = 2 * (j - Len(got)) - 1
               \/ down[i + 1].part = "body" /\ (i + 1) + 1 = 2 * (j - Len(got))
      BY <1>2, <2>1, <2>3 DEF InPlace
    <3>a. Len(got') = Len(got) + 1 /\ i + Reading' = i /\ i \in Nat BY <1>2, <1>10
    <3>b. (i + 1) + 1 = 2 * (j - Len(got)) - 1 => i = 2 * (j - (Len(got) + 1)) - 1
      BY <1>6, <3>a
    <3>c. (i + 1) + 1 = 2 * (j - Len(got)) => i = 2 * (j - (Len(got) + 1))
      BY <1>6, <3>a
    <3>2. \/ down'[i].part = "head" /\ i + Reading' = 2 * (j - Len(got')) - 1
          \/ down'[i].part = "body" /\ i + Reading' = 2 * (j - Len(got'))
      BY <2>1, <3>1, <3>a, <3>b, <3>c, Zenon
    <3>3. InPlace(i)' BY <1>1, <2>1, <3>1, <3>2 DEF InPlace
    <3> QED BY <3>3
  <2> QED BY <2>1, <2>2, <2>3 DEF Stream
<1>12. \A i \in 1..Len(got') : got'[i] = wrote'[i] BY <1>1, <1>6, <1>10 DEF Stream
<1>13. Stream' BY <1>1, <1>2, <1>5, <1>6, <1>7, <1>10, <1>11, <1>12 DEF Stream
<1>14. Complete'
  <2>1. (Pending' <=> Pending) /\ (ClientOpen' => ClientOpen)
    BY <1>1 DEF Pending, ClientOpen, ReadBody
  <2> QED BY <1>1, <1>2, <1>5, <1>6, <1>10, <2>1 DEF Complete
<1> QED BY <1>7, <1>9, <1>13, <1>14

\* The client reads a reply, which is all there is to read.
LEMMA ReplyRead ==
    ASSUME TypeOK, Stream, ReadReply
    PROVE  /\ Stream' /\ Complete' /\ kind = "control"
           /\ Len(got) < Len(wrote) /\ got' = Append(got, wrote[Len(got) + 1])
<1>1. UNCHANGED <<kind, cwant, dpc, wrote>> /\ cpc' = "done" BY DEF ReadReply, Return
<1>2. /\ down # <<>> /\ down' = Tail(down) /\ Head(down).part = "json"
      /\ got' = Append(got, Head(down).of)
  BY DEF ReadReply
<1>3. down \in Seq(Pieces) /\ got \in Seq(Frames) BY DEF TypeOK
<1>4. /\ Len(down) \in Nat \ {0} /\ Len(down') = Len(down) - 1 /\ Head(down) = down[1]
      /\ \A i \in 1..(Len(down) - 1) : down'[i] = down[i + 1]
  BY <1>2, <1>3, TailIs
<1>5. Len(wrote) \in Nat /\ Len(got) \in Nat BY DEF TypeOK
<1>6. /\ kind = "control" /\ Reading = 0 /\ Len(got) + 1 \in 1..Len(wrote)
      /\ down[1].of = wrote[Len(got) + 1]
  <2>0. 1 \in 1..Len(down) /\ down[1].part = "json" BY <1>2, <1>4
  <2>a. InPlace(1) \/ Torn(1) BY <2>0 DEF Stream
  <2> QED BY <2>0, <2>a DEF Torn, InPlace
<1>7. cwant = NoFrame BY <1>6 DEF Reading
<1>8. /\ Len(got') = Len(got) + 1 /\ got'[Len(got) + 1] = wrote[Len(got) + 1]
      /\ \A i \in 1..Len(got) : got'[i] = got[i]
  BY <1>2, <1>3, <1>4, <1>6, AppendIs
<1>9. ASSUME NEW i \in 1..Len(down') PROVE Torn(i)' /\ down'[i].part = "torn"
  <2>1. i + 1 \in 1..Len(down) /\ down'[i] = down[i + 1] /\ i + 1 # 1 BY <1>4
  <2>2. InPlace(i + 1) \/ Torn(i + 1) BY <2>1 DEF Stream
  <2>3. down[i + 1].part \in {"json", "torn"} BY <1>6, <2>1 DEF Stream
  <2>4. Torn(i + 1) BY <2>1, <2>2, <2>3 DEF InPlace, Torn
  <2> QED BY <1>1, <1>4, <2>1, <2>4 DEF Torn
<1>10. \A i \in 1..Len(got') : got'[i] = wrote'[i] BY <1>1, <1>5, <1>8 DEF Stream
<1>11. Stream' BY <1>1, <1>4, <1>5, <1>6, <1>7, <1>8, <1>9, <1>10 DEF Stream
<1>12. Complete' BY <1>1 DEF Complete, ClientOpen
<1> QED BY <1>2, <1>4, <1>5, <1>6, <1>11, <1>12

\* Every step keeps the stream in place, and complete while both ends live.
LEMMA StreamStep ==
    ASSUME TypeOK, Roles, Half, Stream, Complete, [Next]_vars
    PROVE  Stream' /\ Complete'
<1> USE DEF client, program, streams, input
<1>1. CASE ClientStep
  <2>0. UNCHANGED <<kind, dpc, rpc, wrote>> BY <1>1, ClientFrame
  <2>1. CASE ReadHead BY <2>1, HeadRead
  <2>2. CASE ReadBody BY <2>2, BodyRead
  <2>3. CASE ReadReply BY <2>3, ReplyRead
  <2>4. CASE Vanish
    <3>1. down' = <<>> /\ cwant' = NoFrame /\ got' = got /\ cpc' = "gone" BY <2>4 DEF Vanish
    <3>2. Len(down') = 0 BY <3>1
    <3> QED BY <2>0, <3>1, <3>2 DEF Stream, Complete, ClientOpen
  <2>5. ASSUME UNCHANGED <<down, cwant, got>>, ClientOpen' => ClientOpen
        PROVE  Stream' /\ Complete'
    <3>1. Pending' <=> Pending BY <2>0 DEF Pending
    <3> QED BY <2>0, <2>5, <3>1, StreamFrame, CompleteFrame
  <2>6. CASE SendRequest \/ SendError \/ ResizeError \/ ReadEOF \/ ReadError
    BY <2>5, <2>6 DEF SendRequest, SendError, ResizeError, ReadEOF, ReadError, ClientOpen
  <2>7. CASE \E w \in Writers : InputHead(w) \/ InputBody(w)
    BY <2>5, <2>7 DEF InputHead, InputBody, ClientOpen
  <2> QED BY <1>1, <2>1, <2>2, <2>3, <2>4, <2>6, <2>7 DEF ClientStep, Client
<1>2. CASE InputStep
  <2>1. UNCHANGED <<kind, down, cwant, got, wrote, dpc, rpc, cpc>> BY <1>2, InputFrame
  <2>2. (Pending' <=> Pending) /\ (ClientOpen' <=> ClientOpen)
    BY <2>1 DEF Pending, ClientOpen
  <2> QED BY <2>1, <2>2, StreamFrame, CompleteFrame
<1>3. CASE HandlerStep
  <2>0. UNCHANGED <<kind, client>> BY <1>3, HandlerFrame
  <2>a. ClientOpen' <=> ClientOpen BY <2>0 DEF ClientOpen
  <2>1. CASE ExitHead
    <3>1. ~Pending /\ (kind # "control" \/ ~ClientOpen) BY <2>1 DEF ExitHead, Pending, Roles
    <3>2. Pending' BY <2>1 DEF ExitHead, Pending
    <3>3. Frame("exit", 0) \in Frames /\ Frame("exit", 0).type # "garbled"
      BY FrameTypes DEF Frame
    <3> QED BY <2>0, <2>1, <3>1, <3>2, <3>3, HeadWritten DEF ExitHead
  <2>2. CASE StatsHead
    <3>1. ~Pending /\ kind # "control" BY <2>2 DEF StatsHead, Pending, Roles
    <3>2. Pending' BY <2>2 DEF StatsHead, Pending
    <3>3. Len(wrote) + 1 \in 0..MaxOut BY <2>2 DEF StatsHead, TypeOK
    <3>4. Frame("stats", Len(wrote) + 1) \in Frames BY <3>3, FrameTypes
    <3>5. Frame("stats", Len(wrote) + 1).type # "garbled" BY DEF Frame
    <3> QED BY <2>0, <2>2, <3>1, <3>2, <3>4, <3>5, HeadWritten DEF StatsHead
  <2>3. CASE ExitBody
    <3>1. Pending /\ (kind # "control" \/ ~ClientOpen) BY <2>3 DEF ExitBody, Pending, Roles
    <3>2. ~Pending' BY <2>3 DEF ExitBody, Pending, Roles
    <3>3. wrote # <<>> /\ wrote[Len(wrote)] = Frame("exit", 0)
      BY <2>3 DEF ExitBody, Half, LastIs
    <3> QED BY <2>0, <2>3, <3>1, <3>2, <3>3, BodyWritten DEF ExitBody
  <2>4. CASE StatsBody
    <3>1. Pending /\ kind # "control" BY <2>4 DEF StatsBody, Pending, Roles
    <3>2. ~Pending' BY <2>4 DEF StatsBody, Pending, Roles
    <3>3. wrote # <<>> BY <2>4 DEF StatsBody, Half
    <3> QED BY <2>0, <2>4, <3>1, <3>2, <3>3, BodyWritten DEF StatsBody, Last
  <2>5. CASE Reply
    <3>1. kind = "control" /\ wrote = <<>> /\ down = <<>> BY <2>5 DEF Reply, Roles, Stream
    <3>2. Len(got) = 0 /\ Len(wrote) = 0 BY <3>1 DEF Stream, TypeOK
    <3>3. cwant = NoFrame BY <3>2 DEF Stream
    <3>4. wrote' = <<Frame("reply", 0)>> BY <2>5, <3>1 DEF Reply
    <3>5. Len(wrote') = 1 /\ wrote'[1] = Frame("reply", 0) BY <3>4
    <3>6. \/ down' = <<>>
          \/ down' = <<Piece("json", Frame("reply", 0))>>
      BY <2>5, <3>1 DEF Reply, Write
    <3>7. \/ Len(down') = 0
          \/ Len(down') = 1 /\ down'[1] = Piece("json", Frame("reply", 0))
      BY <3>6
    <3>8. \A i \in 1..Len(down') : i = 1 /\ down'[i].part = "json" /\ down'[i].of = wrote'[1]
      <4>1. /\ Piece("json", Frame("reply", 0)).part = "json"
            /\ Piece("json", Frame("reply", 0)).of = Frame("reply", 0)
        BY DEF Piece
      <4> QED BY <3>5, <3>7, <4>1
    <3>9. \A i \in 1..Len(down') : InPlace(i)'
      BY <2>0, <3>1, <3>2, <3>3, <3>5, <3>8 DEF InPlace, Reading
    <3>10. wrote'[1].type # "garbled" BY <3>5 DEF Frame
    <3>11. dpc' = "close" BY <2>5 DEF Reply
    <3> QED BY <2>0, <3>1, <3>2, <3>3, <3>5, <3>8, <3>9, <3>10, <3>11 DEF Stream, Complete
  <2>6. CASE Crash
    <3>1. dpc' \in {"reset", "crashed"} /\ wrote' = wrote BY <2>6 DEF Crash
    <3>2. \A i \in 1..Len(down) : InPlace(i)
      BY <2>6 DEF Crash, DaemonOpen, Stream, Torn
    <3>3. ASSUME NEW i \in 1..Len(down), down'[i] = down[i] PROVE InPlace(i)'
      <4>1. Reading' = Reading /\ UNCHANGED <<kind, got, wrote>> BY <2>0, <3>1 DEF Reading
      <4>2. InPlace(i) BY <3>2
      <4> QED BY <3>3, <4>1, <4>2 DEF InPlace
    <3>4. CASE down' = down BY <2>0, <3>1, <3>3, <3>4 DEF Stream, Complete
    <3>5. CASE down' = Append(down, Piece("torn", NoFrame))
      <4>1. down \in Seq(Pieces) /\ Len(down) \in Nat BY DEF TypeOK
      <4>2. /\ Len(down') = Len(down) + 1 /\ down'[Len(down) + 1] = Piece("torn", NoFrame)
            /\ \A i \in 1..Len(down) : down'[i] = down[i]
        BY <3>5, <4>1, AppendIs
      <4>3. ASSUME NEW i \in 1..Len(down') PROVE InPlace(i)' \/ Torn(i)'
        <5>1. CASE i \in 1..Len(down) BY <3>3, <4>2, <5>1
        <5>2. CASE i = Len(down) + 1 BY <3>1, <4>2, <5>2 DEF Torn, Piece
        <5> QED BY <4>1, <4>2, <5>1, <5>2
      <4>4. kind = "control" => \A i \in 1..Len(down') : down'[i].part \in {"json", "torn"}
        BY <4>1, <4>2 DEF Stream, Piece
      <4> QED BY <2>0, <3>1, <4>3, <4>4 DEF Stream, Complete
    <3> QED BY <2>6, <3>4, <3>5 DEF Crash
  <2>7. ASSUME UNCHANGED <<down, wrote>>, Pending' <=> Pending, dpc \notin {"reset", "crashed"},
               dpc' \in {"decode", "acquire", "reply"} => dpc \in {"decode", "acquire", "reply"}
        PROVE  Stream' /\ Complete'
    BY <2>0, <2>a, <2>7, StreamFrame, CompleteFrame
  <2>8. CASE Decode \/ DecodeEOF \/ DecodeError \/ Reject \/ PayloadError \/ SelectDone
             \/ SelectWait \/ Streams \/ Close \/ StatsEnd \/ StatsShutdown
    <3>1. UNCHANGED <<down, wrote, rpc>>
      BY <2>8 DEF Decode, DecodeEOF, DecodeError, Reject, PayloadError, SelectDone, SelectWait,
                  Streams, Close, StatsEnd, StatsShutdown
    <3>2. /\ dpc \notin {"exitBody", "statsBody", "reset", "crashed"}
          /\ dpc' \notin {"exitBody", "statsBody"}
          /\ dpc' \in {"decode", "acquire", "reply"} => dpc = "decode"
      BY <2>8 DEF Decode, DecodeEOF, DecodeError, Reject, PayloadError, SelectDone, SelectWait,
                  Streams, Close, StatsEnd, StatsShutdown
    <3>3. Pending' <=> Pending BY <3>1, <3>2 DEF Pending
    <3> QED BY <2>7, <3>1, <3>2, <3>3
  <2>9. CASE Execute \/ PayloadWritten
    <3>1. ~Pending /\ ~Pending' BY <2>9 DEF Execute, PayloadWritten, Pending, Roles
    <3> QED BY <2>7, <2>9, <3>1 DEF Execute, PayloadWritten
  <2> QED BY <1>3, <2>1, <2>2, <2>3, <2>4, <2>5, <2>6, <2>8, <2>9 DEF HandlerStep, Handler
<1>4. CASE WorkerStep
  <2>0. UNCHANGED <<kind, client, dpc>> BY <1>4, WorkerFrame
  <2>1. ASSUME NEW s \in Outputs, OutputHead(s) PROVE Stream' /\ Complete'
    <3>1. dpc \in {"select", "streams"} /\ kind # "control" BY <2>1, ReaderRuns DEF Reader
    <3>2. ~Pending BY <2>1, <3>1 DEF OutputHead, Pending
    <3>3. Pending' BY <2>1 DEF OutputHead, Pending, TypeOK
    <3>4. Frame(s, chunk[s]) \in Frames BY FrameTypes DEF TypeOK
    <3>5. Frame(s, chunk[s]).type # "garbled" BY DEF Frame, Outputs
    <3> QED BY <2>0, <2>1, <3>1, <3>2, <3>3, <3>4, <3>5, HeadWritten DEF OutputHead
  <2>2. ASSUME NEW s \in Outputs, OutputBody(s) PROVE Stream' /\ Complete'
    <3>1. dpc \in {"select", "streams"} /\ kind # "control" BY <2>2, ReaderRuns DEF Reader
    <3>2. Pending BY <2>2 DEF OutputBody, Pending
    <3>3. ~Pending'
      <4>1. \A t \in Outputs : rpc'[t] # "body" BY <2>2 DEF OutputBody, Half, TypeOK
      <4> QED BY <2>0, <3>1, <4>1 DEF Pending
    <3>4. wrote # <<>> /\ wrote[Len(wrote)] = Frame(s, chunk[s])
      BY <2>2 DEF OutputBody, Half, LastIs
    <3> QED BY <2>0, <2>2, <3>1, <3>2, <3>3, <3>4, BodyWritten DEF OutputBody
  <2>3. ASSUME UNCHANGED <<down, wrote>>, Pending' <=> Pending PROVE Stream' /\ Complete'
    <3>1. ClientOpen' <=> ClientOpen BY <2>0 DEF ClientOpen
    <3> QED BY <2>0, <2>3, <3>1, StreamFrame, CompleteFrame
  <2>4. ASSUME NEW s \in Outputs, ReadOutput(s) \/ ReadOutputEnd(s) PROVE Stream' /\ Complete'
    <3>1. \A t \in Outputs : rpc'[t] = "body" <=> rpc[t] = "body"
      BY <2>4 DEF ReadOutput, ReadOutputEnd, TypeOK
    <3>2. Pending' <=> Pending BY <2>0, <3>1 DEF Pending
    <3> QED BY <2>3, <2>4, <3>2 DEF ReadOutput, ReadOutputEnd
  <2>5. CASE (\E s \in Outputs : Emit(s)) \/ ProcExit \/ Wait \/ CtxDone
    <3>1. UNCHANGED <<down, wrote, rpc>> BY <2>5 DEF Emit, ProcExit, Wait, CtxDone
    <3>2. Pending' <=> Pending BY <2>0, <3>1 DEF Pending
    <3> QED BY <2>3, <3>1, <3>2
  <2> QED BY <1>4, <2>1, <2>2, <2>4, <2>5 DEF WorkerStep, Reader
<1>5. CASE UNCHANGED vars
  <2>1. UNCHANGED <<kind, down, cwant, got, wrote, dpc, rpc, cpc>> BY <1>5 DEF vars
  <2>2. (Pending' <=> Pending) /\ (ClientOpen' <=> ClientOpen)
    BY <2>1 DEF Pending, ClientOpen
  <2> QED BY <2>1, <2>2, StreamFrame, CompleteFrame
<1> QED BY <1>1, <1>2, <1>3, <1>4, <1>5, Sides

-----------------------------------------------------------------------------
(* The exit status.                                                        *)

\* One more frame is an exit frame or adds none.
LEMMA OneMore ==
    ASSUME TypeOK, NEW f, wrote' = Append(wrote, f)
    PROVE  /\ WroteExit' <=> WroteExit \/ f.type = "exit"
           /\ Len(wrote') = Len(wrote) + 1 /\ LastIs(f)'
<1>1. wrote \in Seq(Frames) /\ Len(wrote) \in Nat BY DEF TypeOK
<1>2. /\ Len(wrote') = Len(wrote) + 1 /\ wrote'[Len(wrote) + 1] = f /\ wrote' # <<>>
      /\ \A i \in 1..Len(wrote) : wrote'[i] = wrote[i]
  BY <1>1, AppendIs
<1>3. WroteExit' => WroteExit \/ f.type = "exit" BY <1>1, <1>2 DEF WroteExit
<1>4. WroteExit => WroteExit' BY <1>1, <1>2 DEF WroteExit
<1>5. f.type = "exit" => WroteExit' BY <1>1, <1>2 DEF WroteExit
<1> QED BY <1>2, <1>3, <1>4, <1>5 DEF LastIs

\* The client reports what the exit frame carries, or that there was none.
LEMMA ClientSettled ==
    ASSUME TypeOK, Roles, Stream, Complete, Settled, StatusIsResult, ClientStep
    PROVE  Settled' /\ StatusIsResult'
<1> USE DEF client, program, streams, input
<1>1. UNCHANGED <<kind, dpc, proc, code, result, wrote>> BY ClientFrame
<1>2. WroteExit' <=> WroteExit BY <1>1 DEF WroteExit
<1>3. ASSUME UNCHANGED <<got, status>>, ClientOpen' => ClientOpen
      PROVE  Settled' /\ StatusIsResult'
  BY <1>1, <1>2, <1>3 DEF Settled, StatusIsResult, LastIs
<1>4. ASSUME got' = got, cpc' = "done", status'.from # "exit",
             status'.from = "eof" => dpc = "crashed" \/ kind = "stats"
      PROVE  Settled' /\ StatusIsResult'
  BY <1>1, <1>2, <1>4 DEF Settled, StatusIsResult, ClientOpen
<1>5. CASE SendError \/ ReadError
  BY <1>4, <1>5 DEF SendError, ReadError, Return
<1>6. CASE ReadEOF
  <2>1. ASSUME dpc = "closed", kind \in {"batch", "tty"} PROVE FALSE
    <3>1. ClientOpen /\ down = <<>> BY <1>6 DEF ReadEOF, ClientOpen
    <3>2. Len(got) < Len(wrote) BY <2>1, <3>1 DEF Settled
    <3>3. ~Pending BY <2>1 DEF Pending, Roles
    <3>4. Len(wrote) \in Nat /\ Len(got) \in Nat /\ Len(down) = 0 BY <3>1 DEF TypeOK
    <3>5. Reading \in {0, 1} BY DEF Reading
    <3>6. Reading + Len(down) + 0 = 2 * (Len(wrote) - Len(got))
      BY <2>1, <3>1, <3>3 DEF Complete
    <3> QED BY <3>2, <3>4, <3>5, <3>6
  <2>2. /\ got' = got /\ cpc' = "done" /\ dpc \in {"closed", "crashed"}
        /\ status'.from = "error" \/ (status'.from = "eof" /\ kind # "control")
    <3>1. got' = got /\ cpc' = "done" /\ dpc \in {"closed", "crashed"}
      BY <1>6 DEF ReadEOF, Return
    <3>2. CASE kind = "control"
      <4>1. status' = [code |-> 1, from |-> "error"] BY <1>6, <3>2 DEF ReadEOF, Return
      <4>2. status'.from = "error" BY <4>1
      <4> QED BY <3>1, <4>2
    <3>3. CASE kind # "control"
      <4>1. status' = [code |-> 0, from |-> "eof"] BY <1>6, <3>3 DEF ReadEOF, Return
      <4> QED BY <3>1, <3>3, <4>1
    <3> QED BY <3>2, <3>3
  <2>3. kind \in Requests BY DEF TypeOK
  <2> QED BY <1>4, <2>1, <2>2, <2>3 DEF Requests
<1>7. CASE ReadReply
  <2>1. cpc' = "done" /\ status'.from = "reply" BY <1>7 DEF ReadReply, Return
  <2> QED BY <1>1, <1>2, <2>1 DEF Settled, StatusIsResult, ClientOpen
<1>8. CASE ReadBody
  <2>1. /\ Len(got) < Len(wrote) /\ cwant = wrote[Len(got) + 1]
        /\ got' = Append(got, wrote[Len(got) + 1])
    BY <1>8, BodyRead
  <2>2. got \in Seq(Frames) /\ Len(got) \in Nat /\ Len(wrote) \in Nat BY DEF TypeOK
  <2>3. Len(got') = Len(got) + 1 BY <2>1, <2>2, AppendIs
  <2>4. CASE cwant.type = "exit"
    <3>1. WroteExit BY <2>1, <2>2, <2>4 DEF WroteExit
    <3>2. /\ cpc' = "done"
          /\ status' = [code |-> IF result.error THEN 1 ELSE result.code, from |-> "exit"]
      BY <1>8, <2>4 DEF ReadBody, Return
    <3>3. status'.from = "exit" /\ status'.code = IF result.error THEN 1 ELSE result.code
      BY <3>2
    <3>4. kind \in {"batch", "tty"} /\ ~result.error /\ ~result.timedOut
            => result.code = code
      BY <3>1 DEF Settled
    <3> QED BY <1>1, <1>2, <3>1, <3>2, <3>3, <3>4 DEF Settled, StatusIsResult, ClientOpen
  <2>5. CASE cwant.type # "exit"
    <3>1. UNCHANGED <<status, cpc>> BY <1>8, <2>5 DEF ReadBody
    <3>2. LastIs(Frame("exit", 0)) => Len(got') < Len(wrote)
      <4>1. LastIs(Frame("exit", 0)) => wrote[Len(wrote)].type = "exit" BY DEF LastIs, Frame
      <4> QED BY <2>1, <2>2, <2>3, <2>5, <4>1
    <3> QED BY <1>1, <1>2, <3>1, <3>2 DEF Settled, StatusIsResult, LastIs, ClientOpen
  <2> QED BY <2>4, <2>5
<1>9. CASE SendRequest \/ ResizeError \/ ReadHead \/ Vanish
  BY <1>3, <1>9 DEF SendRequest, ResizeError, ReadHead, Vanish, ClientOpen
<1>10. CASE \E w \in Writers : InputHead(w) \/ InputBody(w)
  BY <1>3, <1>10 DEF InputHead, InputBody, ClientOpen
<1> QED BY <1>5, <1>6, <1>7, <1>8, <1>9, <1>10 DEF ClientStep, Client

\* The result is settled before the exit frame is begun, and stays.
LEMMA SettledStep ==
    ASSUME TypeOK, Roles, Half, Stream, Complete, Settled, StatusIsResult, [Next]_vars
    PROVE  Settled' /\ StatusIsResult'
<1> USE DEF client, program, streams, input
<1> DEFINE Fixed == UNCHANGED <<kind, got, status, cpc>>
<1>0. Fixed => (ClientOpen' <=> ClientOpen) BY DEF ClientOpen
<1>1. CASE ClientStep BY <1>1, ClientSettled
<1>2. CASE InputStep \/ UNCHANGED vars
  <2>1. UNCHANGED <<kind, got, status, cpc, dpc, proc, code, result, wrote>>
    BY <1>2, InputFrame DEF vars
  <2>2. WroteExit' <=> WroteExit BY <2>1 DEF WroteExit
  <2> QED BY <1>0, <2>1, <2>2 DEF Settled, StatusIsResult, LastIs
<1>3. CASE HandlerStep
  <2>0. Fixed BY <1>3, HandlerFrame
  <2>1. CASE dpc \in {"exitBody", "close"} /\ (ExitBody \/ Close \/ Crash)
    <3>1. UNCHANGED <<result, code, proc, wrote>> BY <2>1 DEF ExitBody, Close, Crash
    <3>2. dpc' \in {"close", "closed", "reset", "crashed"} BY <2>1 DEF ExitBody, Close, Crash
    <3>3. dpc # "crashed" /\ (dpc' = "close" => dpc = "exitBody") BY <2>1 DEF ExitBody, Close, Crash
    <3>4. WroteExit' <=> WroteExit BY <3>1 DEF WroteExit
    <3> QED BY <1>0, <2>0, <2>1, <3>1, <3>2, <3>3, <3>4 DEF Settled, StatusIsResult, LastIs
  <2>2. CASE ExitHead
    <3>1. UNCHANGED <<result, code, proc>> /\ dpc = "exit" /\ dpc' = "exitBody"
          /\ wrote' = Append(wrote, Frame("exit", 0))
      BY <2>2 DEF ExitHead
    <3>2. LastIs(Frame("exit", 0))' /\ Len(wrote') = Len(wrote) + 1 /\ (WroteExit => WroteExit')
      BY <3>1, OneMore
    <3>3. Len(got') < Len(wrote')
      <4>1. Len(got) \in Nat /\ Len(wrote) \in Nat /\ Len(got) <= Len(wrote)
        BY DEF TypeOK, Stream
      <4> QED BY <2>0, <3>2, <4>1
    <3>4. status.from # "exit" /\ status.from = "eof" => kind = "stats"
      BY <3>1 DEF Settled, StatusIsResult
    <3>5. Settled' BY <2>0, <3>1, <3>2, <3>3 DEF Settled
    <3>6. StatusIsResult' BY <2>0, <3>1 DEF Settled, StatusIsResult
    <3> QED BY <3>5, <3>6
  <2>3. ASSUME dpc \in {"decode", "acquire", "write", "select", "streams", "stats", "statsBody",
                        "reply", "exit"},
               ~WroteExit',
               dpc' \in {"streams", "exit", "exitBody"} =>
                 \/ kind = "stats" \/ result'.error \/ result'.timedOut
                 \/ result'.code = code' /\ proc' = "exited",
               dpc' \in {"exitBody", "close", "closed"} => ~ClientOpen \/ kind \in {"stats", "control"}
        PROVE  Settled' /\ StatusIsResult'
    <3>1. ~WroteExit /\ status.from # "exit" BY <2>3 DEF Settled
    <3>2. status.from # "eof" \/ kind = "stats" BY <2>3 DEF StatusIsResult
    <3> QED BY <1>0, <2>0, <2>3, <3>1, <3>2 DEF Settled, StatusIsResult
  <2>4. CASE StatsHead \/ Reply
    <3>1. PICK f \in {Frame("reply", 0), Frame("stats", Len(wrote) + 1)} : wrote' = Append(wrote, f)
      BY <2>4 DEF StatsHead, Reply
    <3>2. f.type # "exit" BY DEF Frame
    <3>3. dpc \in {"stats", "reply"} /\ dpc' \in {"statsBody", "close"} BY <2>4 DEF StatsHead, Reply
    <3>4. ~WroteExit' BY <3>1, <3>2, <3>3, OneMore DEF Settled
    <3>5. kind \in {"stats", "control"} BY <3>3 DEF Roles
    <3> QED BY <2>3, <3>3, <3>4, <3>5
  <2>5. ASSUME wrote' = wrote,
               dpc \in {"decode", "acquire", "write", "select", "streams", "stats", "statsBody",
                        "reply", "exit"}
        PROVE  ~WroteExit'
    BY <2>5 DEF Settled, WroteExit
  <2>6. CASE Decode \/ Execute \/ PayloadWritten
    <3>1. /\ dpc \in {"decode", "acquire", "write"} /\ wrote' = wrote
          /\ dpc' \in {"acquire", "stats", "reply", "write", "select"}
      BY <2>6 DEF Decode, Execute, PayloadWritten
    <3> QED BY <2>3, <2>5, <3>1
  <2>7. CASE DecodeEOF
    BY <2>3, <2>5, <2>7 DEF DecodeEOF
  <2>8. CASE Reject \/ DecodeError \/ PayloadError
    <3>1. result'.error BY <2>8 DEF Reject, DecodeError, PayloadError, NoResult
    <3> QED BY <2>3, <2>5, <2>8, <3>1 DEF Reject, DecodeError, PayloadError
  <2>9. CASE SelectDone
    <3>1. result'.timedOut BY <2>9 DEF SelectDone, NoResult
    <3> QED BY <2>3, <2>5, <2>9, <3>1 DEF SelectDone
  <2>10. CASE SelectWait
    <3>1. result'.code = code BY <2>10 DEF SelectWait, NoResult
    <3>2. proc = "exited" BY <2>10 DEF SelectWait, Roles
    <3> QED BY <2>3, <2>5, <2>10, <3>1, <3>2 DEF SelectWait
  <2>11. CASE Streams
    <3>1. dpc = "streams" /\ dpc' = "exit" /\ UNCHANGED <<result, code, proc, wrote>>
      BY <2>11 DEF Streams
    <3>2. kind \in {"batch", "tty"} BY <3>1 DEF Roles
    <3>3. ASSUME ~result.error, ~result.timedOut PROVE result.code = code /\ proc = "exited"
      BY <3>1, <3>2, <3>3 DEF Settled
    <3>4. \/ kind = "stats" \/ result'.error \/ result'.timedOut
          \/ result'.code = code' /\ proc' = "exited"
      BY <3>1, <3>3, Zenon
    <3> QED BY <2>3, <2>5, <3>1, <3>4
  <2>12. CASE StatsBody \/ StatsEnd \/ StatsShutdown
    <3>1. dpc \in {"stats", "statsBody"} /\ wrote' = wrote
      BY <2>12 DEF StatsBody, StatsEnd, StatsShutdown
    <3>2. kind = "stats" BY <3>1 DEF Roles
    <3> QED BY <2>3, <2>5, <3>1, <3>2
  <2>13. CASE Crash /\ dpc \notin {"exitBody", "close"}
    <3>1. /\ wrote' = wrote /\ dpc' \in {"reset", "crashed"}
          /\ dpc \in {"decode", "acquire", "write", "select", "streams", "stats", "statsBody",
                      "reply", "exit"}
      BY <2>13 DEF Crash, DaemonOpen, TypeOK
    <3> QED BY <2>3, <2>5, <3>1
  <2>14. CASE ExitBody \/ Close BY <2>1, <2>14 DEF ExitBody, Close
  <2> QED BY <1>3, <2>1, <2>2, <2>4, <2>6, <2>7, <2>8, <2>9, <2>10, <2>11, <2>12, <2>13, <2>14
          DEF HandlerStep, Handler
<1>4. CASE WorkerStep
  <2>0. UNCHANGED <<kind, got, status, cpc, dpc, result>> BY <1>4, WorkerFrame
  <2>1. CASE ProcExit
    <3>1. proc # "exited" /\ wrote' = wrote BY <2>1 DEF ProcExit
    <3>2. WroteExit' <=> WroteExit BY <3>1 DEF WroteExit
    <3> QED BY <1>0, <2>0, <3>1, <3>2 DEF Settled, StatusIsResult, LastIs
  <2>2. ASSUME NEW s \in Outputs, OutputHead(s) PROVE Settled' /\ StatusIsResult'
    <3>1. dpc \in {"select", "streams"} BY <2>2, ReaderRuns DEF Reader
    <3>2. wrote' = Append(wrote, Frame(s, chunk[s])) /\ UNCHANGED <<code, proc>>
      BY <2>2 DEF OutputHead
    <3>3. Frame(s, chunk[s]).type # "exit" BY DEF Frame, Outputs
    <3>4. ~WroteExit /\ ~WroteExit' BY <3>1, <3>2, <3>3, OneMore DEF Settled
    <3> QED BY <2>0, <3>1, <3>2, <3>4 DEF Settled, StatusIsResult
  <2>3. CASE UNCHANGED <<wrote, code, proc>>
    <3>2. WroteExit' <=> WroteExit BY <2>3 DEF WroteExit
    <3> QED BY <1>0, <2>0, <2>3, <3>2 DEF Settled, StatusIsResult, LastIs
  <2> QED BY <1>4, <2>1, <2>2, <2>3
          DEF WorkerStep, Reader, Emit, ReadOutput, ReadOutputEnd, OutputBody, Wait, CtxDone
<1> QED BY <1>1, <1>2, <1>3, <1>4, Sides

-----------------------------------------------------------------------------
(* The output.                                                             *)

\* A frame of another type, and the next chunk.
LEMMA OtherWritten ==
    ASSUME TypeOK, NEW s \in Outputs, NEW n, Written(s, n),
           NEW f, f.type # s, wrote' = Append(wrote, f)
    PROVE  Written(s, n)'
<1>1. wrote \in Seq(Frames) /\ Len(wrote) \in Nat BY DEF TypeOK
<1>2. /\ Len(wrote') = Len(wrote) + 1 /\ wrote'[Len(wrote) + 1] = f
      /\ \A i \in 1..Len(wrote) : wrote'[i] = wrote[i]
  BY <1>1, AppendIs
<1>3. Len(wrote) \in Nat BY <1>1
<1>4. ASSUME NEW i \in 1..Len(wrote'), wrote'[i].type = s
      PROVE  /\ wrote'[i].n \in 1..n
             /\ \A k \in 1..(i - 1) : wrote'[k].type = s => wrote'[k].n < wrote'[i].n
             /\ wrote'[i].n > 1 => \E k \in 1..(i - 1) : wrote'[k] = Frame(s, wrote'[i].n - 1)
  <2>1. i \in 1..Len(wrote) BY <1>2, <1>3, <1>4
  <2>2. \A k \in 1..(i - 1) : k \in 1..Len(wrote) BY <1>3, <2>1
  <2>3. wrote'[i] = wrote[i] /\ \A k \in 1..(i - 1) : wrote'[k] = wrote[k]
    BY <1>2, <2>1, <2>2
  <2> QED BY <1>4, <2>1, <2>3 DEF Written
<1>5. n > 0 => \E i \in 1..Len(wrote') : wrote'[i] = Frame(s, n)
  BY <1>2, <1>3 DEF Written
<1> QED BY <1>4, <1>5 DEF Written
LEMMA NextWritten ==
    ASSUME TypeOK, NEW s \in Outputs, NEW n \in Nat, Written(s, n),
           wrote' = Append(wrote, Frame(s, n + 1))
    PROVE  Written(s, n + 1)'
<1>1. wrote \in Seq(Frames) BY DEF TypeOK
<1>2. /\ Len(wrote') = Len(wrote) + 1 /\ wrote'[Len(wrote) + 1] = Frame(s, n + 1)
      /\ \A i \in 1..Len(wrote) : wrote'[i] = wrote[i]
  BY <1>1, AppendIs
<1>3. Len(wrote) \in Nat BY <1>1
<1>4. Frame(s, n + 1).type = s /\ Frame(s, n + 1).n = n + 1 BY DEF Frame
<1>5. ASSUME NEW i \in 1..Len(wrote'), wrote'[i].type = s
      PROVE  /\ wrote'[i].n \in 1..(n + 1)
             /\ \A k \in 1..(i - 1) : wrote'[k].type = s => wrote'[k].n < wrote'[i].n
             /\ wrote'[i].n > 1 => \E k \in 1..(i - 1) : wrote'[k] = Frame(s, wrote'[i].n - 1)
  <2>1. \A k \in 1..(i - 1) : k \in 1..Len(wrote) BY <1>2, <1>3
  <2>2. \A k \in 1..(i - 1) : wrote'[k] = wrote[k] BY <1>2, <2>1
  <2>3. CASE i \in 1..Len(wrote)
    <3>1. wrote'[i] = wrote[i] BY <1>2, <2>3
    <3>2. wrote[i].n \in 1..n BY <1>5, <2>3, <3>1 DEF Written
    <3>3. wrote[i].n \in 1..(n + 1) BY <3>2
    <3> QED BY <1>5, <2>2, <2>3, <3>1, <3>3 DEF Written
  <2>4. CASE i = Len(wrote) + 1
    <3>1. wrote'[i].n = n + 1 BY <1>2, <1>4, <2>4
    <3>2. ASSUME NEW k \in 1..(i - 1), wrote'[k].type = s PROVE wrote'[k].n < n + 1
      <4>1. wrote[k].n \in 1..n BY <2>1, <2>2, <3>2 DEF Written
      <4> QED BY <2>2, <4>1
    <3>3. n > 0 => \E k \in 1..(i - 1) : wrote'[k] = Frame(s, n)
      <4>1. n > 0 => \E k \in 1..Len(wrote) : wrote[k] = Frame(s, n) BY DEF Written
      <4>2. i - 1 = Len(wrote) BY <1>3, <2>4
      <4> QED BY <2>2, <4>1, <4>2
    <3>4. (n + 1) - 1 = n /\ (n + 1 > 1 => n > 0) /\ n + 1 \in 1..(n + 1) OBVIOUS
    <3> QED BY <3>1, <3>2, <3>3, <3>4
  <2> QED BY <1>2, <1>3, <2>3, <2>4
<1>6. \E i \in 1..Len(wrote') : wrote'[i] = Frame(s, n + 1) BY <1>2, <1>3
<1> QED BY <1>5, <1>6 DEF Written

\* A stream nobody touches.
LEMMA ChunksFrame ==
    ASSUME NEW s \in Outputs, Piped(s), Written(s, Top(s)), UNCHANGED wrote,
           emitted'[s] = emitted[s], pipe'[s] = pipe[s], chunk'[s] = chunk[s],
           rpc'[s] = "head" <=> rpc[s] = "head"
    PROVE  Piped(s)' /\ Written(s, Top(s))'
<1>1. Piped(s)' BY DEF Piped
<1>2. Top(s)' = Top(s) BY DEF Top
<1>3. Written(s, Top(s))' BY <1>2 DEF Written
<1> QED BY <1>1, <1>3

LEMMA ChunksStep ==
    ASSUME TypeOK, Roles, Chunks, [Next]_vars
    PROVE  Chunks'
<1> USE DEF client, program, streams, input
<1>0. ASSUME NEW s \in Outputs PROVE Piped(s) /\ Written(s, Top(s)) BY DEF Chunks
<1>1. CASE UNCHANGED <<emitted, pipe, chunk, rpc, wrote>>
  BY <1>0, <1>1, ChunksFrame DEF Chunks
<1>2. ASSUME UNCHANGED <<emitted, pipe, chunk, rpc>>,
             NEW f, f.type \notin Outputs, wrote' = Append(wrote, f)
      PROVE  Chunks'
  <2>1. ASSUME NEW s \in Outputs PROVE Piped(s)' /\ Written(s, Top(s))'
    <3>1. PICK n : n = Top(s) OBVIOUS
    <3>2. Top(s)' = n BY <1>2, <3>1 DEF Top
    <3>3. Written(s, n)' BY <1>0, <1>2, <3>1, OtherWritten
    <3>4. Piped(s)' BY <1>0, <1>2 DEF Piped
    <3> QED BY <3>2, <3>3, <3>4 DEF Written
  <2> QED BY <2>1 DEF Chunks
<1>3. CASE HandlerStep
  <2>1. CASE Execute \/ PayloadWritten
    <3>1. UNCHANGED <<emitted, pipe, chunk, wrote>> BY <2>1 DEF Execute, PayloadWritten
    <3>2. \A s \in Outputs : rpc[s] # "head" /\ rpc'[s] # "head"
      BY <2>1 DEF Execute, PayloadWritten, Roles
    <3> QED BY <1>0, <3>1, <3>2, ChunksFrame DEF Chunks
  <2>2. CASE ExitHead \/ StatsHead \/ Reply
    <3>1. UNCHANGED <<emitted, pipe, chunk, rpc>> BY <2>2 DEF ExitHead, StatsHead, Reply
    <3>2. PICK f \in {Frame("exit", 0), Frame("reply", 0), Frame("stats", Len(wrote) + 1)} :
            wrote' = Append(wrote, f)
      BY <2>2 DEF ExitHead, StatsHead, Reply
    <3>3. f.type \notin Outputs BY DEF Frame, Outputs
    <3> QED BY <1>2, <3>1, <3>2, <3>3
  <2> QED BY <1>1, <1>3, <2>1, <2>2
          DEF HandlerStep, Handler, Decode, DecodeEOF, DecodeError, Reject, PayloadError,
          SelectDone, SelectWait, Streams,
              ExitBody, Close, StatsBody, StatsEnd, StatsShutdown, Crash
<1>4. ASSUME NEW s \in Outputs, Piped(s)' /\ Written(s, Top(s))',
             \A t \in Outputs \ {s} : Piped(t)' /\ Written(t, Top(t))'
      PROVE  Chunks'
  BY <1>4 DEF Chunks
<1>5. ASSUME NEW s \in Outputs, Emit(s) PROVE Chunks'
  <2>1. /\ emitted' = [emitted EXCEPT ![s] = emitted[s] + 1]
        /\ pipe' = [pipe EXCEPT ![s] = Append(pipe[s], emitted[s] + 1)]
        /\ UNCHANGED <<chunk, rpc, wrote>>
    BY <1>5 DEF Emit
  <2>2. \A t \in Outputs \ {s} : emitted'[t] = emitted[t] /\ pipe'[t] = pipe[t]
    BY <2>1 DEF TypeOK
  <2>3. \A t \in Outputs \ {s} : Piped(t)' /\ Written(t, Top(t))'
    BY <1>0, <2>1, <2>2, ChunksFrame
  <2>4. Written(s, Top(s))' BY <1>0, <2>1 DEF Written, Top
  <2>5. /\ pipe[s] \in Seq(1..MaxOut) /\ emitted'[s] = emitted[s] + 1
        /\ pipe'[s] = Append(pipe[s], emitted[s] + 1)
    BY <2>1 DEF TypeOK
  <2>6. /\ Len(pipe'[s]) = Len(pipe[s]) + 1 /\ pipe'[s][Len(pipe[s]) + 1] = emitted[s] + 1
        /\ \A i \in 1..Len(pipe[s]) : pipe'[s][i] = pipe[s][i]
    BY <2>5, AppendIs
  <2>7. Len(pipe[s]) \in Nat /\ chunk[s] \in Nat /\ emitted[s] \in Nat BY <2>5 DEF TypeOK
  <2>8. chunk'[s] = chunk[s] /\ rpc'[s] = rpc[s] /\ emitted'[s] = emitted[s] + 1
    BY <2>1, <2>5
  <2>9. chunk'[s] + Len(pipe'[s]) = emitted'[s] BY <1>0, <2>6, <2>7, <2>8 DEF Piped
  <2>10. ASSUME NEW i \in 1..Len(pipe'[s]) PROVE pipe'[s][i] = chunk'[s] + i
    <3>1. CASE i \in 1..Len(pipe[s]) BY <1>0, <2>6, <2>8, <3>1 DEF Piped
    <3>2. CASE i = Len(pipe[s]) + 1 BY <1>0, <2>6, <2>7, <2>8, <3>2 DEF Piped
    <3> QED BY <2>6, <2>7, <3>1, <3>2
  <2>11. Piped(s)' BY <1>0, <2>8, <2>9, <2>10 DEF Piped
  <2> QED BY <1>4, <2>3, <2>4, <2>11
<1>6. ASSUME NEW s \in Outputs, ReadOutput(s) PROVE Chunks'
  <2>1. /\ pipe[s] # <<>> /\ rpc[s] = "read"
        /\ chunk' = [chunk EXCEPT ![s] = Head(pipe[s])]
        /\ pipe' = [pipe EXCEPT ![s] = Tail(pipe[s])]
        /\ rpc' = [rpc EXCEPT ![s] = "head"]
        /\ UNCHANGED <<emitted, wrote>>
    BY <1>6 DEF ReadOutput
  <2>2. \A t \in Outputs \ {s} : chunk'[t] = chunk[t] /\ pipe'[t] = pipe[t] /\ rpc'[t] = rpc[t]
    BY <2>1 DEF TypeOK
  <2>3. \A t \in Outputs \ {s} : Piped(t)' /\ Written(t, Top(t))'
    BY <1>0, <2>1, <2>2, ChunksFrame
  <2>5. /\ pipe[s] \in Seq(1..MaxOut) /\ chunk'[s] = Head(pipe[s]) /\ rpc'[s] = "head"
        /\ pipe'[s] = Tail(pipe[s]) /\ chunk[s] \in Nat
    BY <2>1 DEF TypeOK
  <2>4. pipe[s] \in Seq(1..MaxOut) /\ pipe[s] # <<>> BY <2>1, <2>5
  <2>a. /\ Len(pipe[s]) \in Nat \ {0} /\ Len(Tail(pipe[s])) = Len(pipe[s]) - 1
        /\ Head(pipe[s]) = pipe[s][1]
        /\ \A i \in 1..(Len(pipe[s]) - 1) : Tail(pipe[s])[i] = pipe[s][i + 1]
    BY <2>4, TailIs
  <2>6. /\ Len(pipe[s]) \in Nat \ {0} /\ Len(pipe'[s]) = Len(pipe[s]) - 1
        /\ chunk'[s] = pipe[s][1]
        /\ \A i \in 1..(Len(pipe[s]) - 1) : pipe'[s][i] = pipe[s][i + 1]
    BY <2>5, <2>a
  <2>7. chunk[s] \in Nat /\ rpc[s] = "read" /\ rpc'[s] = "head" BY <2>1, <2>5
  <2>8. chunk'[s] = chunk[s] + 1 BY <1>0, <2>6 DEF Piped
  <2>9. Piped(s)'
    <3>1. chunk'[s] > 0 BY <2>7, <2>8
    <3>2. chunk'[s] + Len(pipe'[s]) = emitted'[s] BY <1>0, <2>1, <2>6, <2>7, <2>8 DEF Piped
    <3>3. ASSUME NEW i \in 1..Len(pipe'[s]) PROVE pipe'[s][i] = chunk'[s] + i
      <4>1. i \in 1..(Len(pipe[s]) - 1) /\ i + 1 \in 1..Len(pipe[s]) BY <2>6
      <4>2. pipe'[s][i] = pipe[s][i + 1] BY <2>6, <4>1
      <4>3. pipe[s][i + 1] = chunk[s] + (i + 1) BY <1>0, <4>1 DEF Piped
      <4> QED BY <2>7, <2>8, <4>1, <4>2, <4>3
    <3> QED BY <3>1, <3>2, <3>3 DEF Piped
  <2>10. Top(s)' = Top(s) BY <2>7, <2>8 DEF Top
  <2>11. Written(s, Top(s))' BY <1>0, <2>1, <2>10 DEF Written
  <2> QED BY <1>4, <2>3, <2>9, <2>11
<1>7. ASSUME NEW s \in Outputs, ReadOutputEnd(s) \/ OutputBody(s) PROVE Chunks'
  <2>1. UNCHANGED <<emitted, pipe, chunk, wrote>> BY <1>7 DEF ReadOutputEnd, OutputBody
  <2>2. \A t \in Outputs : rpc'[t] = "head" <=> rpc[t] = "head"
    BY <1>7 DEF ReadOutputEnd, OutputBody, TypeOK
  <2> QED BY <1>0, <2>1, <2>2, ChunksFrame DEF Chunks
<1>8. ASSUME NEW s \in Outputs, OutputHead(s) PROVE Chunks'
  <2>1. /\ rpc[s] = "head" /\ rpc' = [rpc EXCEPT ![s] = "body"]
        /\ wrote' = Append(wrote, Frame(s, chunk[s]))
        /\ UNCHANGED <<emitted, pipe, chunk>>
    BY <1>8 DEF OutputHead
  <2>2. rpc'[s] = "body" /\ chunk[s] \in Nat /\ \A t \in Outputs \ {s} : rpc'[t] = rpc[t]
    BY <2>1 DEF TypeOK
  <2>3. ASSUME NEW t \in Outputs \ {s} PROVE Piped(t)' /\ Written(t, Top(t))'
    <3>1. PICK n : n = Top(t) OBVIOUS
    <3>2. Top(t)' = n BY <2>1, <2>2, <3>1 DEF Top
    <3>3. Frame(s, chunk[s]).type # t BY DEF Frame
    <3>4. Written(t, n)' BY <1>0, <2>1, <3>1, <3>3, OtherWritten
    <3>5. Piped(t)' BY <1>0, <2>1, <2>2 DEF Piped
    <3> QED BY <3>2, <3>4, <3>5 DEF Written
  <2>4. Piped(s)' BY <1>0, <2>1, <2>2 DEF Piped
  <2>5. PICK n \in Nat : n + 1 = chunk[s]
    <3>1. chunk[s] > 0 BY <1>0, <2>1 DEF Piped
    <3> QED BY <2>2, <3>1
  <2>6. Top(s) = n /\ Top(s)' = n + 1 BY <2>1, <2>2, <2>5 DEF Top
  <2>7. Written(s, n + 1)' BY <1>0, <2>1, <2>5, <2>6, NextWritten
  <2>8. Written(s, Top(s))' BY <2>6, <2>7 DEF Written
  <2> QED BY <1>4, <2>3, <2>4, <2>8
<1>9. CASE WorkerStep
  BY <1>1, <1>5, <1>6, <1>7, <1>8, <1>9 DEF WorkerStep, Reader, ProcExit, Wait, CtxDone
<1>10. CASE ClientStep \/ InputStep \/ UNCHANGED vars
  BY <1>1, <1>10, ClientFrame, InputFrame DEF vars
<1> QED BY <1>3, <1>9, <1>10, Sides

-----------------------------------------------------------------------------
(* The input.                                                              *)

LEMMA AskingStep ==
    ASSUME TypeOK, Asking, [Next]_vars
    PROVE  Asking'
<1> USE DEF client, program, streams, input
<1>1. CASE SendRequest
  <2>1. up'[1].part = "json" /\ up' # <<>> BY <1>1 DEF SendRequest, Piece
  <2>2. cpc' # "send" /\ UNCHANGED <<dpc, ahead, fwant, applied, fpc, begun>>
    BY <1>1 DEF SendRequest
  <2> QED BY <2>1, <2>2 DEF Asking
<1>2. ASSUME NEW w \in Writers, InputHead(w) \/ InputBody(w) PROVE Asking'
  <2>1. /\ ClientOpen /\ cpc # "send" /\ cpc' # "send"
        /\ UNCHANGED <<dpc, ahead, fwant, applied, fpc>>
    <3>1. CASE InputHead(w) BY <3>1 DEF InputHead, ClientOpen
    <3>2. CASE InputBody(w)
      <4>1. cpc # "send" BY <3>2 DEF InputBody, Asking
      <4> QED BY <3>2, <4>1 DEF InputBody, ClientOpen
    <3> QED BY <1>2, <3>1, <3>2
  <2>2. PICK p : up' = Append(up, p) BY <1>2 DEF InputHead, InputBody
  <2>3. up \in Seq(Pieces) BY DEF TypeOK
  <2>4. up' # <<>> /\ \A i \in 1..Len(up) : up'[i] = up[i] BY <2>2, <2>3, AppendIs
  <2>5. up # <<>> => 1 \in 1..Len(up) BY <2>3
  <2>6. dpc = "decode" => up # <<>> BY <2>1 DEF Asking
  <2>7. dpc = "decode" => up'[1].part = "json" BY <2>4, <2>5, <2>6 DEF Asking
  <2>8. \A i \in 1..Len(begun') : begun'[i].type # "garbled"
    <3>1. CASE InputBody(w) BY <3>1 DEF InputBody, Asking
    <3>2. CASE InputHead(w)
      <4>1. PICK f : f = Frame(w, wcnt[w] + 1) /\ begun' = Append(begun, f)
        BY <3>2 DEF InputHead
      <4>2. f.type # "garbled" BY <4>1 DEF Frame, Writers
      <4>3. begun \in Seq(Frames) BY DEF TypeOK
      <4>4. /\ Len(begun') = Len(begun) + 1 /\ begun'[Len(begun) + 1] = f
            /\ \A i \in 1..Len(begun) : begun'[i] = begun[i]
        BY <4>1, <4>3, AppendIs
      <4>5. Len(begun) \in Nat BY <4>3
      <4> QED BY <4>2, <4>4, <4>5 DEF Asking
    <3> QED BY <1>2, <3>1, <3>2
  <2> QED BY <2>1, <2>4, <2>7, <2>8 DEF Asking
<1>3. CASE SendError \/ ReadHead \/ ReadBody \/ ReadReply \/ ReadEOF \/ ReadError \/ Vanish
           \/ ResizeError
  <2>1. UNCHANGED <<up, dpc, ahead, fwant, applied, fpc, begun>>
    BY <1>3 DEF SendError, ReadHead, ReadBody, ReadReply, ReadEOF, ReadError, Vanish, ResizeError
  <2>2. /\ cpc' # "send" /\ dpc = "decode" /\ cpc = "send" => ~ClientOpen'
        /\ dpc = "decode" /\ ~ClientOpen => ~ClientOpen'
    BY <1>3 DEF SendError, ReadHead, ReadBody, ReadReply, ReadEOF, ReadError, Vanish,
                ResizeError, Return, ClientOpen, DaemonOpen
  <2>3. cpc' # "send"
    BY <1>3 DEF SendError, ReadHead, ReadBody, ReadReply, ReadEOF, ReadError, Vanish,
                ResizeError, Return
  <2> QED BY <2>1, <2>2, <2>3 DEF Asking
<1>4. CASE HandlerStep
  <2>1. UNCHANGED <<cpc, wpc, begun>> BY <1>4, HandlerFrame
  <2>2. CASE Decode
    <3>1. cpc # "send" BY <2>2 DEF Decode, Asking
    <3>2. dpc' # "decode" /\ UNCHANGED <<fwant, applied, fpc>> /\ dpc = "decode"
      BY <2>2 DEF Decode
    <3> QED BY <2>1, <3>1, <3>2 DEF Asking
  <2>3. CASE Crash
    <3>1. dpc' \in {"crashed", "reset"} /\ up' = up BY <2>3 DEF Crash
    <3> QED BY <2>1, <3>1 DEF Asking
  <2>4. ASSUME dpc' \notin {"decode", "acquire"}, dpc \notin {"reset", "crashed"},
               dpc = "decode" => ~ClientOpen
        PROVE  Asking'
    <3>1. cpc # "send" BY <2>4 DEF Asking, ClientOpen
    <3> QED BY <2>1, <2>4, <3>1 DEF Asking
  <2>5. CASE DecodeEOF BY <2>4, <2>5 DEF DecodeEOF
  <2>6. CASE Execute \/ Reject \/ SelectDone \/ SelectWait \/ Streams \/ Reply
    BY <2>4, <2>6 DEF Execute, Reject, SelectDone, SelectWait, Streams, Reply
  <2>8. CASE DecodeError \/ PayloadError \/ PayloadWritten
    BY <2>4, <2>8 DEF DecodeError, PayloadError, PayloadWritten
  <2>7. CASE ExitHead \/ ExitBody \/ Close \/ StatsBody \/ StatsHead \/ StatsEnd \/ StatsShutdown
    BY <2>4, <2>7 DEF ExitHead, ExitBody, Close, StatsBody, StatsHead, StatsEnd, StatsShutdown
  <2> QED BY <1>4, <2>2, <2>3, <2>5, <2>6, <2>7, <2>8 DEF HandlerStep, Handler
<1>5. CASE WorkerStep
  <2>1. UNCHANGED <<up, client, dpc, input>> BY <1>5, WorkerFrame
  <2>2. ClientOpen' <=> ClientOpen BY <2>1 DEF ClientOpen
  <2> QED BY <2>1, <2>2 DEF Asking
<1>6. CASE InputStep
  <2>1. UNCHANGED <<client, dpc, ahead>> BY <1>6, InputFrame
  <2>2. fpc = "on" /\ (up # <<>> \/ up' = up)
    BY <1>6 DEF InputStep, InputFrameHead, InputFrameBody, InputFrameEnd
  <2>3. dpc \notin {"decode", "acquire"} BY <2>2 DEF Asking
  <2>4. cpc = "send" => up = <<>> /\ up' = <<>> BY <2>2 DEF Asking
  <2> QED BY <2>1, <2>3, <2>4 DEF Asking
<1>7. CASE UNCHANGED vars
  <2>1. ClientOpen' <=> ClientOpen BY <1>7 DEF vars, ClientOpen
  <2> QED BY <1>7, <2>1 DEF vars, Asking
<1> QED BY <1>1, <1>2, <1>3, <1>4, <1>5, <1>6, <1>7, Sides DEF ClientStep, Client

\* What an input writer puts into the socket when none interferes.
LEMMA PieceSent ==
    ASSUME TypeOK, Typed, NEW w \in Writers, InputHead(w) \/ InputBody(w), ~mixed'
    PROVE  /\ ~mixed /\ Pieced' = Pieced + 1 /\ Len(up') = Len(up) + 1
           /\ \A i \in 1..Len(up) : up'[i] = up[i]
           /\ Len(begun) <= Len(begun') /\ \A j \in 1..Len(begun) : begun'[j] = begun[j]
           /\ \E j \in 1..Len(begun') :
                /\ up'[Len(up) + 1].of = begun'[j]
                /\ \/ up'[Len(up) + 1].part = "head" /\ Pieced + 1 = 2 * j - 1
                   \/ up'[Len(up) + 1].part = "body" /\ Pieced + 1 = 2 * j
           /\ \A v \in Writers : wpc'[v] = "body" =>
                begun' # <<>> /\ begun'[Len(begun')] = Frame(v, wcnt'[v])
           /\ \A u, v \in Writers : wpc'[u] = "body" /\ wpc'[v] = "body" => u = v
<1>1. ~mixed BY DEF InputHead, InputBody
<1>2. up \in Seq(Pieces) /\ begun \in Seq(Frames) BY DEF TypeOK
<1>3. Len(up) \in Nat /\ Len(begun) \in Nat BY <1>2
<1>4. CASE InputHead(w)
  <2>1. PICK f : /\ f = Frame(w, wcnt[w] + 1)
                 /\ up' = Append(up, Piece("head", f)) /\ begun' = Append(begun, f)
    BY <1>4 DEF InputHead
  <2>2. /\ Len(up') = Len(up) + 1 /\ up'[Len(up) + 1] = Piece("head", f)
        /\ \A i \in 1..Len(up) : up'[i] = up[i]
    BY <1>2, <2>1, AppendIs
  <2>3. /\ Len(begun') = Len(begun) + 1 /\ begun'[Len(begun) + 1] = f /\ begun' # <<>>
        /\ \A i \in 1..Len(begun) : begun'[i] = begun[i]
    BY <1>2, <2>1, AppendIs
  <2>4. \A v \in Writers : wpc[v] # "body" BY <1>4 DEF InputHead
  <2>5. wpc'[w] = "body" /\ wcnt'[w] = wcnt[w] + 1 /\ \A v \in Writers \ {w} : wpc'[v] # "body"
    <3>1. wpc' = [wpc EXCEPT ![w] = "body"] /\ wcnt' = [wcnt EXCEPT ![w] = wcnt[w] + 1]
      BY <1>4 DEF InputHead
    <3>2. wpc \in [Writers -> {"head", "body"}] /\ wcnt \in [Writers -> 0..MaxIn] BY DEF TypeOK
    <3> QED BY <2>4, <3>1, <3>2
  <2>6. HalfInput = 0 /\ HalfInput' = 1 BY <2>4, <2>5 DEF HalfInput
  <2>7. Pieced = 2 * Len(begun) /\ Pieced' = 2 * Len(begun) + 1
    BY <1>3, <2>3, <2>6 DEF Pieced
  <2>8. Piece("head", f).part = "head" /\ Piece("head", f).of = f BY DEF Piece
  <2>9. PICK j \in 1..Len(begun') : j = Len(begun) + 1 BY <1>3, <2>3
  <2>10. /\ up'[Len(up) + 1].of = begun'[j] /\ up'[Len(up) + 1].part = "head"
         /\ Pieced + 1 = 2 * j - 1
    BY <1>3, <2>2, <2>3, <2>7, <2>8, <2>9
  <2>11. Pieced' = Pieced + 1 /\ Len(begun) <= Len(begun') BY <1>3, <2>3, <2>7
  <2>12. \A v \in Writers : wpc'[v] = "body" =>
           begun' # <<>> /\ begun'[Len(begun')] = Frame(v, wcnt'[v])
    BY <2>1, <2>3, <2>5
  <2> QED BY <1>1, <2>2, <2>3, <2>5, <2>10, <2>11, <2>12
<1>5. CASE InputBody(w)
  <2>1. /\ wpc[w] = "body" /\ up' = Append(up, Piece("body", Frame(w, wcnt[w])))
        /\ wpc' = [wpc EXCEPT ![w] = "head"] /\ UNCHANGED <<begun, wcnt>>
    BY <1>5 DEF InputBody
  <2>2. PICK f : f = Frame(w, wcnt[w]) OBVIOUS
  <2>3. /\ Len(up') = Len(up) + 1 /\ up'[Len(up) + 1] = Piece("body", f)
        /\ \A i \in 1..Len(up) : up'[i] = up[i]
    BY <1>2, <2>1, <2>2, AppendIs
  <2>4. begun # <<>> /\ begun[Len(begun)] = f BY <1>1, <2>1, <2>2 DEF Typed
  <2>5. \A v \in Writers : wpc'[v] # "body"
    <3>1. wpc \in [Writers -> {"head", "body"}] BY DEF TypeOK
    <3>2. \A v \in Writers \ {w} : wpc[v] # "body" BY <1>1, <2>1 DEF Typed
    <3> QED BY <2>1, <3>1, <3>2
  <2>6. HalfInput = 1 /\ HalfInput' = 0 BY <2>1, <2>5 DEF HalfInput
  <2>7. Pieced = 2 * Len(begun) - 1 /\ Pieced' = 2 * Len(begun)
    BY <1>3, <2>1, <2>6 DEF Pieced
  <2>8. Piece("body", f).part = "body" /\ Piece("body", f).of = f BY DEF Piece
  <2>9. Len(begun) \in 1..Len(begun) BY <1>2, <2>4
  <2>10. /\ up'[Len(up) + 1].of = begun'[Len(begun)] /\ up'[Len(up) + 1].part = "body"
         /\ Pieced + 1 = 2 * Len(begun)
    BY <1>3, <2>1, <2>3, <2>4, <2>7, <2>8
  <2>11. Pieced' = Pieced + 1 /\ Len(begun) <= Len(begun') BY <1>3, <2>1, <2>7
  <2> QED BY <1>1, <2>1, <2>3, <2>5, <2>9, <2>10, <2>11
<1> QED BY <1>4, <1>5

\* A piece keeps its place.
LEMMA PieceKept ==
    ASSUME TypeOK, NEW i, NEW m, NEW k, InputInPlace(m, k), up'[i] = up[m],
           Len(begun) <= Len(begun'), \A j \in 1..Len(begun) : begun'[j] = begun[j], TypeOK'
    PROVE  InputInPlace(i, k)'
<1>1. Len(begun) \in Nat /\ Len(begun') \in Nat BY DEF TypeOK
<1>2. \A j \in 1..Len(begun) : j \in 1..Len(begun') BY <1>1
<1> QED BY <1>2 DEF InputInPlace

LEMMA TypedStep ==
    ASSUME TypeOK, TypeOK', Asking, Typed, [Next]_vars
    PROVE  Typed'
<1> USE DEF client, program, streams, input
<1>1. ASSUME UNCHANGED <<wpc, wcnt, begun, mixed>>,
             dpc' = "decode" => dpc = "decode" /\ up' = up
      PROVE  Typed'
  <2>1. Pieced' = Pieced BY <1>1 DEF Pieced, HalfInput
  <2> QED BY <1>1, <2>1 DEF Typed, InputInPlace
<1>2. ASSUME NEW w \in Writers, InputHead(w) \/ InputBody(w) PROVE Typed'
  <2> SUFFICES ASSUME ~mixed' PROVE Typed' BY DEF Typed
  <2>1. /\ ~mixed /\ Pieced' = Pieced + 1 /\ Len(up') = Len(up) + 1
        /\ \A i \in 1..Len(up) : up'[i] = up[i]
        /\ Len(begun) <= Len(begun') /\ \A j \in 1..Len(begun) : begun'[j] = begun[j]
    BY <1>2, PieceSent
  <2>2. \E j \in 1..Len(begun') :
          /\ up'[Len(up) + 1].of = begun'[j]
          /\ \/ up'[Len(up) + 1].part = "head" /\ Pieced + 1 = 2 * j - 1
             \/ up'[Len(up) + 1].part = "body" /\ Pieced + 1 = 2 * j
    BY <1>2, PieceSent
  <2>3. /\ \A v \in Writers : wpc'[v] = "body" =>
             begun' # <<>> /\ begun'[Len(begun')] = Frame(v, wcnt'[v])
        /\ \A u, v \in Writers : wpc'[u] = "body" /\ wpc'[v] = "body" => u = v
    BY <1>2, PieceSent
  <2>4. Len(up) \in Nat BY DEF TypeOK
  <2>5. ASSUME dpc' = "decode" /\ up' # <<>>
        PROVE  Len(up') = (Pieced + 1)' /\ \A i \in 2..Len(up') : InputInPlace(i, i - 1)'
    <3>1. ClientOpen /\ cpc # "send" /\ dpc = "decode"
      <4>1. CASE InputHead(w) BY <2>5, <4>1 DEF InputHead, ClientOpen
      <4>2. CASE InputBody(w) BY <2>5, <4>2 DEF InputBody, Asking
      <4> QED BY <1>2, <4>1, <4>2
    <3>2. up # <<>> BY <3>1 DEF Asking
    <3>3. Len(up) = Pieced + 1 /\ \A i \in 2..Len(up) : InputInPlace(i, i - 1)
      BY <2>1, <3>1, <3>2 DEF Typed
    <3>4. ASSUME NEW i \in 2..Len(up') PROVE InputInPlace(i, i - 1)'
      <4>1. CASE i \in 2..Len(up)
        <5>1. i \in 1..Len(up) BY <2>4, <4>1
        <5>2. PICK k : k = i - 1 OBVIOUS
        <5>3. InputInPlace(i, k) /\ up'[i] = up[i] BY <2>1, <3>3, <4>1, <5>1, <5>2
        <5>4. InputInPlace(i, k)' BY <2>1, <5>3, PieceKept
        <5> QED BY <5>2, <5>4
      <4>2. CASE i = Len(up) + 1
        <5>1. i - 1 = Pieced + 1 BY <2>4, <3>3, <4>2
        <5> QED BY <2>2, <4>2, <5>1 DEF InputInPlace
      <4> QED BY <2>1, <2>4, <4>1, <4>2
    <3>5. Len(up') = Pieced' + 1 BY <2>1, <3>3
    <3> QED BY <3>4, <3>5
  <2> QED BY <2>3, <2>5 DEF Typed
<1>3. CASE SendRequest
  <2>1. up' = <<Piece("json", Frame("request", 0))>> /\ UNCHANGED <<wpc, wcnt, begun, mixed, dpc>>
    BY <1>3 DEF SendRequest
  <2>2. Len(up') = 1 BY <2>1
  <2>3. begun = <<>> /\ \A w \in Writers : wpc[w] = "head" BY <1>3 DEF SendRequest, Asking
  <2>4. Pieced' = 0
    <3>1. HalfInput' = 0 /\ Len(begun') = 0 BY <2>1, <2>3 DEF HalfInput
    <3> QED BY <3>1 DEF Pieced
  <2>5. 2..Len(up') = {} BY <2>2
  <2>6. Len(up') = (Pieced + 1)' BY <2>2, <2>4
  <2> QED BY <2>1, <2>3, <2>5, <2>6 DEF Typed
<1>4. CASE SendError \/ ReadHead \/ ReadBody \/ ReadReply \/ ReadEOF \/ ReadError \/ Vanish
           \/ ResizeError
  BY <1>1, <1>4 DEF SendError, ReadHead, ReadBody, ReadReply, ReadEOF, ReadError, Vanish,
                    ResizeError
<1>5. CASE HandlerStep
  <2>1. UNCHANGED <<wpc, wcnt, begun, mixed>> BY <1>5, HandlerFrame
  <2>2. dpc' # "decode"
    BY <1>5 DEF HandlerStep, Handler, Decode, DecodeEOF, DecodeError, Execute, Reject, PayloadError,
         PayloadWritten, SelectDone, SelectWait,
                Streams, ExitHead, ExitBody, Close, Reply, StatsBody, StatsHead, StatsEnd,
                StatsShutdown, Crash
  <2> QED BY <1>1, <2>1, <2>2
<1>6. CASE WorkerStep BY <1>1, <1>6, WorkerFrame
<1>7. CASE InputStep
  <2>1. UNCHANGED <<client, dpc>> BY <1>7, InputFrame
  <2>2. dpc # "decode"
    BY <1>7 DEF InputStep, InputFrameHead, InputFrameBody, InputFrameEnd, Asking
  <2> QED BY <1>1, <2>1, <2>2
<1>8. CASE UNCHANGED vars BY <1>1, <1>8 DEF vars
<1> QED BY <1>2, <1>3, <1>4, <1>5, <1>6, <1>7, <1>8, Sides DEF ClientStep, Client

\* Nothing of the input moves, but the terminal may close and the reader stop.
LEMMA AppliedFrame ==
    ASSUME Applied, UNCHANGED <<up, wpc, begun, mixed, fwant, applied, ahead>>,
           fpc' = "lost" => fpc = "lost", shut => shut',
           dpc' = "acquire" \/ fpc' = "on" => dpc = "acquire" \/ fpc = "on"
    PROVE  Applied'
<1>1. Pieced' = Pieced /\ Wanting' = Wanting BY DEF Pieced, HalfInput, Wanting
<1>2. ASSUME NEW i, NEW k, InputInPlace(i, k) PROVE InputInPlace(i, k)'
  BY <1>2 DEF InputInPlace
<1> SUFFICES ASSUME ~ahead', ~mixed' PROVE Applied' BY DEF Applied
<1>3. /\ fpc' # "lost"
      /\ Len(applied') <= Len(begun') /\ \A i \in 1..Len(applied') : applied'[i] = begun'[i]
  BY DEF Applied
<1>4. ASSUME dpc' = "acquire" \/ fpc' = "on"
      PROVE  /\ ~shut' => 2 * Len(applied') + Wanting' = Pieced' - Len(up')
             /\ \A i \in 1..Len(up') : InputInPlace(i, Pieced - Len(up) + i)'
             /\ fwant' # NoFrame => \E j \in 1..Len(begun') :
                  fwant' = begun'[j] /\ Pieced' - Len(up') = 2 * j - 1
             /\ fwant' = NoFrame => \E j \in 0..Len(begun') : Pieced' - Len(up') = 2 * j
  <2>1. /\ ~shut => 2 * Len(applied) + Wanting = Pieced - Len(up)
        /\ \A i \in 1..Len(up) : InputInPlace(i, Pieced - Len(up) + i)
        /\ fwant # NoFrame => \E j \in 1..Len(begun) :
             fwant = begun[j] /\ Pieced - Len(up) = 2 * j - 1
        /\ fwant = NoFrame => \E j \in 0..Len(begun) : Pieced - Len(up) = 2 * j
    BY <1>4 DEF Applied
  <2>2. \A i \in 1..Len(up') : InputInPlace(i, Pieced - Len(up) + i)'
    BY <1>1, <2>1 DEF InputInPlace
  <2> QED BY <1>1, <2>1, <2>2
<1> QED BY <1>3, <1>4 DEF Applied

\* The invariant, one piece further: the writer's new piece has its place.
LEMMA AppliedSent ==
    ASSUME TypeOK, TypeOK', Asking, Typed, Applied,
           NEW w \in Writers, InputHead(w) \/ InputBody(w)
    PROVE  Applied'
<1> SUFFICES ASSUME ~ahead', ~mixed' PROVE Applied' BY DEF Applied
<1>1. /\ ~mixed /\ Pieced' = Pieced + 1 /\ Len(up') = Len(up) + 1
      /\ \A i \in 1..Len(up) : up'[i] = up[i]
      /\ Len(begun) <= Len(begun') /\ \A j \in 1..Len(begun) : begun'[j] = begun[j]
  BY PieceSent
<1>2. \E j \in 1..Len(begun') :
        /\ up'[Len(up) + 1].of = begun'[j]
        /\ \/ up'[Len(up) + 1].part = "head" /\ Pieced + 1 = 2 * j - 1
           \/ up'[Len(up) + 1].part = "body" /\ Pieced + 1 = 2 * j
  BY PieceSent
<1>3. UNCHANGED <<dpc, shut, fpc, fwant, applied, ahead>>
  BY DEF InputHead, InputBody, streams, input
<1>4. /\ Len(up) \in Nat /\ Len(begun) \in Nat /\ Len(begun') \in Nat /\ Len(applied) \in Nat
      /\ Pieced \in Int /\ Wanting' = Wanting
  BY <1>3 DEF TypeOK, Pieced, HalfInput, Wanting
<1>5. /\ fpc' # "lost"
      /\ Len(applied') <= Len(begun') /\ \A i \in 1..Len(applied') : applied'[i] = begun'[i]
  <2>1. /\ fpc # "lost" /\ Len(applied) <= Len(begun)
        /\ \A i \in 1..Len(applied) : applied[i] = begun[i]
    BY <1>1, <1>3 DEF Applied
  <2>2. \A i \in 1..Len(applied) : i \in 1..Len(begun) BY <1>4, <2>1
  <2> QED BY <1>1, <1>3, <1>4, <2>1, <2>2
<1>6. Pieced' - Len(up') = Pieced - Len(up) BY <1>1, <1>4
<1>7. ASSUME dpc' = "acquire" \/ fpc' = "on"
      PROVE  /\ ~shut' => 2 * Len(applied') + Wanting' = Pieced' - Len(up')
             /\ \A i \in 1..Len(up') : InputInPlace(i, Pieced - Len(up) + i)'
             /\ fwant' # NoFrame => \E j \in 1..Len(begun') :
                  fwant' = begun'[j] /\ Pieced' - Len(up') = 2 * j - 1
             /\ fwant' = NoFrame => \E j \in 0..Len(begun') : Pieced' - Len(up') = 2 * j
  <2>1. /\ ~shut => 2 * Len(applied) + Wanting = Pieced - Len(up)
        /\ \A i \in 1..Len(up) : InputInPlace(i, Pieced - Len(up) + i)
        /\ fwant # NoFrame => \E j \in 1..Len(begun) :
             fwant = begun[j] /\ Pieced - Len(up) = 2 * j - 1
        /\ fwant = NoFrame => \E j \in 0..Len(begun) : Pieced - Len(up) = 2 * j
    BY <1>1, <1>3, <1>7 DEF Applied
  <2>2. ASSUME NEW i \in 1..Len(up') PROVE InputInPlace(i, Pieced - Len(up) + i)'
    <3>1. CASE i \in 1..Len(up)
      <4>1. PICK k : k = Pieced - Len(up) + i OBVIOUS
      <4>2. InputInPlace(i, k) /\ up'[i] = up[i] BY <1>1, <2>1, <3>1, <4>1
      <4>3. InputInPlace(i, k)' BY <1>1, <4>2, PieceKept
      <4>4. Pieced' - Len(up') + i = k BY <1>6, <4>1
      <4> QED BY <4>3, <4>4 DEF InputInPlace
    <3>2. CASE i = Len(up) + 1
      <4>1. Pieced' - Len(up') + i = Pieced + 1 BY <1>4, <1>6, <3>2
      <4> QED BY <1>2, <3>2, <4>1 DEF InputInPlace
    <3> QED BY <1>1, <1>4, <3>1, <3>2
  <2>3. fwant' # NoFrame => \E j \in 1..Len(begun') :
          fwant' = begun'[j] /\ Pieced' - Len(up') = 2 * j - 1
    <3>1. \A j \in 1..Len(begun) : j \in 1..Len(begun') BY <1>1, <1>4
    <3> QED BY <1>1, <1>3, <1>6, <2>1, <3>1
  <2>4. fwant' = NoFrame => \E j \in 0..Len(begun') : Pieced' - Len(up') = 2 * j
    <3>1. \A j \in 0..Len(begun) : j \in 0..Len(begun') BY <1>1, <1>4
    <3> QED BY <1>3, <1>6, <2>1, <3>1
  <2> QED BY <1>3, <1>4, <1>6, <2>1, <2>2, <2>3, <2>4
<1> QED BY <1>5, <1>7 DEF Applied

\* The decoder takes the request and nothing behind it.
LEMMA AppliedDecode ==
    ASSUME TypeOK, TypeOK', Asking, Typed, Applied, Decode
    PROVE  Applied'
<1> SUFFICES ASSUME ~ahead', ~mixed' PROVE Applied' BY DEF Applied
<1>1. /\ dpc = "decode" /\ up # <<>> /\ up' = SubSeq(up, 2, Len(up))
      /\ UNCHANGED <<wpc, begun, mixed, fpc, fwant, applied>>
  <2>1. PICK n \in 1..Len(up) : up' = SubSeq(up, n + 1, Len(up)) /\ ahead' = (n > 1)
    BY DEF Decode
  <2>2. Len(up) \in Nat BY DEF TypeOK
  <2>3. ~(n > 1) BY <2>1, Zenon
  <2>4. n = 1 BY <2>2, <2>3
  <2> QED BY <2>1, <2>4 DEF Decode, client
<1>2. up \in Seq(Pieces) BY DEF TypeOK
<1>3. /\ Len(up') = Len(up) - 1 /\ \A i \in 1..(Len(up) - 1) : up'[i] = up[i + 1]
      /\ Len(up) \in Nat \ {0}
  BY <1>1, <1>2
<1>4. /\ Len(up) = Pieced + 1 /\ \A i \in 2..Len(up) : InputInPlace(i, i - 1)
      /\ fwant' = NoFrame /\ applied' = <<>> /\ fpc' = "off"
  BY <1>1 DEF Typed, Asking
<1>5. Pieced' = Pieced /\ Pieced \in Int
  BY <1>1 DEF Pieced, HalfInput, TypeOK
<1>6. Pieced' - Len(up') = 0 BY <1>3, <1>4, <1>5
<1>7. ASSUME NEW i \in 1..Len(up') PROVE InputInPlace(i, Pieced - Len(up) + i)'
  <2>1. i + 1 \in 2..Len(up) /\ i \in 1..(Len(up) - 1) /\ (i + 1) - 1 = i BY <1>3
  <2>2. PICK m : m = i + 1 OBVIOUS
  <2>3. InputInPlace(m, i) /\ up'[i] = up[m] BY <1>3, <1>4, <2>1, <2>2
  <2>4. Len(begun') = Len(begun) /\ \A j \in 1..Len(begun) : begun'[j] = begun[j] BY <1>1
  <2>5. Len(begun) <= Len(begun')
    <3>1. Len(begun) \in Nat BY DEF TypeOK
    <3> QED BY <2>4, <3>1
  <2>6. InputInPlace(i, i)' BY <2>3, <2>4, <2>5, PieceKept
  <2>7. Pieced' - Len(up') + i = i BY <1>6, <2>1
  <2> QED BY <2>6, <2>7 DEF InputInPlace
<1>8. Len(applied') = 0 /\ Wanting' = 0 BY <1>4 DEF Wanting
<1>9. Len(begun') \in Nat BY DEF TypeOK
<1>10. \E j \in 0..Len(begun') : Pieced' - Len(up') = 2 * j BY <1>6, <1>9
<1>11. 2 * Len(applied') + Wanting' = Pieced' - Len(up') BY <1>6, <1>8
<1>12. /\ Len(applied') <= Len(begun') /\ \A i \in 1..Len(applied') : applied'[i] = begun'[i]
  BY <1>8, <1>9
<1>13. fpc' # "lost" /\ fwant' = NoFrame BY <1>4
<1> QED BY <1>7, <1>10, <1>11, <1>12, <1>13 DEF Applied

\* What the reader of input frames finds first: after an even number of pieces
\* a header, after an odd number the payload of the header before it.
LEMMA FirstPiece ==
    ASSUME TypeOK, Asking, Applied, ~ahead, ~mixed, fpc = "on", up # <<>>
    PROVE  /\ Pieced \in Int /\ Len(up) \in Nat \ {0}
           /\ fwant = NoFrame => \E j \in 1..Len(begun) :
                /\ Head(up).part = "head" /\ Head(up).of = begun[j]
                /\ Pieced - Len(up) + 1 = 2 * j - 1
           /\ fwant # NoFrame => \E j \in 1..Len(begun) :
                /\ Head(up) = Piece("body", fwant) /\ fwant = begun[j]
                /\ Pieced - Len(up) + 1 = 2 * j
<1>1. up \in Seq(Pieces) BY DEF TypeOK
<1>2. Len(up) \in Nat \ {0} /\ Head(up) = up[1] BY <1>1, TailIs
<1>3. Len(begun) \in Nat /\ Pieced \in Int BY DEF TypeOK, Pieced, HalfInput
<1>4. InputInPlace(1, Pieced - Len(up) + 1) BY <1>2 DEF Applied
<1>5. PICK j \in 1..Len(begun) :
        /\ Head(up).of = begun[j]
        /\ \/ Head(up).part = "head" /\ Pieced - Len(up) + 1 = 2 * j - 1
           \/ Head(up).part = "body" /\ Pieced - Len(up) + 1 = 2 * j
  BY <1>2, <1>4 DEF InputInPlace
<1>6. CASE fwant = NoFrame
  <2>1. PICK k \in 0..Len(begun) : Pieced - Len(up) = 2 * k BY <1>6 DEF Applied
  <2>2. Pieced - Len(up) + 1 # 2 * j BY <1>2, <1>3, <2>1
  <2> QED BY <1>2, <1>3, <1>5, <1>6, <2>2
<1>7. CASE fwant # NoFrame
  <2>1. PICK k \in 1..Len(begun) : fwant = begun[k] /\ Pieced - Len(up) = 2 * k - 1
    BY <1>7 DEF Applied
  <2>2. Pieced - Len(up) + 1 # 2 * j - 1 BY <1>2, <1>3, <2>1
  <2>3. Head(up).part = "body" /\ Pieced - Len(up) + 1 = 2 * j BY <1>5, <2>2
  <2>4. j = k BY <1>2, <1>3, <2>1, <2>3
  <2>5. Head(up).of = fwant BY <1>5, <2>1, <2>4
  <2>6. Head(up) \in Pieces BY <1>1, TailType, Zenon
  <2>7. Head(up) = Piece("body", fwant) BY <2>3, <2>5, <2>6 DEF Pieces, Piece
  <2> QED BY <1>2, <1>3, <1>7, <2>1, <2>3, <2>4, <2>7
<1> QED BY <1>6, <1>7

\* The reader takes it.
LEMMA AppliedRead ==
    ASSUME TypeOK, TypeOK', Asking, Applied, InputFrameHead \/ InputFrameBody
    PROVE  Applied'
<1> SUFFICES ASSUME ~ahead', ~mixed' PROVE Applied' BY DEF Applied
<1>0. /\ fpc = "on" /\ up # <<>> /\ up' = Tail(up)
      /\ UNCHANGED <<wpc, begun, mixed, ahead, shut, dpc>>
  BY DEF InputFrameHead, InputFrameBody, client, streams
<1>1. Pieced \in Int /\ Len(up) \in Nat \ {0} BY <1>0, FirstPiece
<1>2. up \in Seq(Pieces) /\ applied \in Seq(Frames) BY DEF TypeOK
<1>3. Len(up') = Len(up) - 1 /\ \A i \in 1..(Len(up) - 1) : up'[i] = up[i + 1]
  BY <1>0, <1>2, TailIs
<1>4. Pieced' = Pieced BY <1>0 DEF Pieced, HalfInput
<1>5. Pieced' - Len(up') = Pieced - Len(up) + 1 BY <1>1, <1>3, <1>4
<1>6. /\ fpc # "lost" /\ Len(applied) <= Len(begun)
      /\ \A i \in 1..Len(applied) : applied[i] = begun[i]
      /\ ~shut => 2 * Len(applied) + Wanting = Pieced - Len(up)
      /\ \A i \in 1..Len(up) : InputInPlace(i, Pieced - Len(up) + i)
  BY <1>0 DEF Applied
<1>7. Len(begun) \in Nat /\ Len(applied) \in Nat BY DEF TypeOK
<1>8. ASSUME NEW i \in 1..Len(up') PROVE InputInPlace(i, Pieced - Len(up) + i)'
  <2>1. PICK m \in 1..Len(up) : m = i + 1 /\ i \in 1..(Len(up) - 1) BY <1>1, <1>3
  <2>2. PICK k : k = Pieced - Len(up) + m OBVIOUS
  <2>3. InputInPlace(m, k) /\ up'[i] = up[m] BY <1>3, <1>6, <2>1, <2>2
  <2>4. Len(begun) <= Len(begun') /\ \A j \in 1..Len(begun) : begun'[j] = begun[j]
    BY <1>0, <1>7
  <2>5. InputInPlace(i, k)' BY <2>3, <2>4, PieceKept
  <2>6. Pieced' - Len(up') + i = k BY <1>1, <1>5, <2>1, <2>2
  <2> QED BY <2>5, <2>6 DEF InputInPlace
<1>9. CASE fwant = NoFrame
  <2>1. PICK j \in 1..Len(begun) : /\ Head(up).part = "head" /\ Head(up).of = begun[j]
                                   /\ Pieced - Len(up) + 1 = 2 * j - 1
    BY <1>0, <1>9, FirstPiece
  <2>2. InputFrameHead BY <1>9 DEF InputFrameBody
  <2>3. fwant' = begun[j] /\ fpc' = fpc /\ applied' = applied BY <2>1, <2>2 DEF InputFrameHead
  <2>4. fwant' # NoFrame
    <3>1. begun[j].type # "garbled" BY DEF Asking
    <3> QED BY <2>3, <3>1 DEF NoFrame, Frame
  <2>5. Wanting = 0 /\ Wanting' = 1 BY <1>9, <2>4 DEF Wanting
  <2>6. ASSUME ~shut' PROVE 2 * Len(applied') + Wanting' = Pieced' - Len(up')
    <3>1. ~shut BY <1>0, <2>6
    <3>2. 2 * Len(applied) + Wanting = Pieced - Len(up) BY <1>6, <3>1
    <3> QED BY <1>1, <1>5, <1>7, <2>3, <2>5, <3>2
  <2>7. \E k \in 1..Len(begun') : fwant' = begun'[k] /\ Pieced' - Len(up') = 2 * k - 1
    BY <1>0, <1>5, <2>1, <2>3
  <2>8. /\ fpc' # "lost" /\ Len(applied') <= Len(begun')
        /\ \A i \in 1..Len(applied') : applied'[i] = begun'[i]
    BY <1>0, <1>6, <2>3
  <2> QED BY <1>8, <2>4, <2>6, <2>7, <2>8 DEF Applied
<1>10. CASE fwant # NoFrame
  <2>1. PICK j \in 1..Len(begun) : /\ Head(up) = Piece("body", fwant) /\ fwant = begun[j]
                                   /\ Pieced - Len(up) + 1 = 2 * j
    BY <1>0, <1>10, FirstPiece
  <2>2. InputFrameBody BY <1>10 DEF InputFrameHead
  <2>3. /\ applied' = (IF shut THEN applied ELSE Append(applied, fwant)) /\ fpc' = fpc
        /\ fwant' = NoFrame
    BY <2>1, <2>2 DEF InputFrameBody
  <2>4. Wanting = 1 /\ Wanting' = 0 BY <1>10, <2>3 DEF Wanting
  <2>5. \E k \in 0..Len(begun') : Pieced' - Len(up') = 2 * k BY <1>0, <1>5, <1>7, <2>1
  <2>6. CASE shut
    <3>1. applied' = applied BY <2>3, <2>6
    <3>2. /\ fpc' # "lost" /\ Len(applied') <= Len(begun')
          /\ \A i \in 1..Len(applied') : applied'[i] = begun'[i]
      BY <1>0, <1>6, <2>3, <3>1
    <3>3. shut' BY <1>0, <2>6
    <3>4. fwant' = NoFrame BY <2>3
    <3> QED BY <1>8, <2>5, <3>2, <3>3, <3>4 DEF Applied
  <2>7. CASE ~shut
    <3>1. applied' = Append(applied, fwant) BY <2>3, <2>7
    <3>2. /\ Len(applied') = Len(applied) + 1 /\ applied'[Len(applied) + 1] = fwant
          /\ \A i \in 1..Len(applied) : applied'[i] = applied[i]
      BY <1>2, <3>1, AppendIs
    <3>3. Len(applied) + 1 = j BY <1>1, <1>6, <1>7, <2>1, <2>4, <2>7
    <3>4. Len(applied') <= Len(begun') BY <1>0, <1>7, <3>2, <3>3
    <3>5. ASSUME NEW i \in 1..Len(applied') PROVE applied'[i] = begun'[i]
      <4>1. CASE i \in 1..Len(applied) BY <1>0, <1>6, <3>2, <4>1
      <4>2. CASE i = Len(applied) + 1 BY <1>0, <2>1, <3>2, <3>3, <4>2
      <4> QED BY <1>7, <3>2, <4>1, <4>2
    <3>6. 2 * Len(applied') + Wanting' = Pieced' - Len(up')
      BY <1>5, <1>7, <2>1, <2>4, <3>2, <3>3
    <3>7. fwant' = NoFrame /\ fpc' # "lost" BY <1>6, <2>3
    <3> QED BY <1>8, <2>5, <3>4, <3>5, <3>6, <3>7 DEF Applied
  <2> QED BY <2>6, <2>7
<1> QED BY <1>9, <1>10

LEMMA AppliedStep ==
    ASSUME TypeOK, TypeOK', Asking, Typed, Applied, [Next]_vars
    PROVE  Applied'
<1> USE DEF client, program, streams, input
<1>1. ASSUME UNCHANGED <<up, wpc, begun, mixed, fwant, applied, ahead, fpc, dpc>>, shut => shut'
      PROVE  Applied'
  BY <1>1, AppliedFrame
<1>2. CASE SendRequest
  <2>1. dpc = "decode" BY <1>2 DEF SendRequest, Asking, DaemonOpen
  <2>2. fpc = "off" BY <2>1 DEF Asking
  <2>3. UNCHANGED <<begun, mixed, applied, ahead, fpc, dpc>> BY <1>2 DEF SendRequest
  <2> QED BY <2>1, <2>2, <2>3 DEF Applied
<1>3. CASE SendError \/ ReadHead \/ ReadBody \/ ReadReply \/ ReadEOF \/ ReadError \/ Vanish
           \/ ResizeError
  BY <1>1, <1>3 DEF SendError, ReadHead, ReadBody, ReadReply, ReadEOF, ReadError, Vanish,
                    ResizeError
<1>4. CASE HandlerStep
  <2>1. UNCHANGED <<wpc, begun, mixed>> BY <1>4, HandlerFrame
  <2>2. CASE Execute
    <3>1. UNCHANGED <<up, fwant, applied, ahead, shut>> /\ dpc = "acquire" /\ fpc' # "lost"
      BY <2>2 DEF Execute
    <3> QED BY <2>1, <3>1, AppliedFrame
  <2>3. ASSUME UNCHANGED <<up, fwant, applied, ahead>>, fpc' \in {fpc, "off"}, shut => shut',
               dpc' # "acquire"
        PROVE  Applied'
    BY <2>1, <2>3, AppliedFrame
  <2>4. CASE DecodeEOF \/ Reject \/ Streams \/ Reply \/ ExitHead \/ ExitBody \/ Close
    BY <2>3, <2>4 DEF DecodeEOF, Reject, Streams, Reply, ExitHead, ExitBody, Close
  <2>5. CASE StatsBody \/ StatsHead \/ StatsEnd \/ StatsShutdown \/ Crash
    BY <2>3, <2>5 DEF StatsBody, StatsHead, StatsEnd, StatsShutdown, Crash
  <2>6. CASE SelectDone \/ SelectWait BY <2>3, <2>6 DEF SelectDone, SelectWait
  <2>7. CASE DecodeError \/ PayloadError \/ PayloadWritten
    BY <2>3, <2>7 DEF DecodeError, PayloadError, PayloadWritten
  <2> QED BY <1>4, <2>2, <2>4, <2>5, <2>6, <2>7, AppliedDecode DEF HandlerStep, Handler
<1>5. CASE WorkerStep
  <2>1. UNCHANGED <<up, client, dpc, input>> BY <1>5, WorkerFrame
  <2>2. shut => shut'
    BY <1>5 DEF WorkerStep, Reader, Emit, ReadOutput, ReadOutputEnd, OutputHead, OutputBody,
                ProcExit, Wait, CtxDone
  <2> QED BY <1>1, <2>1, <2>2
<1>6. CASE InputFrameEnd
  <2>1. UNCHANGED <<up, client, fwant, applied, ahead, dpc, shut>> /\ fpc = "on" /\ fpc' = "off"
    BY <1>6 DEF InputFrameEnd
  <2> QED BY <2>1, AppliedFrame
<1>7. CASE UNCHANGED vars BY <1>1, <1>7 DEF vars
<1> QED BY <1>2, <1>3, <1>4, <1>5, <1>6, <1>7, AppliedSent, AppliedRead, Sides
        DEF ClientStep, Client, InputStep

-----------------------------------------------------------------------------
(* The theorems.                                                           *)

\* The invariant holds at the start, and every step of either end, of the
\* worker or of the goroutines between them keeps it.
LEMMA SessionInit == Init => SessionInv
<1> SUFFICES ASSUME Init PROVE SessionInv OBVIOUS
<1>1. TypeOK
  <2>1. NoFrame \in Frames BY FrameTypes
  <2>a. ASSUME NEW S PROVE <<>> \in Seq(S) OBVIOUS
  <2>b. up \in Seq(Pieces) /\ down \in Seq(Pieces) /\ got \in Seq(Frames) /\ begun \in Seq(Frames)
        /\ wrote \in Seq(Frames) /\ applied \in Seq(Frames)
    BY <2>a DEF Init
  <2>c. status \in [code : Codes, from : {"none", "exit", "eof", "error", "reply"}]
    BY DEF Init, Codes
  <2>d. wpc \in [Writers -> {"head", "body"}] /\ wcnt \in [Writers -> 0..MaxIn] BY DEF Init
  <2>e. cpc = "send" /\ cwant = NoFrame /\ mixed = FALSE BY DEF Init
  <2>2. ClientTyped BY <2>1, <2>b, <2>c, <2>d, <2>e DEF ClientTyped
  <2>f. pipe \in [Outputs -> Seq(1..MaxOut)] BY <2>a DEF Init
  <2>g. /\ emitted \in [Outputs -> 0..MaxOut] /\ chunk \in [Outputs -> 0..MaxOut]
        /\ rpc \in [Outputs -> {"read", "head", "body", "done"}]
    BY DEF Init
  <2>h. proc = "none" /\ code = 0 /\ shut = FALSE /\ waited = FALSE /\ ctxDone = FALSE
    BY DEF Init
  <2>k. big \in BOOLEAN BY DEF Init
  <2>3. StreamsTyped BY <2>f, <2>g, <2>h, <2>k DEF StreamsTyped, Codes
  <2>i. result \in Results BY DEF Init, NoResult, Results, Codes
  <2>j. dpc = "decode" /\ fpc = "off" /\ fwant = NoFrame /\ ahead = FALSE BY DEF Init
  <2>4. DaemonTyped BY <2>1, <2>b, <2>i, <2>j DEF DaemonTyped
  <2>5. kind \in Requests BY DEF Init
  <2> QED BY <2>2, <2>3, <2>4, <2>5, TypeParts
<1>2. Roles /\ Half /\ Settled /\ StatusIsResult /\ Asking
  BY DEF Init, Roles, Half, Settled, WroteExit, StatusIsResult, Asking, Outputs
<1>3. Stream BY DEF Init, Stream
<1>4. Complete
  <2>1. ~Pending BY DEF Init, Pending
  <2>2. Reading = 0 /\ Len(down) = 0 /\ Len(wrote) = 0 /\ Len(got) = 0 BY DEF Init, Reading
  <2> QED BY <2>1, <2>2 DEF Complete
<1>5. Chunks BY DEF Init, Chunks, Piped, Written, Top
<1>6. Typed BY DEF Init, Typed
<1>7. Applied BY DEF Init, Applied
<1> QED BY <1>1, <1>2, <1>3, <1>4, <1>5, <1>6, <1>7 DEF SessionInv
LEMMA SessionStep == SessionInv /\ [Next]_vars => SessionInv'
<1> SUFFICES ASSUME SessionInv, [Next]_vars PROVE SessionInv' OBVIOUS
<1>1. TypeOK' BY TypeStep DEF SessionInv
<1>2. Roles' /\ Half' BY RolesStep, HalfStep DEF SessionInv
<1>3. Stream' /\ Complete' BY StreamStep DEF SessionInv
<1>4. Settled' /\ StatusIsResult' BY SettledStep DEF SessionInv
<1>5. Chunks' BY ChunksStep DEF SessionInv
<1>6. Asking' /\ Typed' /\ Applied' BY <1>1, AskingStep, TypedStep, AppliedStep DEF SessionInv
<1> QED BY <1>1, <1>2, <1>3, <1>4, <1>5, <1>6 DEF SessionInv

\* SessionInv is an invariant of the connection.
THEOREM SessionInvariant == Spec => []SessionInv
  BY SessionInit, SessionStep, PTL DEF Spec

\* Every variable of a connection keeps its type: no write, read or decode
\* builds a frame or piece that is none.
THEOREM SessionTypes == Spec => []TypeOK
<1>1. SessionInv => TypeOK BY DEF SessionInv
<1> QED BY <1>1, SessionInvariant, PTL

\* An exit status that came in an exit frame is the result of the job, and the
\* code of the process unless that was killed; a stream that ends without one
\* is that of a crashed daemon or of stats.
THEOREM StatusIsTrue == Spec => []StatusIsResult
<1>1. SessionInv => StatusIsResult BY DEF SessionInv
<1> QED BY <1>1, SessionInvariant, PTL

\* Input the decoder of the request has left in the socket, and no two writers
\* have mixed, is applied in the order it was typed.
THEOREM InputKeepsOrder == Spec => []InputInOrder
<1>1. SessionInv => InputInOrder
  <2> SUFFICES ASSUME SessionInv, ~ahead, ~mixed PROVE fpc # "lost" /\ IsPrefix(applied, begun)
    BY DEF InputInOrder
  <2>1. /\ fpc # "lost" /\ Len(applied) <= Len(begun)
        /\ \A i \in 1..Len(applied) : applied[i] = begun[i]
    BY DEF SessionInv, Applied
  <2>2. applied \in Seq(Frames) /\ begun \in Seq(Frames) BY DEF SessionInv, TypeOK
  <2>3. SubSeq(applied, 1, Len(applied)) = SubSeq(begun, 1, Len(applied)) BY <2>1, <2>2
  <2> QED BY <2>1, <2>3 DEF IsPrefix
<1> QED BY <1>1, SessionInvariant, PTL

\* Of each stream the client has an initial part of what the process wrote.
THEOREM OutputKeepsOrder == Spec => []OutputIsPrefix
<1>1. SessionInv => OutputIsPrefix
  <2> SUFFICES ASSUME SessionInv, NEW s \in Outputs, NEW i \in 1..Len(got), got[i].type = s
               PROVE  /\ got[i].n \in 1..emitted[s]
                      /\ \A k \in 1..(i - 1) : got[k].type = s => got[k].n < got[i].n
                      /\ got[i].n > 1 => \E k \in 1..(i - 1) : got[k] = Frame(s, got[i].n - 1)
    BY DEF OutputIsPrefix
  <2>1. Len(got) \in Nat /\ Len(wrote) \in Nat BY DEF SessionInv, TypeOK
  <2>2. Len(got) <= Len(wrote) /\ \A k \in 1..Len(got) : got[k] = wrote[k]
    BY DEF SessionInv, Stream
  <2>3. i \in 1..Len(wrote) /\ \A k \in 1..(i - 1) : k \in 1..Len(got) BY <2>1, <2>2
  <2>4. got[i] = wrote[i] /\ \A k \in 1..(i - 1) : got[k] = wrote[k] BY <2>2, <2>3
  <2>5. Written(s, Top(s)) /\ Piped(s) BY DEF SessionInv, Chunks
  <2>6. wrote[i].n \in 1..emitted[s]
    <3>1. wrote[i].n \in 1..Top(s) BY <2>3, <2>4, <2>5 DEF Written
    <3>2. chunk[s] \in Nat /\ emitted[s] \in Nat /\ pipe[s] \in Seq(1..MaxOut)
      BY DEF SessionInv, TypeOK
    <3>3. Len(pipe[s]) \in Nat BY <3>2
    <3>4. Top(s) <= emitted[s] /\ Top(s) \in Int
      <4>1. chunk[s] \in Nat /\ emitted[s] \in Nat BY <3>2
      <4>2. chunk[s] + Len(pipe[s]) = emitted[s] BY <2>5 DEF Piped
      <4> QED BY <3>3, <4>1, <4>2 DEF Top
    <3>5. emitted[s] \in Nat BY <3>2
    <3> QED BY <3>1, <3>4, <3>5
  <2> QED BY <2>3, <2>4, <2>5, <2>6 DEF Written
<1> QED BY <1>1, SessionInvariant, PTL

\* A step of the connection writes a frame while there is no exit frame, reads
\* the next frame, or is none of the wire's business.
LEMMA WireStep == SessionInv /\ [Next]_vars => [Link!Next]_<<wrote, got>>
<1> SUFFICES ASSUME SessionInv, [Next]_vars PROVE Link!Next \/ UNCHANGED <<wrote, got>>
  OBVIOUS
<1> USE DEF client, program, streams, input
<1>0. TypeOK /\ Roles /\ Half /\ Stream /\ Complete /\ Settled BY DEF SessionInv
<1>1. ASSUME NEW f \in Frames, wrote' = Append(wrote, f), UNCHANGED got,
             dpc \notin {"exitBody", "close", "closed", "reset", "crashed"}
      PROVE  Link!Next
  <2>1. \A i \in 1..Len(wrote) : wrote[i].type # "exit" BY <1>0, <1>1 DEF Settled, WroteExit
  <2>2. Link!Send(f) BY <1>1, <2>1 DEF Link!Send
  <2> QED BY <2>2 DEF Link!Next
<1>2. ASSUME Len(got) < Len(wrote), got' = Append(got, wrote[Len(got) + 1]), UNCHANGED wrote
      PROVE  Link!Next
  BY <1>2 DEF Link!Next, Link!Receive
<1>3. CASE ReadBody BY <1>0, <1>2, <1>3, BodyRead DEF ReadBody
<1>4. CASE ReadReply BY <1>0, <1>2, <1>4, ReplyRead DEF ReadReply
<1>5. CASE ExitHead
  <2>1. Frame("exit", 0) \in Frames BY FrameTypes
  <2> QED BY <1>1, <1>5, <2>1 DEF ExitHead
<1>6. CASE Reply
  <2>1. Frame("reply", 0) \in Frames BY FrameTypes
  <2> QED BY <1>1, <1>6, <2>1 DEF Reply
<1>7. CASE StatsHead
  <2>1. Len(wrote) + 1 \in 0..MaxOut
    <3>1. Len(wrote) \in Nat BY <1>0 DEF TypeOK
    <3> QED BY <1>7, <3>1 DEF StatsHead
  <2>2. Frame("stats", Len(wrote) + 1) \in Frames BY <2>1, FrameTypes
  <2> QED BY <1>1, <1>7, <2>2 DEF StatsHead
<1>8. ASSUME NEW s \in Outputs, OutputHead(s) PROVE Link!Next
  <2>1. Frame(s, chunk[s]) \in Frames BY <1>0, FrameTypes DEF TypeOK
  <2>2. dpc \in {"select", "streams"} BY <1>0, <1>8, ReaderRuns DEF Reader
  <2>3. wrote' = Append(wrote, Frame(s, chunk[s])) /\ got' = got BY <1>8 DEF OutputHead
  <2> QED BY <1>1, <2>1, <2>2, <2>3
<1>9. CASE InputStep \/ UNCHANGED vars BY <1>9, InputFrame DEF vars
<1>10. CASE ClientStep
  BY <1>3, <1>4, <1>10 DEF ClientStep, Client, SendRequest, SendError, ResizeError, ReadHead,
                           ReadEOF, ReadError, Vanish, InputHead, InputBody
<1>11. CASE HandlerStep
  BY <1>5, <1>6, <1>7, <1>11
     DEF HandlerStep, Handler, Decode, DecodeEOF, DecodeError, Execute, Reject, PayloadError,
         PayloadWritten, SelectDone, SelectWait,
         Streams, ExitBody, Close, StatsBody, StatsEnd, StatsShutdown, Crash
<1>12. CASE WorkerStep
  BY <1>8, <1>12 DEF WorkerStep, Reader, Emit, ReadOutput, ReadOutputEnd, OutputBody, ProcExit,
                     Wait, CtxDone
<1> QED BY <1>9, <1>10, <1>11, <1>12, Sides

\* The connection implements the wire: the daemon's frames reach the client
\* whole, once and in order, although several goroutines write them in two
\* pieces each, and none follows an exit frame.
THEOREM RefinesWire == Spec => ImplementsWire
<1>1. Init => Link!Init BY DEF Init, Link!Init
<1> QED BY <1>1, WireStep, SessionInvariant, PTL DEF Spec, ImplementsWire, Link!Spec

=============================================================================
