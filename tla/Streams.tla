------------------------------- MODULE Streams -------------------------------
(***************************************************************************)
(* The streams of msgpack5.js (readable-stream 2.3 in the browser,         *)
(* 4156-6546): a Transform in object mode, as the Encoder and the Decoder  *)
(* of msgpack5 are, whose output is piped into a Writable, read by a       *)
(* `data' listener, or read by a `readable' listener.                      *)
(*                                                                         *)
(* All streams are one record, s.  A function of the library is an         *)
(* operator from s to s that makes every call the function makes, with the *)
(* listeners the calls reach; the functions that call each other are       *)
(* RECURSIVE.  An action is one turn of the browser: a call by the         *)
(* program, an asynchronous answer, or a job of process.nextTick.          *)
(***************************************************************************)
EXTENDS Naturals, Sequences, FiniteSets, SequencesExt

CONSTANTS HighWaterMark,
          ChunkKinds,   \* what can be written, a set of Kinds
          MaxWrites,
          MaxOthers     \* bound on corks, pauses, unpipes, failures and destroys together

\* A chunk is transformed into two chunks at once (the Decoder finds two values
\* in it) or into one later (any transform that is not synchronous).  For what
\* the Encoder cannot encode it reports an error and goes on; for what is no
\* MessagePack the Decoder reports an error and never calls back.
Kinds == {"pair", "late", "unencodable", "garbled"}
ASSUME StreamConstants == HighWaterMark \in Nat \ {0} /\ ChunkKinds \subseteq Kinds

Outs == [pair |-> 2, late |-> 1, unencodable |-> 0, garbled |-> 0]

VARIABLES s,         \* the streams, the queue of nextTick and what was observed
          mode,      \* how the output is consumed: "pipe", "data" or "readable"
          calls      \* how often the program has made each bounded call

vars == <<s, mode, calls>>

Null == <<>>

WritableState == [ending |-> FALSE, ended |-> FALSE, finished |-> FALSE, prefinished |-> FALSE,
                  needDrain |-> FALSE, writing |-> FALSE, corked |-> 0, sync |-> TRUE,
                  bufferProcessing |-> FALSE, length |-> 0, cur |-> Null, buffered |-> <<>>,
                  pendingcb |-> 0, errorEmitted |-> FALSE]

ReadableState == [buffer |-> <<>>, flowing |-> "unset", ended |-> FALSE, endEmitted |-> FALSE,
                  reading |-> FALSE, sync |-> FALSE, needReadable |-> TRUE,
                  emittedReadable |-> FALSE, listening |-> FALSE, resumeScheduled |-> FALSE,
                  readingMore |-> FALSE, awaitDrain |-> 0, destroyed |-> FALSE]

TransformState == [needTransform |-> FALSE, transforming |-> FALSE, chunk |-> Null]

Init ==
    /\ s = [rs |-> ReadableState, ts |-> TransformState,
            ws |-> [x \in {"t", "w"} |-> WritableState],
            piped |-> FALSE, attached |-> FALSE,
            ticks |-> <<>>, draining |-> FALSE,
            ret |-> Null,          \* what the last read returned
            ok |-> TRUE,           \* what the last write returned
            pushed |-> <<>>,       \* history: what the transform made
            out |-> <<>>,          \* history: what reached the consumer
            called |-> <<>>,       \* history: the callbacks of the writes to t
            seen |-> <<>>,         \* history: drain, end, finish and error events
            late |-> FALSE,        \* history: a `readable' listener came after the first chunk
            faulty |-> FALSE]      \* history: a function was called out of its order
    /\ mode \in {"pipe", "data", "readable"}
    /\ calls = [c \in {"write", "cork", "pause", "unpipe", "fail", "destroy"} |-> 0]

nextTick(S, job) == [S EXCEPT !.ticks = Append(@, job)]
Saw(S, e) == [S EXCEPT !.seen = Append(@, e)]

RECURSIVE read(_, _), flow(_), emitReadable(_), push(_, _), transformRead(_), write(_, _, _),
          onwrite(_, _, _), clearBuffer(_, _, _), finishMaybe(_, _), end(_, _), Push(_, _, _),
          maybeRead(_, _), ReadAll(_)

-----------------------------------------------------------------------------
(* The writable side *)

needFinish(W) == W.ending /\ W.length = 0 /\ W.buffered = <<>> /\ ~W.finished /\ ~W.writing

\* The transform takes the chunk that was written when it is asked for one.
transformWrite(S, c) ==
    LET T == [S EXCEPT !.ts.chunk = c]
        wanted == \/ S.ts.needTransform \/ S.rs.needReadable
                  \/ Len(S.rs.buffer) < HighWaterMark
    IN  IF ~S.ts.transforming /\ wanted THEN transformRead(T) ELSE T

_write(S, x, c) ==
    IF x = "t" THEN transformWrite(S, c) ELSE [S EXCEPT !.out = Append(@, c)]

doWrite(S, x, c) ==
    LET T == [S EXCEPT !.ws[x].cur = c, !.ws[x].writing = TRUE, !.ws[x].sync = TRUE]
    IN  [_write(T, x, c) EXCEPT !.ws[x].sync = FALSE]

writeOrBuffer(S, x, c) ==
    LET full == S.ws[x].length + 1 >= HighWaterMark
        T == [S EXCEPT !.ws[x].length = @ + 1, !.ws[x].needDrain = @ \/ full]
        U == IF S.ws[x].writing \/ S.ws[x].corked > 0
             THEN [T EXCEPT !.ws[x].buffered = Append(@, c)] ELSE doWrite(T, x, c)
    IN  [U EXCEPT !.ok = ~full]

writeAfterEnd(S, x, c) ==
    [nextTick(Saw(S, <<x, "error">>), <<"callback", x, c>>) EXCEPT !.ok = FALSE]

write(S, x, c) ==
    IF S.ws[x].ended THEN writeAfterEnd(S, x, c)
    ELSE writeOrBuffer([S EXCEPT !.ws[x].pendingcb = @ + 1], x, c)

\* From the k-th buffered request on, until one is not finished at once.
clearRest(S, x, k) ==
    IF S.ws[x].writing \/ k = Len(S.ws[x].buffered)
    THEN [S EXCEPT !.ws[x].buffered = SubSeq(@, k + 1, Len(@)),
                   !.ws[x].bufferProcessing = FALSE]
    ELSE clearBuffer(S, x, k + 1)
clearBuffer(S, x, k) == clearRest(doWrite(S, x, S.ws[x].buffered[k]), x, k)

ClearBuffer(S, x) == clearBuffer([S EXCEPT !.ws[x].bufferProcessing = TRUE], x, 1)

callback(S, x, c) == IF x = "t" THEN [S EXCEPT !.called = Append(@, c[1])] ELSE S

\* Mutant: the source is not set flowing again.
pipeOnDrainMutant(S) ==
    LET T == [S EXCEPT !.rs.awaitDrain = IF @ > 0 THEN @ - 1 ELSE 0]
    IN  IF T.rs.awaitDrain = 0 THEN flow(T) ELSE T

\* What listens to the destination's drain: ondrain of the pipe.
pipeOnDrain(S) ==
    LET T == [S EXCEPT !.rs.awaitDrain = IF @ > 0 THEN @ - 1 ELSE 0]
    IN  IF T.rs.awaitDrain = 0 THEN flow([T EXCEPT !.rs.flowing = "yes"]) ELSE T

onwriteDrain(S, x) ==
    LET T == Saw([S EXCEPT !.ws[x].needDrain = FALSE], <<x, "drain">>)
    IN  IF S.ws[x].length > 0 \/ ~S.ws[x].needDrain THEN S
        ELSE IF x = "w" /\ S.piped THEN pipeOnDrain(T) ELSE T

afterWrite(S, x, finished, c) ==
    LET T == IF finished THEN S ELSE onwriteDrain(S, x)
    IN  finishMaybe(callback([T EXCEPT !.ws[x].pendingcb = @ - 1], x, c), x)

\* The listeners of the pipe are removed with it; a full destination no longer counts.
unpipe(S) ==
    IF ~S.piped THEN S
    ELSE [S EXCEPT !.piped = FALSE, !.rs.flowing = "no",
                   !.rs.awaitDrain = IF @ > 0 /\ S.ws.w.needDrain THEN @ - 1 ELSE @]

emitError(S, x) == IF x = "w" THEN unpipe(Saw(S, <<x, "error">>)) ELSE Saw(S, <<x, "error">>)

onwriteError(S, x, sync, c) ==
    LET T == [S EXCEPT !.ws[x].pendingcb = @ - 1, !.ws[x].errorEmitted = TRUE]
    IN  IF sync
        THEN emitError(nextTick(nextTick(T, <<"callback", x, c>>), <<"finishMaybe", x>>), x)
        ELSE finishMaybe(emitError(callback(T, x, c), x), x)

onwriteOk(S, x, sync, finished, c) ==
    IF sync THEN nextTick(S, <<"afterWrite", x, finished, c>>) ELSE afterWrite(S, x, finished, c)

\* What is buffered goes on, unless it was the last chunk of all or a loop is at it.
drainBuffered(S, x, W) ==
    IF ~needFinish(S.ws[x]) /\ W.corked = 0 /\ ~W.bufferProcessing /\ W.buffered # <<>>
    THEN ClearBuffer(S, x) ELSE S

onwrite(S, x, failed) ==
    LET W == S.ws[x]
        T == [S EXCEPT !.ws[x].writing = FALSE, !.ws[x].cur = Null, !.ws[x].length = @ - 1]
    IN  IF failed THEN onwriteError(T, x, W.sync, W.cur)
        ELSE onwriteOk(drainBuffered(T, x, W), x, W.sync, needFinish(T.ws[x]), W.cur)

\* The transform's prefinish listener, done, ends the readable side.
done(S) == push([S EXCEPT !.faulty = @ \/ S.ws.t.length > 0 \/ S.ts.transforming], Null)

prefinish(S, x) ==
    LET T == [S EXCEPT !.ws[x].prefinished = TRUE]
    IN  IF S.ws[x].prefinished THEN S ELSE IF x = "t" THEN done(T) ELSE T

finish(S, x) ==
    LET T == Saw([S EXCEPT !.ws[x].finished = TRUE], <<x, "finish">>)
    IN  IF x = "w" THEN unpipe(T) ELSE T

\* Mutant: finish does not wait for the callbacks.
finishAfterMutant(S, x) == finish(S, x)

finishAfter(S, x) == IF S.ws[x].pendingcb > 0 THEN S ELSE finish(S, x)

finishMaybe(S, x) ==
    IF ~needFinish(S.ws[x]) THEN S ELSE finishAfter(prefinish(S, x), x)

uncork(S, x) ==
    LET T == [S EXCEPT !.ws[x].corked = @ - 1]
        W == T.ws[x]
    IN  IF ~W.writing /\ W.corked = 0 /\ ~W.finished /\ ~W.bufferProcessing /\ W.buffered # <<>>
        THEN ClearBuffer(T, x) ELSE T

endWritable(S, x) == [finishMaybe([S EXCEPT !.ws[x].ending = TRUE], x) EXCEPT !.ws[x].ended = TRUE]

endOnce(S, x) == IF S.ws[x].ending \/ S.ws[x].finished THEN S ELSE endWritable(S, x)

end(S, x) ==
    endOnce(IF S.ws[x].corked > 0 THEN uncork([S EXCEPT !.ws[x].corked = 1], x) ELSE S, x)

-----------------------------------------------------------------------------
(* The transform *)

transformMore(S) ==
    IF S.rs.needReadable \/ Len(S.rs.buffer) < HighWaterMark THEN transformRead(S) ELSE S

afterTransform(S) ==
    LET T == [S EXCEPT !.ts.transforming = FALSE, !.ts.chunk = Null]
    IN  transformMore([onwrite(T, "t", FALSE) EXCEPT !.rs.reading = FALSE])

\* The _transform of Encoder and Decoder: the outputs one by one, then the callback.
Push(S, c, n) ==
    IF n > Outs[c[2]] THEN S
    ELSE Push(push([S EXCEPT !.pushed = Append(@, <<c[1], n>>)], <<c[1], n>>), c, n + 1)
Transformed(S) ==
    LET c == S.ts.chunk
    IN  CASE c[2] = "garbled"     -> emitError(S, "t")
          [] c[2] = "unencodable" -> afterTransform(emitError(S, "t"))
          [] OTHER                -> afterTransform(Push(S, c, 1))

\* Transform._read
transformRead(S) ==
    LET T == [S EXCEPT !.ts.transforming = TRUE]
    IN  IF S.ts.chunk = Null \/ S.ts.transforming THEN [S EXCEPT !.ts.needTransform = TRUE]
        ELSE IF S.ts.chunk[2] = "late" THEN T ELSE Transformed(T)

-----------------------------------------------------------------------------
(* The readable side *)

flowing(S) == S.rs.flowing = "yes"
resumeTick(S) ==
    IF S.rs.resumeScheduled THEN S
    ELSE nextTick([S EXCEPT !.rs.resumeScheduled = TRUE], <<"resume">>)
resume(S) == IF flowing(S) THEN S ELSE resumeTick([S EXCEPT !.rs.flowing = "yes"])
pause(S)  == [S EXCEPT !.rs.flowing = "no"]

\* Mutant: a destination that is full is not waited for.
ondataMutant(S, c) == write(S, "w", c)

\* The pipe's ondata: a destination that is full pauses the source.
pauseIfFull(S) ==
    IF S.ok THEN S ELSE pause([S EXCEPT !.rs.awaitDrain = IF S.piped THEN @ + 1 ELSE @])
ondata(S, c) == pauseIfFull(write(S, "w", c))

emitData(S, c) ==
    CASE S.piped -> ondata(S, c)
      [] mode = "data" /\ S.attached -> [S EXCEPT !.out = Append(@, c)]
      [] OTHER -> S                   \* a `readable' listener has the chunk from read

emitEnd(S) ==
    LET T == Saw(S, <<"t", "end">>) IN IF S.piped THEN end(T, "w") ELSE T

\* The program's `readable' listener reads until there is nothing left.
ReadOn(S) == IF S.ret = Null THEN S ELSE ReadAll([S EXCEPT !.out = Append(@, S.ret)])
ReadAll(S) == ReadOn(read(S, 1))

emitReadableNow(S) == flow(IF S.rs.listening THEN ReadAll(S) ELSE S)

emitReadable(S) ==
    LET T == [S EXCEPT !.rs.needReadable = FALSE]
        U == [T EXCEPT !.rs.emittedReadable = TRUE]
    IN  IF T.rs.emittedReadable THEN T
        ELSE IF T.rs.sync THEN nextTick(U, <<"emitReadable">>) ELSE emitReadableNow(U)

maybeReadMore(S) ==
    IF S.rs.readingMore THEN S
    ELSE nextTick([S EXCEPT !.rs.readingMore = TRUE], <<"maybeReadMore">>)

readMoreOn(S, n) ==
    IF Len(S.rs.buffer) = n THEN [S EXCEPT !.rs.readingMore = FALSE]
    ELSE maybeRead(S, Len(S.rs.buffer))

\* Until the buffer is full, or a read that found n chunks in it brought none.
maybeRead(S, n) ==
    IF S.rs.reading \/ flowing(S) \/ S.rs.ended \/ Len(S.rs.buffer) >= HighWaterMark
    THEN [S EXCEPT !.rs.readingMore = FALSE]
    ELSE readMoreOn(read(S, 0), n)

\* Mutant: what is buffered is overtaken by a chunk that comes while flowing.
addChunkMutant(S, c) ==
    LET T == [S EXCEPT !.rs.buffer = Append(@, c)]
    IN  IF flowing(S) /\ ~S.rs.sync
        THEN maybeReadMore(read(emitData(S, c), 0))
        ELSE maybeReadMore(IF S.rs.needReadable THEN emitReadable(T) ELSE T)

addChunk(S, c) ==
    LET T == [S EXCEPT !.rs.buffer = Append(@, c)]
    IN  IF flowing(S) /\ S.rs.buffer = <<>> /\ ~S.rs.sync
        THEN maybeReadMore(read(emitData(S, c), 0))
        ELSE maybeReadMore(IF S.rs.needReadable THEN emitReadable(T) ELSE T)

onEofChunk(S) == IF S.rs.ended THEN S ELSE emitReadable([S EXCEPT !.rs.ended = TRUE])

readableAddChunk(S, c) ==
    IF c = Null THEN onEofChunk([S EXCEPT !.rs.reading = FALSE])
    ELSE IF S.rs.ended THEN Saw(S, <<"t", "error">>)            \* push after EOF
    ELSE addChunk([S EXCEPT !.rs.reading = FALSE], c)

push(S, c) == readableAddChunk([S EXCEPT !.ts.needTransform = FALSE], c)

\* Bookkeeping of the calls that the library itself refuses with an exception.
endReadable(S) ==
    IF S.rs.endEmitted THEN S
    ELSE nextTick([S EXCEPT !.rs.ended = TRUE, !.faulty = @ \/ S.rs.buffer # <<>>], <<"end">>)

howMuchToRead(S, n) == IF n = 0 \/ (S.rs.buffer = <<>> /\ S.rs.ended) THEN 0 ELSE 1

\* The end of read: n chunks are taken, and the consumer hears of them.
Take(S, orig, n) ==
    LET c == IF n = 0 \/ S.rs.buffer = <<>> THEN Null ELSE Head(S.rs.buffer)
        T == IF c = Null THEN [S EXCEPT !.rs.needReadable = TRUE]
             ELSE [S EXCEPT !.rs.buffer = Tail(@)]
        U == IF T.rs.buffer # <<>> THEN T
             ELSE IF ~T.rs.ended THEN [T EXCEPT !.rs.needReadable = TRUE]
             ELSE IF orig = 1 THEN endReadable(T) ELSE T
    IN  [(IF c = Null THEN U ELSE emitData(U, c)) EXCEPT !.ret = c]

TakeAfter(S, n, m) == Take(S, n, IF S.rs.reading THEN m ELSE howMuchToRead(S, n))

\* read(0) only makes the transform work; read() also takes a chunk.
read(S, n) ==
    LET A == IF n = 0 THEN S ELSE [S EXCEPT !.rs.emittedReadable = FALSE]
        m == howMuchToRead(A, n)
        l == Len(A.rs.buffer)
        wanted == A.rs.needReadable \/ l = 0 \/ l - m < HighWaterMark
        B == [A EXCEPT !.rs.reading = TRUE, !.rs.sync = TRUE,
                       !.rs.needReadable = @ \/ l = 0]
    IN  IF n = 0 /\ A.rs.needReadable /\ (l >= HighWaterMark \/ A.rs.ended)
        THEN [(IF l = 0 /\ A.rs.ended THEN endReadable(A) ELSE emitReadable(A)) EXCEPT !.ret = Null]
        ELSE IF m = 0 /\ A.rs.ended
        THEN [(IF l = 0 THEN endReadable(A) ELSE A) EXCEPT !.ret = Null]
        ELSE IF A.rs.ended \/ A.rs.reading \/ ~wanted THEN Take(A, n, m)
        ELSE TakeAfter([transformRead(B) EXCEPT !.rs.sync = FALSE], n, m)

flowOn(S) == IF S.ret = Null THEN S ELSE flow(S)
flow(S) == IF flowing(S) THEN flowOn(read(S, 1)) ELSE S

readUnlessReading(S) == IF S.rs.reading THEN S ELSE read(S, 0)
readIfFlowing(S) == IF flowing(S) THEN readUnlessReading(S) ELSE S
resumeNow(S) ==
    readIfFlowing(flow([readUnlessReading(S) EXCEPT !.rs.resumeScheduled = FALSE, !.rs.awaitDrain = 0]))

endReadableNow(S) ==
    IF S.rs.endEmitted \/ S.rs.buffer # <<>> THEN S
    ELSE emitEnd([S EXCEPT !.rs.endEmitted = TRUE])

pipe(S) ==
    LET T == [S EXCEPT !.piped = TRUE, !.attached = TRUE]
        U == IF S.rs.endEmitted THEN nextTick(T, <<"pipeEnd">>) ELSE T
        V == IF U.rs.flowing # "no" THEN resume(U) ELSE U      \* on("data")
    IN  resume(V)

onReadable(S) ==
    LET T == [S EXCEPT !.rs.listening = TRUE, !.rs.needReadable = TRUE,
                       !.rs.emittedReadable = FALSE, !.attached = TRUE,
                       !.late = S.rs.buffer # <<>>]
    IN  IF S.rs.endEmitted THEN [S EXCEPT !.attached = TRUE]
        ELSE IF ~S.rs.reading THEN nextTick(T, <<"read">>)
        ELSE IF S.rs.buffer # <<>> THEN emitReadable(T) ELSE T

onData(S) ==
    LET T == [S EXCEPT !.attached = TRUE]
    IN  IF S.rs.flowing = "no" THEN T ELSE resume(T)

-----------------------------------------------------------------------------
(* destroy: the readable side is ended, then the writable side. *)

destroy(S) ==
    LET T == [S EXCEPT !.rs.destroyed = TRUE]
    IN  IF S.rs.destroyed THEN S ELSE end(push(T, Null), "t")

-----------------------------------------------------------------------------
(* Turns of the browser.  drainQueue runs every job of nextTick, those that *)
(* come meanwhile included, before anything else happens.                   *)

Free == ~s.draining
Others == calls.cork + calls.pause + calls.unpipe + calls.fail + calls.destroy
Count(c) ==
    /\ IF c = "write" THEN calls.write < MaxWrites ELSE Others < MaxOthers
    /\ calls' = [calls EXCEPT ![c] = @ + 1]

drainQueue ==
    /\ Free /\ s.ticks # <<>>
    /\ s' = [s EXCEPT !.draining = TRUE]
    /\ UNCHANGED <<mode, calls>>

Run(S, j) ==
    CASE j[1] = "resume"        -> resumeNow(S)
      [] j[1] = "emitReadable"  -> emitReadableNow(S)
      [] j[1] = "maybeReadMore" -> maybeRead(S, Len(S.rs.buffer))
      [] j[1] = "end"           -> endReadableNow(S)
      [] j[1] = "read"          -> read(S, 0)
      [] j[1] = "pipeEnd"       -> end(S, "w")
      [] j[1] = "callback"      -> callback(S, j[2], j[3])
      [] j[1] = "finishMaybe"   -> finishMaybe(S, j[2])
      [] j[1] = "afterWrite"    -> afterWrite(S, j[2], j[3], j[4])

Ticked(S) == [S EXCEPT !.draining = S.ticks # <<>>, !.ret = Null, !.ok = TRUE]
Tick ==
    /\ s.draining
    /\ s' = Ticked(Run([s EXCEPT !.ticks = Tail(@)], Head(s.ticks)))
    /\ UNCHANGED <<mode, calls>>

Turn(S) == s' = [S EXCEPT !.ret = Null, !.ok = TRUE]

Write ==
    /\ Free /\ Count("write") /\ ~s.ws.t.ended
    /\ \E k \in ChunkKinds : Turn(write(s, "t", <<calls.write + 1, k>>))
    /\ UNCHANGED mode

\* A program that uses a stream it has ended.
WriteLate ==
    /\ Free /\ Count("fail") /\ s.ws.t.ended
    /\ Turn(write(s, "t", <<0>>))
    /\ UNCHANGED mode

End == Free /\ ~s.ws.t.ending /\ Turn(end(s, "t")) /\ UNCHANGED <<mode, calls>>

Cork == /\ Free /\ Count("cork") /\ ~s.ws.t.ended
        /\ s' = [s EXCEPT !.ws.t.corked = @ + 1]
        /\ UNCHANGED mode
Uncork == /\ Free /\ s.ws.t.corked > 0 /\ Turn(uncork(s, "t")) /\ UNCHANGED <<mode, calls>>

Attach ==
    /\ Free
    /\ \/ mode = "pipe" /\ ~s.piped /\ ~s.ws.w.ended /\ Turn(pipe(s))
       \/ mode = "data" /\ ~s.attached /\ Turn(onData(s))
       \/ mode = "readable" /\ ~s.attached /\ Turn(onReadable(s))
    /\ UNCHANGED <<mode, calls>>

Unpipe == Free /\ s.piped /\ Count("unpipe") /\ Turn(unpipe(s)) /\ UNCHANGED mode

Pause == Free /\ mode = "data" /\ s.attached /\ Count("pause") /\ Turn(pause(s)) /\ UNCHANGED mode
Resume == /\ Free /\ mode = "data" /\ s.attached /\ s.rs.flowing = "no" /\ Turn(resume(s))
          /\ UNCHANGED <<mode, calls>>

Destroy == Free /\ Count("destroy") /\ Turn(destroy(s)) /\ UNCHANGED mode

AtWork == s.ts.transforming /\ s.ts.chunk[2] = "late"
TransformDone == Free /\ AtWork /\ Turn(Transformed(s)) /\ UNCHANGED <<mode, calls>>

\* The destination's own _write answers.
SinkDone ==
    /\ Free /\ s.ws.w.writing
    /\ \/ Turn(onwrite(s, "w", FALSE)) /\ UNCHANGED calls
       \/ Turn(onwrite(s, "w", TRUE)) /\ Count("fail")
    /\ UNCHANGED mode

Program == Write \/ WriteLate \/ End \/ Cork \/ Uncork \/ Attach \/ Unpipe \/ Pause \/ Resume \/ Destroy
Answers == TransformDone \/ SinkDone

Next == drainQueue \/ Tick \/ Program \/ Answers

Spec == Init /\ [][Next]_vars

-----------------------------------------------------------------------------
(* Properties *)

\* No error was reported by the destination and no stream was destroyed.
Sound == ~s.rs.destroyed /\ ~s.ws.w.errorEmitted

\* What reaches the consumer is what the transform made, in its order, nothing
\* twice: chunks that are buffered, those that come while the stream flows, and
\* those a paused or unpiped stream holds back.
InOrder == Sound => IsPrefix(s.out, s.pushed)

\* The events and callbacks of one life: finish comes once, after the end of the
\* writable side and after the callback of every write; end comes once, after all
\* output and, unless the stream is destroyed, after finish; no write's callback
\* is called twice, nor before that of an earlier write, unless that one waits in
\* nextTick's queue; the library never meets the states it throws an exception for.
Once(e) == Cardinality({i \in DOMAIN s.seen : s.seen[i] = e}) <= 1
EndAfterFinish ==
    \A i \in DOMAIN s.seen : s.seen[i] = <<"t", "end">> =>
        \E j \in 1..(i - 1) : s.seen[j] = <<"t", "finish">>

Called == Range(s.called) \ {0}
InQueue(w) == \E job \in Range(s.ticks) : /\ job[1] = "afterWrite" /\ job[2] = "t"
                                          /\ job[4][1] = w
CallbacksOnce ==
    /\ \A i, j \in DOMAIN s.called : i # j /\ s.called[i] > 0 => s.called[i] # s.called[j]
    /\ \A w \in Called : \A earlier \in 1..w : earlier \in Called \/ InQueue(earlier)

EventsInOrder ==
    /\ Once(<<"t", "end">>) /\ Once(<<"t", "finish">>) /\ Once(<<"w", "finish">>) /\ ~s.faulty
    /\ CallbacksOnce
    /\ <<"t", "finish">> \in Range(s.seen) => s.ws.t.ended /\ Called = 1..calls.write
    /\ ~s.rs.destroyed => EndAfterFinish
    /\ s.rs.endEmitted /\ ~s.rs.destroyed /\ mode # "pipe" => s.out = s.pushed

\* A full destination stops the flow: what waits in it exceeds the mark by one
\* chunk at most for each time the pipe was made again.
Backpressure == Sound => s.ws.w.length <= HighWaterMark + calls.unpipe

\* Nothing is under way, and the program neither holds input back nor output.
Quiet ==
    /\ Free /\ s.ticks = <<>> /\ ~AtWork /\ ~s.ws.w.writing /\ s.ws.t.corked = 0
    /\ CASE mode = "pipe" -> s.piped \/ s.ws.w.finished
         [] mode = "data" -> s.attached /\ s.rs.flowing # "no"
         [] mode = "readable" -> s.attached

\* The Decoder has reported that its input is no MessagePack; its _transform
\* returns without its callback (msgpack5.js:911-917) and takes no chunk after it.
Garbled == s.ts.transforming /\ s.ts.chunk[2] = "garbled"

\* A `readable' listener that came when a chunk was buffered already hears of it
\* only when the buffer has reached its mark or the input has ended.
Unheard == s.late /\ s.out = <<>> /\ ~s.rs.ended /\ Len(s.rs.buffer) < HighWaterMark

\* The streams never stall: when nothing is under way any more, all output has
\* been delivered, no writer is left waiting for a drain, and after the end the
\* writable side, the readable side and a piped destination are all finished.
\* There are two exceptions: output a late `readable' listener does not hear of,
\* and, for a Decoder whose input was garbled, all that comes after that.
NoStall ==
    Quiet /\ Sound =>
    /\ s.out = s.pushed \/ Unheard
    /\ s.ws.t.needDrain => s.ws.t.ended \/ Unheard \/ Garbled
    /\ s.ws.t.ended /\ ~Garbled => /\ s.ws.t.finished /\ s.rs.endEmitted
                                   /\ mode = "pipe" => s.ws.w.finished
==============================================================================
