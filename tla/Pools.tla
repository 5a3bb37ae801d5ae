-------------------------------- MODULE Pools --------------------------------
(***************************************************************************)
(* What the export client reuses (otlpexport gzip.go and pooledBody): the  *)
(* gzip writers and the buffers of request bodies, and the gzip readers of *)
(* received messages.  The transport goes on reading a body after Do has   *)
(* returned; a message is read by one goroutine and closed by another.     *)
(* An object nobody refers to is collected and stands for a new one.       *)
(***************************************************************************)
EXTENDS Naturals

CONSTANTS Posts, Msgs,      \* requests sent, messages received
          Bufs, Writers, Readers,
          none

ASSUME PoolsAssumption == none \notin Bufs \cup Writers \cup Readers \cup Posts \cup Msgs

VARIABLES
  post,      \* post -> [pc, kind, buf, writer]
  reading,   \* posts whose body the transport may still read
  consumed,  \* pooledBody.consumed
  content,   \* buffer -> the post whose payload it holds
  free,      \* buffers in httpGzipBufs
  target,    \* writer -> the post it compresses for
  writers,   \* warmPool of the writers: [warm, pool: writer -> times in the pool]
  msg,       \* message -> [z, err, busy, closed]
  source,    \* reader -> the message it reads
  readers    \* warmPool of the readers

poolVars == <<post, reading, consumed, content, free, target, writers, msg, source, readers>>

Cold(Z) == [warm |-> none, pool |-> [z \in Z |-> 0]]

PoolsInit ==
  /\ post \in [Posts -> [pc : {"idle"}, kind : {"http", "grpc"}, buf : {none}, writer : {none}]]
  /\ reading = {} /\ consumed = {} /\ content = [b \in Bufs |-> none] /\ free = {}
  /\ target = [z \in Writers |-> none] /\ writers = Cold(Writers)
  /\ msg = [m \in Msgs |-> [z |-> none, err |-> FALSE, busy |-> FALSE, closed |-> FALSE]]
  /\ source = [z \in Readers |-> none] /\ readers = Cold(Readers)

-----------------------------------------------------------------------------
\* warmPool.get: the warm one, else what sync.Pool has or a new one.
Got(p, unused) ==
  IF p.warm # none THEN { [z |-> p.warm, p |-> [p EXCEPT !.warm = none]] }
  ELSE { [z |-> z, p |-> [p EXCEPT !.pool[z] = @ - 1]] : z \in {y \in DOMAIN p.pool : p.pool[y] > 0} }
       \cup { [z |-> z, p |-> p] : z \in unused }
\* warmPool.put
Put(p, z) == IF p.warm = none THEN [p EXCEPT !.warm = z] ELSE [p EXCEPT !.pool[z] = @ + 1]

Pooled(p, z) == p.warm = z \/ p.pool[z] > 0
UnusedWriters == {z \in Writers : ~Pooled(writers, z) /\ \A p \in Posts : post[p].writer # z}
UnusedReaders == {z \in Readers : ~Pooled(readers, z) /\ \A m \in Msgs : msg[m].z # z}
UnusedBufs == {b \in Bufs \ free : \A p \in Posts : post[p].buf = b => post[p].pc = "done" /\ p \notin reading}

-----------------------------------------------------------------------------
\* gzipBody, or the codec's Compress: a buffer (http) and a writer.
Compress(p) ==
  /\ post[p].pc = "idle"
  /\ \E g \in Got(writers, UnusedWriters), b \in free \cup UnusedBufs :
       /\ writers' = g.p /\ target' = [target EXCEPT ![g.z] = p]
       /\ post' = [post EXCEPT ![p] = [pc |-> "compress", kind |-> post[p].kind, writer |-> g.z,
                                       buf |-> IF post[p].kind = "http" THEN b ELSE none]]
       /\ free' = IF post[p].kind = "http" THEN free \ {b} ELSE free
  /\ UNCHANGED <<reading, consumed, content, msg, source, readers>>

\* The payload is written and the writer goes back; an http request is made of
\* the buffer.
Compressed(p) ==
  /\ post[p].pc = "compress"
  /\ target' = [target EXCEPT ![post[p].writer] = none]
  /\ writers' = Put(writers, post[p].writer)
  /\ IF post[p].kind = "http"
     THEN /\ content' = [content EXCEPT ![post[p].buf] = p]
          /\ post' = [post EXCEPT ![p].pc = "do", ![p].writer = none]
     ELSE /\ post' = [post EXCEPT ![p].pc = "closed", ![p].writer = none]
          /\ UNCHANGED content
  /\ UNCHANGED <<reading, consumed, free, msg, source, readers>>

\* pooledGzipWriter.Close again: the writer is no longer its own.
CloseAgain(p) ==
  /\ post[p].pc = "closed" /\ post' = [post EXCEPT ![p].pc = "done"]
  /\ UNCHANGED <<reading, consumed, content, free, target, writers, msg, source, readers>>

\* The write fails, or the request cannot be made: both go back.
CompressFails(p) ==
  /\ post[p].pc = "compress" /\ post[p].kind = "http"
  /\ target' = [target EXCEPT ![post[p].writer] = none]
  /\ writers' = Put(writers, post[p].writer)
  /\ free' = free \cup {post[p].buf}
  /\ post' = [post EXCEPT ![p] = [pc |-> "done", kind |-> post[p].kind, writer |-> none, buf |-> none]]
  /\ UNCHANGED <<reading, consumed, content, msg, source, readers>>

\* Do: the transport's own goroutine starts on the body, if it gets a connection.
StartReading(p) ==
  /\ post[p].pc = "do" /\ p \notin reading \cup consumed
  /\ reading' = reading \cup {p}
  /\ UNCHANGED <<post, consumed, content, free, target, writers, msg, source, readers>>

\* It reads on to the end, or the connection breaks.
ReadToEnd(p) ==
  /\ p \in reading /\ reading' = reading \ {p} /\ consumed' = consumed \cup {p}
  /\ UNCHANGED <<post, content, free, target, writers, msg, source, readers>>
StopReading(p) ==
  /\ p \in reading /\ reading' = reading \ {p}
  /\ UNCHANGED <<post, consumed, content, free, target, writers, msg, source, readers>>

\* Mutant: the buffer goes back whenever Do has returned.
ReleasedAlways(p) == {post[p].buf}
\* pooledBody.release: only a body that was read to its end goes back.
Released(p) == IF p \in consumed THEN {post[p].buf} ELSE {}

\* Do returns, with an answer that may be early, a timeout or an error.
DoReturns(p) ==
  /\ post[p].pc = "do"
  /\ free' = free \cup Released(p)
  /\ consumed' = consumed \ {p}
  /\ post' = [post EXCEPT ![p].pc = "done"]
  /\ UNCHANGED <<reading, content, target, writers, msg, source, readers>>

-----------------------------------------------------------------------------
\* The codec's Decompress; a header that does not parse puts the reader back.
Decompress(m) ==
  /\ msg[m].z = none /\ ~msg[m].err /\ ~msg[m].closed
  /\ \E g \in Got(readers, UnusedReaders) :
       \/ /\ msg' = [msg EXCEPT ![m].z = g.z] /\ readers' = g.p
          /\ source' = [source EXCEPT ![g.z] = m]
       \/ /\ msg' = [msg EXCEPT ![m].err = TRUE, ![m].closed = TRUE]
          /\ readers' = Put(g.p, g.z) /\ source' = [source EXCEPT ![g.z] = none]
  /\ UNCHANGED <<post, reading, consumed, content, free, target, writers>>

\* A Read holds the mutex over the reader's own Read.
ReadBegins(m) ==
  /\ msg[m].z # none /\ ~msg[m].busy
  /\ msg' = [msg EXCEPT ![m].busy = TRUE]
  /\ UNCHANGED <<post, reading, consumed, content, free, target, writers, source, readers>>

\* putGzipReader: reset to the idle stream, then pooled.
ReleaseLocked(m, k) ==
  IF k.z = none THEN msg' = [msg EXCEPT ![m] = k] /\ UNCHANGED <<source, readers>>
  ELSE /\ msg' = [msg EXCEPT ![m] = [k EXCEPT !.z = none]]
       /\ source' = [source EXCEPT ![k.z] = none]
       /\ readers' = Put(readers, k.z)

ReadEnds(m) ==
  /\ msg[m].busy
  /\ \/ msg' = [msg EXCEPT ![m].busy = FALSE] /\ UNCHANGED <<source, readers>>
     \/ ReleaseLocked(m, [msg[m] EXCEPT !.busy = FALSE, !.err = TRUE])
  /\ UNCHANGED <<post, reading, consumed, content, free, target, writers>>

CloseReader(m) ==
  /\ ~msg[m].busy /\ ~msg[m].closed /\ (msg[m].z # none \/ msg[m].err)
  /\ ReleaseLocked(m, [msg[m] EXCEPT !.err = TRUE, !.closed = TRUE])
  /\ UNCHANGED <<post, reading, consumed, content, free, target, writers>>

PoolsNext ==
  \/ \E p \in Posts : \/ Compress(p) \/ Compressed(p) \/ CompressFails(p) \/ CloseAgain(p)
                      \/ StartReading(p) \/ ReadToEnd(p) \/ StopReading(p) \/ DoReturns(p)
  \/ \E m \in Msgs : Decompress(m) \/ ReadBegins(m) \/ ReadEnds(m) \/ CloseReader(m)

PoolsSpec == PoolsInit /\ [][PoolsNext]_poolVars

-----------------------------------------------------------------------------
(* Nothing that is reused is shared: the transport reads the payload of its own  *)
(* request for as long as it reads, even after the request has timed out; a      *)
(* writer compresses for one request, and a reader in use reads its own message, *)
(* though the end of a message and its Close both give the reader back.          *)
PooledOnce ==
  /\ \A p \in reading : content[post[p].buf] = p /\ post[p].buf \notin free
  /\ \A p \in Posts : post[p].pc = "compress" => target[post[p].writer] = p
  /\ \A m \in Msgs : msg[m].z # none => source[msg[m].z] = m /\ ~Pooled(readers, msg[m].z)
=============================================================================
