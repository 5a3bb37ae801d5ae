------------------------------- MODULE Ingest -------------------------------
(***************************************************************************)
(* The OTLP receiver (internal/agent/otlpingest): admission of gRPC and    *)
(* HTTP pushes under three shared bounds (pre-decode bytes, decoded bytes, *)
(* handlers in flight), the forwarding of what was admitted through the    *)
(* router, and the answer the sender acts on. grpc-go and net/http are     *)
(* modelled by the callbacks the receiver registers with them.             *)
(***************************************************************************)
EXTENDS Route
FX == INSTANCE FiniteSetsExt

CONSTANTS Transport,     \* [pushes -> {"grpc", "http"}]
          Chunks,        \* [pushes -> granules of an HTTP body]
          DecodedSize,   \* [pushes -> decodedSizeOf its payload]
          Refused,       \* resources the admission hook drops
          MaxRecv,       \* grpcMaxRecv, in granules
          BufferLimit,   \* buffer.limit, in granules
          DecodedLimit,  \* decoded.limit
          MaxInFlight,
          MaxTries       \* bound: pushes of one payload by its sender

Pushes == {x \in Producers : Kind[x] = "push"}

ASSUME IngestAssumption ==
  /\ MaxRecv \in Nat \ {0} /\ MaxInFlight \in Nat \ {0}
  /\ BufferLimit >= MaxRecv /\ MaxTries \in Nat
  /\ \A p \in Pushes : DecodedSize[p] \in Nat /\ Chunks[p] \in Nat \ {0}

VARIABLES
  buffer, decoded, inFlight,  \* Server.buffer.used, .decoded.used, len(inFlight)
  push,      \* per push: the stream or request serving it
  serving    \* Listeners.Run: "up", "draining", "closed"

ingestVars == <<buffer, decoded, inFlight, push, serving>>
pushVars == <<routeVars, ingestVars>>

\* held: bytes reserved before the decode; claim: the entry of decodedClaims
\* (0 none, -1 refused); dec, slot: what the handler's defers give back.
Fresh == [pc |-> "idle", held |-> 0, claim |-> 0, key |-> FALSE, dec |-> 0,
          slot |-> FALSE, alive |-> FALSE, ans |-> "none", tries |-> 0]

Grpc(p) == Transport[p] = "grpc"
Set(p, r) == push' = [push EXCEPT ![p] = r]

IngestInit ==
  /\ buffer = 0 /\ decoded = 0 /\ inFlight = 0
  /\ push = [p \in Pushes |-> Fresh]
  /\ serving = "up"

-----------------------------------------------------------------------------
(* byteBudget.reserve adds, looks, and takes back what did not fit: between *)
(* the two steps other pushes see the overshoot.                            *)

Fits(used, n, limit) == used + n <= limit

\* chargeDecoded: a push that decodes into nothing is charged nothing and admitted.
ChargeFits(p) == DecodedSize[p] = 0 \/ Fits(decoded, DecodedSize[p], DecodedLimit)

\* releaseReservation, reservation.expire and the context's AfterFunc all take
\* the bytes through one Swap of held.
ReleaseHeld(p) == buffer' = buffer - push[p].held

(* --- gRPC ---------------------------------------------------------------- *)

\* tapAdmit, before the message is received.
Tap(p) ==
  /\ Grpc(p) /\ push[p].pc = "idle" /\ push[p].tries <= MaxTries /\ serving = "up"
  /\ buffer' = buffer + MaxRecv
  /\ IF Fits(buffer, MaxRecv, BufferLimit)
     THEN Set(p, [push[p] EXCEPT !.pc = "stream", !.held = MaxRecv, !.alive = TRUE])
     ELSE Set(p, [push[p] EXCEPT !.pc = "tapUndo"])
  /\ UNCHANGED <<routeVars, decoded, inFlight, serving>>

TapUndo(p) ==
  /\ push[p].pc = "tapUndo"
  /\ buffer' = buffer - MaxRecv
  /\ Set(p, [push[p] EXCEPT !.pc = "ended", !.ans = "retry"])
  /\ UNCHANGED <<routeVars, decoded, inFlight, serving>>

\* Mutant: the entry is overwritten.
PutOverwrites(old, n) == n

\* decodedClaims.put: a second message of one stream is decoded into the same
\* request, so its charge is added to the first one's.
Put(old, n) == IF old > 0 THEN IF n > 0 THEN old + n ELSE old ELSE n

\* The codec refuses a message that nests too deep (checkNesting), a second one
\* of the stream too, before anything is charged; grpc-go answers it for good.
TooDeep(p) ==
  /\ push[p].pc \in {"stream", "probe"} /\ Grpc(p)
  /\ push[p].pc = "stream" => push[p].alive
  /\ Set(p, [push[p] EXCEPT !.pc = "ending", !.ans = "permanent"])
  /\ UNCHANGED <<routeVars, buffer, decoded, inFlight, serving>>

\* claimDecode in the codec, then the decode; on success grpc-go reports
\* InPayload, which binds the message to the reservation. An empty push files
\* no claim, which is the claim 0 it has.
ClaimDecode(p) ==
  /\ push[p].pc \in {"stream", "probe"} /\ Grpc(p)
  /\ push[p].pc = "stream" => push[p].alive
  /\ decoded' = decoded + DecodedSize[p]
  /\ IF ChargeFits(p)
     THEN \/ Set(p, [push[p] EXCEPT !.claim = Put(@, DecodedSize[p]), !.key = TRUE,
                                    !.pc = IF @ = "stream" THEN "probe" ELSE "ending",
                                    !.ans = IF push[p].pc = "probe" THEN "permanent" ELSE @])
          \/ Set(p, [push[p] EXCEPT !.claim = Put(@, DecodedSize[p]), !.pc = "malformed"])
     ELSE Set(p, [push[p] EXCEPT !.pc = IF @ = "stream" THEN "claimUndo" ELSE "claimUndo2"])
  /\ UNCHANGED <<routeVars, buffer, inFlight, serving>>

ClaimUndo(p) ==
  /\ push[p].pc \in {"claimUndo", "claimUndo2"}
  /\ decoded' = decoded - DecodedSize[p]
  /\ Set(p, [push[p] EXCEPT !.claim = Put(@, -1), !.key = TRUE,
                            !.pc = IF @ = "claimUndo" THEN "probe" ELSE "ending",
                            !.ans = IF push[p].pc = "claimUndo2" THEN "permanent" ELSE @])
  /\ UNCHANGED <<routeVars, buffer, inFlight, serving>>

\* The decode failed: abandonDecode returns the claim before grpc-go answers.
AbandonDecode(p) ==
  /\ push[p].pc = "malformed"
  /\ decoded' = decoded - push[p].claim
  /\ Set(p, [push[p] EXCEPT !.claim = 0, !.pc = "ending", !.ans = "permanent"])
  /\ UNCHANGED <<routeVars, buffer, inFlight, serving>>

\* The stream dies before its message, or after it instead of half-closing:
\* the method returns without the interceptor.
StreamFails(p) ==
  /\ Grpc(p) /\ push[p].pc \in {"stream", "probe"} /\ ~push[p].alive
  /\ Set(p, [push[p] EXCEPT !.pc = "ending", !.ans = "retry"])
  /\ UNCHANGED <<routeVars, buffer, decoded, inFlight, serving>>

\* limitUnary: collect the claim, take a slot, give the reservation back.
LimitUnary(p) ==
  /\ Grpc(p) /\ push[p].pc = "probe"
  /\ LET n == push[p].claim
     IN  \/ /\ n = -1
            /\ ReleaseHeld(p)
            /\ Set(p, [push[p] EXCEPT !.claim = 0, !.held = 0, !.pc = "ending", !.ans = "retry"])
            /\ UNCHANGED <<decoded, inFlight>>
         \/ /\ n >= 0 /\ inFlight >= MaxInFlight
            /\ decoded' = decoded - n
            /\ Set(p, [push[p] EXCEPT !.claim = 0, !.pc = "ending", !.ans = "retry"])
            /\ UNCHANGED <<buffer, inFlight>>
         \/ /\ n >= 0 /\ inFlight < MaxInFlight
            /\ inFlight' = inFlight + 1
            /\ ReleaseHeld(p)
            /\ Set(p, [push[p] EXCEPT !.claim = 0, !.dec = n, !.slot = TRUE, !.held = 0, !.pc = "handle"])
            /\ UNCHANGED decoded
  /\ UNCHANGED <<routeVars, serving>>

\* stats.End, on the goroutine that ran the handler: the reaper returns a
\* claim nobody collected, and the stream's context ends.
StreamEnd(p) ==
  /\ Grpc(p) /\ push[p].pc = "ending"
  /\ decoded' = IF push[p].key /\ push[p].claim > 0 THEN decoded - push[p].claim ELSE decoded
  /\ Set(p, [push[p] EXCEPT !.pc = "ended", !.claim = IF push[p].key THEN 0 ELSE @, !.key = FALSE,
                            !.alive = FALSE])
  /\ UNCHANGED <<routeVars, buffer, inFlight, serving>>

\* context.AfterFunc(ctx, r.release), in a goroutine of its own.
ReleaseOnDone(p) ==
  /\ Grpc(p) /\ push[p].held > 0 /\ ~push[p].alive
  /\ ReleaseHeld(p)
  /\ Set(p, [push[p] EXCEPT !.held = 0])
  /\ UNCHANGED <<routeVars, decoded, inFlight, serving>>

\* Mutant: the window reclaims the bytes but leaves the stream open.
ExpireKeepsStream(p) ==
  /\ Grpc(p) /\ push[p].held > 0
  /\ ReleaseHeld(p)
  /\ Set(p, [push[p] EXCEPT !.held = 0])
  /\ UNCHANGED <<routeVars, decoded, inFlight, serving>>

\* The decode window elapses (reserveWindow): the bytes are reclaimed and the
\* stream is cancelled, whatever it is doing.
Expire(p) ==
  /\ Grpc(p) /\ push[p].held > 0
  /\ ReleaseHeld(p)
  /\ Set(p, [push[p] EXCEPT !.held = 0, !.alive = FALSE])
  /\ UNCHANGED <<routeVars, decoded, inFlight, serving>>

(* --- HTTP ---------------------------------------------------------------- *)

\* servePush: BodyReader.Read charges the body granule by granule.
HTTPBegin(p) ==
  /\ ~Grpc(p) /\ push[p].pc = "idle" /\ push[p].tries <= MaxTries /\ serving = "up"
  /\ Set(p, [push[p] EXCEPT !.pc = "body", !.alive = TRUE])
  /\ UNCHANGED <<routeVars, buffer, decoded, inFlight, serving>>

ReadChunk(p) ==
  /\ push[p].pc = "body" /\ push[p].held < Chunks[p] /\ push[p].alive
  /\ buffer' = buffer + 1
  /\ IF Fits(buffer, 1, BufferLimit)
     THEN Set(p, [push[p] EXCEPT !.held = @ + 1])
     ELSE Set(p, [push[p] EXCEPT !.pc = "chunkUndo"])
  /\ UNCHANGED <<routeVars, decoded, inFlight, serving>>

\* The granule that did not fit, then fail(): everything held goes back.
ChunkUndo(p) ==
  /\ push[p].pc = "chunkUndo"
  /\ buffer' = buffer - 1 - push[p].held
  /\ Set(p, [push[p] EXCEPT !.held = 0, !.pc = "ended", !.ans = "retry", !.alive = FALSE])
  /\ UNCHANGED <<routeVars, decoded, inFlight, serving>>

\* Read fails otherwise: an upload that breaks off or passes the server's read
\* timeout is answered retryably, a body of the wrong kind for good.
BodyFails(p) ==
  /\ push[p].pc = "body"
  /\ \E a \in {"retry", "permanent"} :
       /\ a = "permanent" => push[p].alive
       /\ Set(p, [push[p] EXCEPT !.held = 0, !.pc = "ended", !.ans = a, !.alive = FALSE])
  /\ ReleaseHeld(p)
  /\ UNCHANGED <<routeVars, decoded, inFlight, serving>>

\* acquire, after the whole body was read.
HTTPAcquire(p) ==
  /\ push[p].pc = "body" /\ push[p].held = Chunks[p]
  /\ IF inFlight < MaxInFlight
     THEN /\ inFlight' = inFlight + 1
          /\ Set(p, [push[p] EXCEPT !.slot = TRUE, !.pc = "charge"])
          /\ UNCHANGED buffer
     ELSE /\ ReleaseHeld(p)
          /\ Set(p, [push[p] EXCEPT !.held = 0, !.pc = "ended", !.ans = "retry", !.alive = FALSE])
          /\ UNCHANGED inFlight
  /\ UNCHANGED <<routeVars, decoded, serving>>

\* chargeDecoded, and the decode under it.
HTTPCharge(p) ==
  /\ push[p].pc = "charge"
  /\ decoded' = decoded + DecodedSize[p]
  /\ IF ChargeFits(p)
     THEN \E ok \in BOOLEAN :
            Set(p, [push[p] EXCEPT !.dec = DecodedSize[p], !.pc = IF ok THEN "handle" ELSE "return",
                                   !.ans = IF ok THEN @ ELSE "permanent"])
     ELSE Set(p, [push[p] EXCEPT !.pc = "chargeUndo"])
  /\ UNCHANGED <<routeVars, buffer, inFlight, serving>>

ChargeUndo(p) ==
  /\ push[p].pc = "chargeUndo"
  /\ decoded' = decoded - DecodedSize[p]
  /\ Set(p, [push[p] EXCEPT !.pc = "return", !.ans = "retry"])
  /\ UNCHANGED <<routeVars, buffer, inFlight, serving>>

(* --- the handler --------------------------------------------------------- *)

Admitted(p) == Payload[p] \ Refused

\* forwardLogs, forwardMetrics, forwardTraces: a push of traces may be refused by
\* the guard of the receive path (rejectTraces), before anything else is done with
\* it and for good; the admission hook drops resources, and a payload left empty
\* is answered without an export.
Forward(p) ==
  /\ push[p].pc = "handle"
  /\ \/ /\ Set(p, [push[p] EXCEPT !.pc = "return", !.ans = "permanent"])
        /\ UNCHANGED routeVars
     \/ /\ Admitted(p) = {}
        /\ Set(p, [push[p] EXCEPT !.pc = "return", !.ans = "ok"])
        /\ UNCHANGED routeVars
     \/ /\ Admitted(p) # {}
        /\ StartExport(p, Admitted(p))
        /\ Set(p, [push[p] EXCEPT !.pc = "forward"])
  /\ UNCHANGED <<buffer, decoded, inFlight, serving>>

\* grpcForwardStatus and HTTPForwardStatus: permanent stays permanent, every
\* other failure is a status the sender retries.
ForwardStatus(a) == CASE a = "ok" -> "ok" [] a = "permanent" -> "permanent" [] OTHER -> "retry"

ForwardReturns(p) ==
  /\ push[p].pc = "forward" /\ Answered(p)
  /\ Set(p, [push[p] EXCEPT !.pc = "return", !.ans = ForwardStatus(call[p].ans)])
  /\ UNCHANGED <<routeVars, buffer, decoded, inFlight, serving>>

\* The handler's defers: decoded charge, slot and, over HTTP, the body's bytes.
HandlerReturns(p) ==
  /\ push[p].pc = "return"
  /\ decoded' = decoded - push[p].dec
  /\ inFlight' = inFlight - 1
  /\ IF Grpc(p)
     THEN Set(p, [push[p] EXCEPT !.dec = 0, !.slot = FALSE, !.pc = "ending"]) /\ UNCHANGED buffer
     ELSE /\ Set(p, [push[p] EXCEPT !.dec = 0, !.slot = FALSE, !.held = 0, !.alive = FALSE, !.pc = "ended"])
          /\ ReleaseHeld(p)
  /\ UNCHANGED <<routeVars, serving>>

(* --- the sender, and shutdown -------------------------------------------- *)

\* The peer cancels or resets at any moment; a sender that did so, or that was
\* answered retryably, may push the same payload again.
PeerCancel(p) ==
  /\ push[p].alive
  /\ Set(p, [push[p] EXCEPT !.alive = FALSE])
  /\ UNCHANGED <<routeVars, buffer, decoded, inFlight, serving>>

SenderRetries(p) ==
  /\ push[p].pc = "ended" /\ push[p].held = 0 /\ push[p].ans = "retry"
  /\ push[p].tries < MaxTries
  /\ Set(p, [Fresh EXCEPT !.tries = push[p].tries + 1])
  /\ call' = [call EXCEPT ![p] = Idle]
  /\ UNCHANGED <<memo, accepted, lostAns, refused, buffer, decoded, inFlight, serving>>

\* Listeners.shutdown: no new push, then the grace runs out and the
\* connections of those in flight are closed.
Drain ==
  /\ serving = "up" /\ serving' = "draining"
  /\ UNCHANGED <<routeVars, buffer, decoded, inFlight, push>>

GraceExpires ==
  /\ serving = "draining" /\ serving' = "closed"
  /\ push' = [p \in Pushes |-> [push[p] EXCEPT !.alive = FALSE]]
  /\ UNCHANGED <<routeVars, buffer, decoded, inFlight>>

-----------------------------------------------------------------------------
ServerStep(p) ==
  \/ TapUndo(p) \/ ClaimUndo(p) \/ AbandonDecode(p) \/ StreamFails(p) \/ LimitUnary(p) \/ StreamEnd(p)
  \/ ReleaseOnDone(p) \/ ChunkUndo(p) \/ HTTPAcquire(p) \/ HTTPCharge(p)
  \/ ChargeUndo(p) \/ Forward(p) \/ ForwardReturns(p) \/ HandlerReturns(p)

PeerStep(p) ==
  \/ Tap(p) \/ TooDeep(p) \/ ClaimDecode(p) \/ HTTPBegin(p) \/ ReadChunk(p)
  \/ PeerCancel(p) \/ SenderRetries(p)

Timeout(p) == Expire(p) \/ BodyFails(p)

PushNext ==
  \/ \E p \in Pushes : ServerStep(p) \/ PeerStep(p) \/ Timeout(p)
  \/ \E x \in Pushes : ExportStep(x) /\ UNCHANGED ingestVars
  \/ Drain \/ GraceExpires

PushSpec == RouteInit /\ IngestInit /\ [][PushNext]_pushVars

\* Handlers and exports run, and the two timers fire: the decode window and
\* the HTTP server's read timeout. Nothing is assumed of a peer.
PushFairness ==
  /\ \A p \in Pushes : WF_pushVars(ServerStep(p)) /\ WF_pushVars(Timeout(p))
  /\ \A x \in Pushes : WF_pushVars(ExportStep(x) /\ UNCHANGED ingestVars)

-----------------------------------------------------------------------------
Undoing(p) == [buf |-> CASE push[p].pc = "tapUndo" -> MaxRecv [] push[p].pc = "chunkUndo" -> 1 [] OTHER -> 0,
               dec |-> IF push[p].pc \in {"claimUndo", "claimUndo2", "chargeUndo"} THEN DecodedSize[p] ELSE 0]

Total(f(_)) == FX!MapThenSumSet(f, Pushes)

(* Each shared bound counts exactly what the pushes hold, at every step: a    *)
(* charge that some path forgets sheds every later push for the life of the   *)
(* process, one returned twice lets the receiver hold more than its bound.    *)
(* The reservation has three collectors (interceptor, context, window), the   *)
(* decoded claim two (interceptor, reaper).                                   *)
BudgetsExact ==
  /\ buffer = Total(LAMBDA p : push[p].held + Undoing(p).buf)
  /\ decoded = Total(LAMBDA p : push[p].dec + (IF push[p].claim > 0 THEN push[p].claim ELSE 0) + Undoing(p).dec)
  /\ inFlight = Cardinality({p \in Pushes : push[p].slot})
  /\ Total(LAMBDA p : push[p].held) <= BufferLimit
  /\ Total(LAMBDA p : push[p].dec + (IF push[p].claim > 0 THEN push[p].claim ELSE 0)) <= DecodedLimit
  /\ inFlight <= MaxInFlight

(* The status a sender gets is one it can act on: OK only if everything that  *)
(* was admitted is with the destination it belongs to, and a rejection that   *)
(* makes it drop the batch only if nothing that was forwarded could still be  *)
(* delivered by a retry.                                                      *)
SenderToldTruth ==
  \A p \in Pushes :
    /\ push[p].ans = "ok" => \A r \in Admitted(p) : Delivered(p, r)
    /\ push[p].ans = "permanent" /\ Answered(p) =>
         \A r \in Admitted(p) : Delivered(p, r) \/ <<p, r>> \in refused

(* Every push ends, whatever its peer does: one that opens a stream and sends *)
(* nothing is reaped by the window, a stalled upload by the read timeout, and *)
(* what they held comes back.                                                 *)
PushesEnd ==
  \A p \in Pushes : (push[p].pc \notin {"idle", "ended"}) ~> (push[p].pc = "ended" /\ push[p].held = 0)
=============================================================================
