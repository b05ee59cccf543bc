------------------------ MODULE FingerprintEndpoint ------------------------
(***************************************************************************)
(* The POST /fingerprint route of src/server/investigate_server.ts: its    *)
(* own permit pool, and the batch that fingerprint_items probes chunk by   *)
(* chunk under a whole-request deadline.  A probe never throws past its    *)
(* item (typed_probe.ts), so an item settles to its hash or to null.       *)
(*                                                                         *)
(* The route reads two variables of EngineServer, accepting and up; its    *)
(* steps are composed with the server's in EngineProcess.                  *)
(***************************************************************************)
EXTENDS EngineServer

CONSTANTS
  Fingerprint,     \* the POST /fingerprint requests of a behaviour
  Items,           \* items in a batch; the wire schema wants at least one
  ChunkOption,     \* opts.fingerprint_batch_concurrency
  FpConcurrency    \* opts.fingerprint_max_concurrency

ASSUME FingerprintConstants ==
  /\ IsFiniteSet(Fingerprint)
  /\ Items \in Nat \ {0}
  /\ ChunkOption \in Int
  /\ FpConcurrency \in Int

VARIABLES
  fp_available,    \* permits of the fingerprint pool
  fp_phase,        \* where the handler of a request is
  fp_answer,       \* what the client was answered
  out,             \* entries of the response so far
  chunk,           \* the chunk in flight: one slot per item
  overdue          \* the request's deadline has passed

fpVars == <<fp_available, fp_phase, fp_answer, out, chunk, overdue>>

Null == 0
Pending == -1

ChunkSize == IF ChunkOption < 1 THEN 1 ELSE ChunkOption
FpPoolSize == IF FpConcurrency < 1 THEN 1 ELSE FpConcurrency

\* What a client may be answered.
FpAnswer == {"none", "ok", "shutting down", "unauthorized", "invalid", "at capacity"}

Probing == {f \in Fingerprint : fp_phase[f] = "probing"}

-----------------------------------------------------------------------------
FpTypeOK ==
  /\ fp_available \in 0 .. FpPoolSize
  /\ fp_phase \in [Fingerprint ->
       {"unsent", "reading", "probing", "answered", "refused", "cut"}]
  /\ fp_answer \in [Fingerprint -> FpAnswer]
  /\ out \in [Fingerprint -> Seq(0 .. Items)]
  /\ chunk \in [Fingerprint -> Seq(Pending .. Items)]
  /\ overdue \in [Fingerprint -> BOOLEAN]

FpInit ==
  /\ fp_available = FpPoolSize
  /\ fp_phase = [f \in Fingerprint |-> "unsent"]
  /\ fp_answer = [f \in Fingerprint |-> "none"]
  /\ out = [f \in Fingerprint |-> <<>>]
  /\ chunk = [f \in Fingerprint |-> <<>>]
  /\ overdue = [f \in Fingerprint |-> FALSE]

-----------------------------------------------------------------------------
(* The handler up to the probes.                                           *)

FpRefuse(f, why) ==
  /\ fp_phase' = [fp_phase EXCEPT ![f] = "refused"]
  /\ fp_answer' = [fp_answer EXCEPT ![f] = why]
  /\ UNCHANGED <<fp_available, out, chunk, overdue>>

FpArrive(f) ==
  /\ up
  /\ fp_phase[f] = "unsent"
  /\ \/ ~accepting /\ FpRefuse(f, "shutting down")
     \/ accepting /\ FpRefuse(f, "unauthorized")
     \/ /\ accepting
        /\ fp_phase' = [fp_phase EXCEPT ![f] = "reading"]
        /\ UNCHANGED <<fp_available, fp_answer, out, chunk, overdue>>
  /\ UNCHANGED <<accepting, up>>

\* The slots of the chunk that starts after n entries.
NextChunk(n) ==
  [i \in 1 .. (IF Items - n < ChunkSize THEN Items - n ELSE ChunkSize) |-> Pending]

FpCanAcquire == fp_available > 0

\* The permit is taken and the first chunk launched in the same block: the
\* deadline is at least a millisecond away.
FpAdmit(f) ==
  /\ FpCanAcquire
  /\ fp_available' = fp_available - 1
  /\ fp_phase' = [fp_phase EXCEPT ![f] = "probing"]
  /\ chunk' = [chunk EXCEPT ![f] = NextChunk(0)]
  /\ UNCHANGED <<fp_answer, out, overdue>>

FpBodyRead(f) ==
  /\ up
  /\ fp_phase[f] = "reading"
  /\ \/ FpRefuse(f, "invalid")
     \/ ~FpCanAcquire /\ FpRefuse(f, "at capacity")
     \/ FpAdmit(f)
  /\ UNCHANGED <<accepting, up>>

-----------------------------------------------------------------------------
(* The batch.                                                              *)

\* An item settles in the slot of its own index, whenever its probe ends.
SettleItem(f, i) ==
  /\ up
  /\ f \in Probing
  /\ i \in DOMAIN chunk[f]
  /\ chunk[f][i] = Pending
  /\ \E value \in {Len(out[f]) + i, Null} :
       chunk' = [chunk EXCEPT ![f][i] = value]
  /\ UNCHANGED <<accepting, up, fp_available, fp_phase, fp_answer, out, overdue>>

Deadline(f) ==
  /\ up
  /\ f \in Probing
  /\ ~overdue[f]
  /\ overdue' = [overdue EXCEPT ![f] = TRUE]
  /\ UNCHANGED <<accepting, up, fp_available, fp_phase, fp_answer, out, chunk>>

\* The permit returned on the success path only, not when the deadline pads.
FpRespondKeepingPermit(f, entries) ==
  /\ out' = [out EXCEPT ![f] = entries]
  /\ chunk' = [chunk EXCEPT ![f] = <<>>]
  /\ fp_phase' = [fp_phase EXCEPT ![f] = "answered"]
  /\ fp_answer' = [fp_answer EXCEPT ![f] = "ok"]
  /\ UNCHANGED <<overdue, fp_available>>

\* The answer is always 200 and the finally block returns the permit.
FpRespond(f, entries) ==
  /\ out' = [out EXCEPT ![f] = entries]
  /\ chunk' = [chunk EXCEPT ![f] = <<>>]
  /\ fp_phase' = [fp_phase EXCEPT ![f] = "answered"]
  /\ fp_answer' = [fp_answer EXCEPT ![f] = "ok"]
  /\ fp_available' = IF fp_available < FpPoolSize THEN fp_available + 1 ELSE fp_available
  /\ UNCHANGED overdue

LaunchChunk(f, entries) ==
  /\ out' = [out EXCEPT ![f] = entries]
  /\ chunk' = [chunk EXCEPT ![f] = NextChunk(Len(entries))]
  /\ UNCHANGED <<fp_available, fp_phase, fp_answer, overdue>>

\* The rest of the batch degraded to null.
Padded(entries) == [i \in 1 .. Items |-> IF i <= Len(entries) THEN entries[i] ELSE Null]

\* A deadline that stops the batch where it stands.
FinishTruncated(f, entries) ==
  IF Len(entries) < Items /\ ~overdue[f]
    THEN LaunchChunk(f, entries)
    ELSE FpRespond(f, entries)

\* A deadline that leaves the loop without an answer.
FinishUnanswered(f, entries) ==
  IF Len(entries) < Items /\ ~overdue[f]
    THEN LaunchChunk(f, entries)
    ELSE Len(entries) = Items /\ FpRespond(f, entries)

\* The loop head after a chunk: all done, past the deadline, or one chunk more.
Finish(f, entries) ==
  IF Len(entries) < Items /\ ~overdue[f]
    THEN LaunchChunk(f, entries)
    ELSE FpRespond(f, Padded(entries))

ChunkDone(f) ==
  /\ up
  /\ f \in Probing
  /\ \A i \in DOMAIN chunk[f] : chunk[f][i] # Pending
  /\ Finish(f, out[f] \o chunk[f])
  /\ UNCHANGED <<accepting, up>>

-----------------------------------------------------------------------------
(* What the server does to this route.                                     *)

\* server.stop(true) closes the connections, whatever the handlers await.
CutFingerprints ==
  /\ fp_phase' = [f \in Fingerprint |->
       IF fp_phase[f] \in {"reading", "probing"} THEN "cut" ELSE fp_phase[f]]
  /\ UNCHANGED <<fp_available, fp_answer, out, chunk, overdue>>

FingerprintStep(f) ==
  \/ FpArrive(f) \/ FpBodyRead(f) \/ Deadline(f) \/ ChunkDone(f)
  \/ \E i \in 1 .. ChunkSize : SettleItem(f, i)

\* A probe ends: its data calls carry a timeout.
FpFairness ==
  \A f \in Fingerprint :
    /\ WF_fpVars(ChunkDone(f))
    /\ \A i \in 1 .. ChunkSize : WF_fpVars(SettleItem(f, i))

-----------------------------------------------------------------------------
\* A fingerprint permit is out exactly for the batches being probed, whether
\* they end by their last chunk or by their deadline.
FpPermitsMatchProbing == FpTypeOK /\ (up => fp_available + Cardinality(Probing) = FpPoolSize)

\* One entry per input in input order, whatever order the probes ended in and
\* wherever the deadline fell: entry i is the hash of item i or null.
EntryPerItem ==
  \A f \in Fingerprint : fp_phase[f] = "answered" =>
    /\ Len(out[f]) = Items
    /\ \A i \in 1 .. Items : out[f][i] \in {i, Null}

\* An admitted batch is answered, unless the server closes first.
AdmittedBatchAnswered ==
  \A f \in Fingerprint : (f \in Probing) ~> (fp_phase[f] = "answered" \/ ~up)

=============================================================================
