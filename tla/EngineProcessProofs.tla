------------------------- MODULE EngineProcessProofs -------------------------
(***************************************************************************)
(* Proofs about EngineServer for any set of requests, any number of stop() *)
(* calls, any configured concurrency and any number of progress frames,    *)
(* and about FingerprintEndpoint beside it: permits and entries, for any   *)
(* number of items in a batch, any configured chunk size and pool size.    *)
(***************************************************************************)
EXTENDS EngineProcess, FiniteSetTheorems, TLAPS

\* The pool holds at least one permit, whatever the environment says.
LEMMA PoolSizeType == PoolSize \in Nat /\ PoolSize >= 1
  BY EngineConstants DEF PoolSize

\* Frames appended to a stream stay frames of the wire.
LEMMA EnqueueType ==
  ASSUME TypeOK, NEW r \in Investigation, NEW f \in Terminal \cup {"progress"}
  PROVE  Enqueue(r, f) \in [Investigation -> Seq(Terminal \cup {"progress"})]
  BY DEF TypeOK, Enqueue

\* Every variable keeps its type under every step.
LEMMA TypeStep == TypeOK /\ [Next]_vars => TypeOK'
<1> SUFFICES ASSUME TypeOK, [Next]_vars PROVE TypeOK'
  OBVIOUS
<1> USE PoolSizeType
<1>1. ASSUME NEW r \in Investigation, Arrive(r) PROVE TypeOK'
  <2>1. CASE Refuse(r, "shutting down") \/ Refuse(r, "unauthorized")
    BY <1>1, <2>1 DEF Arrive, Refuse, TypeOK, Answer, stopping
  <2>2. CASE phase' = [phase EXCEPT ![r] = "reading"] /\ UNCHANGED <<available, answer,
               cancelled, timer, listening, stream, frames>>
    BY <1>1, <2>2 DEF Arrive, TypeOK, stopping
  <2>3. QED
    BY <1>1, <2>1, <2>2 DEF Arrive
<1>2. ASSUME NEW r \in Investigation, BodyRead(r) PROVE TypeOK'
  <2>1. CASE Refuse(r, "invalid") \/ Refuse(r, "at capacity")
    BY <1>2, <2>1 DEF BodyRead, Refuse, TypeOK, Running, Answer, stopping
  <2>2. CASE Admit(r)
    <3>1. available' \in 0 .. PoolSize
      BY <2>2 DEF Admit, CanAcquire, TypeOK
    <3>2. "planning" \in Running /\ "stream" \in Answer
      BY DEF Running, Answer
    <3>3. QED
      BY <1>2, <2>2, <3>1, <3>2 DEF BodyRead, Admit, TypeOK, stopping
  <2>3. QED
    BY <1>2, <2>1, <2>2 DEF BodyRead
<1>3. ASSUME NEW r \in Investigation, Emit(r) PROVE TypeOK'
  <2>1. frames' \in [Investigation -> Seq(Terminal \cup {"progress"})]
    BY <1>3, EnqueueType DEF Emit
  <2>2. QED
    BY <1>3, <2>1 DEF Emit, TypeOK, stopping
<1>4. ASSUME NEW r \in Investigation, LaunchWorkers(r) \/ Adjudicate(r) PROVE TypeOK'
  BY <1>4 DEF LaunchWorkers, Adjudicate, Advance, TypeOK, Running, stopping
<1>5. ASSUME NEW r \in Investigation, Complete(r) \/ Fail(r) PROVE TypeOK'
  <2>1. PICK f \in Terminal : Settle(r, f)
    BY <1>5 DEF Complete, Fail, Terminal
  <2>2. frames' \in [Investigation -> Seq(Terminal \cup {"progress"})]
    BY <2>1, EnqueueType DEF Settle
  <2>3. available' \in 0 .. PoolSize
    BY <2>1 DEF Settle, Release, TypeOK
  <2>4. stream' \in [Investigation -> {"none", "open", "closed", "cancelled"}]
    BY <2>1 DEF Settle, Close, TypeOK
  <2>5. QED
    BY <2>1, <2>2, <2>3, <2>4 DEF Settle, TypeOK, Running, stopping
<1>6. ASSUME NEW r \in Investigation, Timeout(r) \/ StreamCancel(r) PROVE TypeOK'
  BY <1>6 DEF Timeout, StreamCancel, TypeOK, stopping
<1>7. ASSUME NEW r \in Investigation, Disconnect(r) PROVE TypeOK'
  BY <1>7 DEF Disconnect, TypeOK, stopping
<1>8. ASSUME NEW s \in Stopper, DrainExpires(s) PROVE TypeOK'
  BY <1>8 DEF DrainExpires, TypeOK, request
<1>9. ASSUME NEW s \in Stopper, Stop(s) \/ DrainEnds(s) PROVE TypeOK'
  <2>1. CASE CloseServer(s)
    BY <1>9, <2>1 DEF Stop, DrainEnds, CloseServer, TypeOK, Running
  <2>2. CASE stop' = [stop EXCEPT ![s] = "draining"] /\ UNCHANGED <<up, phase>>
    BY <1>9, <2>2 DEF Stop, DrainEnds, TypeOK
  <2>3. QED
    BY <1>9, <2>1, <2>2 DEF Stop, DrainEnds
<1>10. CASE UNCHANGED vars
  BY <1>10 DEF vars, request, stopping, TypeOK
<1>11. QED
  BY <1>1, <1>2, <1>3, <1>4, <1>5, <1>6, <1>7, <1>8, <1>9, <1>10
     DEF Next, RequestStep, Runner, StopStep

\* The server's state is always of its type; in particular the pool never
\* holds a negative number of permits or more than its size.
THEOREM EngineTypeCorrect == Spec => []TypeOK
<1>1. Init => TypeOK
  <2>1. <<>> \in Seq(Terminal \cup {"progress"})
    OBVIOUS
  <2>2. QED
    BY <2>1, PoolSizeType DEF Init, TypeOK, Answer
<1>2. QED
  BY <1>1, TypeStep, PTL DEF Spec

-----------------------------------------------------------------------------
\* A permit is out exactly for the investigations in flight.
THEOREM EnginePermits == Spec => []PermitsMatchInFlight
<1> USE PoolSizeType, EngineConstants
<1>1. Init => PermitsMatchInFlight
  <2> SUFFICES ASSUME Init PROVE PermitsMatchInFlight
    OBVIOUS
  <2>1. InFlight = {}
    BY DEF Init, InFlight, Running
  <2>2. QED
    BY <2>1, FS_EmptySet DEF Init, PermitsMatchInFlight
<1>2. TypeOK /\ PermitsMatchInFlight /\ [Next]_vars => PermitsMatchInFlight'
  <2> SUFFICES ASSUME TypeOK, PermitsMatchInFlight, [Next]_vars, up'
               PROVE  available' + Cardinality(InFlight') = PoolSize
    BY DEF PermitsMatchInFlight
  <2>1. up
    BY DEF Next, RequestStep, Runner, StopStep, Arrive, BodyRead, Emit, LaunchWorkers,
           Adjudicate, Advance, Complete, Fail, Settle, Timeout, Disconnect,
           StreamCancel, Stop, DrainExpires, DrainEnds, CloseServer, vars
  <2>2. available + Cardinality(InFlight) = PoolSize
    BY <2>1 DEF PermitsMatchInFlight
  <2>3. IsFiniteSet(InFlight) /\ Cardinality(InFlight) \in Nat
    BY FS_Subset, FS_CardinalityType DEF InFlight
  <2>4. CASE available' = available /\ InFlight' = InFlight
    BY <2>2, <2>4
  <2>5. ASSUME NEW r \in Investigation, Arrive(r) PROVE InFlight' = InFlight
    BY <2>5 DEF Arrive, Refuse, InFlight, Running, TypeOK
  <2>6. ASSUME NEW r \in Investigation, phase[r] = "reading", Admit(r)
        PROVE  available' + Cardinality(InFlight') = PoolSize
    <3>1. InFlight' = InFlight \cup {r} /\ r \notin InFlight
      BY <2>6 DEF Admit, InFlight, Running, TypeOK
    <3>2. Cardinality(InFlight') = Cardinality(InFlight) + 1
      BY <3>1, <2>3, FS_AddElement
    <3>3. QED
      BY <2>6, <2>2, <2>3, <3>2 DEF Admit, TypeOK
  <2>7. ASSUME NEW r \in Investigation, NEW f \in Terminal, phase[r] \in Running, Settle(r, f)
        PROVE  available' + Cardinality(InFlight') = PoolSize
    <3>1. InFlight' = InFlight \ {r} /\ r \in InFlight
      BY <2>7 DEF Settle, InFlight, Running, TypeOK
    <3>2. Cardinality(InFlight') = Cardinality(InFlight) - 1
      BY <3>1, <2>3, FS_RemoveElement
    <3>3. Cardinality(InFlight) > 0
      BY <3>1, <2>3, FS_EmptySet
    <3>4. available' = available + 1
      BY <2>7, <2>2, <2>3, <3>3 DEF Settle, Release, TypeOK
    <3>5. QED
      BY <2>2, <2>3, <3>2, <3>4 DEF TypeOK
  <2>8. ASSUME NEW r \in Investigation, BodyRead(r)
        PROVE  available' + Cardinality(InFlight') = PoolSize
    <3>1. CASE Admit(r)
      BY <2>6, <2>8, <3>1 DEF BodyRead
    <3>2. CASE Refuse(r, "invalid") \/ Refuse(r, "at capacity")
      BY <2>4, <2>8, <3>2 DEF BodyRead, Refuse, InFlight, Running, TypeOK
    <3>3. QED
      BY <2>8, <3>1, <3>2 DEF BodyRead
  <2>9. ASSUME NEW r \in Investigation, LaunchWorkers(r) \/ Adjudicate(r)
        PROVE  available' = available /\ InFlight' = InFlight
    BY <2>9 DEF LaunchWorkers, Adjudicate, Advance, InFlight, Running, TypeOK
  <2>10. ASSUME NEW r \in Investigation, Complete(r) \/ Fail(r)
         PROVE  available' + Cardinality(InFlight') = PoolSize
    BY <2>7, <2>10 DEF Complete, Fail, Running, Terminal
  <2>11. ASSUME NEW r \in Investigation,
                Emit(r) \/ Timeout(r) \/ Disconnect(r) \/ StreamCancel(r)
         PROVE  available' = available /\ InFlight' = InFlight
    BY <2>11 DEF Emit, Timeout, Disconnect, StreamCancel, InFlight
  <2>12. ASSUME NEW s \in Stopper, StopStep(s)
         PROVE  available' = available /\ InFlight' = InFlight
    <3>1. CASE DrainExpires(s)
      BY <3>1 DEF DrainExpires, request, InFlight
    <3>2. CASE Stop(s) \/ DrainEnds(s)
      BY <3>2 DEF Stop, DrainEnds, CloseServer, InFlight
    <3>3. QED
      BY <2>12, <3>1, <3>2 DEF StopStep
  <2>13. ASSUME NEW r \in Investigation, Arrive(r) PROVE available' = available
    BY <2>13 DEF Arrive, Refuse
  <2>14. CASE UNCHANGED vars
    BY <2>4, <2>14 DEF vars, request, InFlight
  <2>15. QED
    BY <2>4, <2>5, <2>8, <2>9, <2>10, <2>11, <2>12, <2>13, <2>14
       DEF Next, RequestStep, Runner
<1>3. QED
  BY <1>1, <1>2, EngineTypeCorrect, PTL DEF Spec

\* A request is answered "at capacity" only while the pool is full.
THEOREM EngineRefusals == Spec => RefusedOnlyWhenFull
<1>1. ASSUME TypeOK, PermitsMatchInFlight, [Next]_vars, NEW r \in Investigation,
             answer[r] # "at capacity", answer'[r] = "at capacity"
      PROVE  Cardinality(InFlight) = PoolSize
  <2>1. PICK q \in Investigation : BodyRead(q) /\ Refuse(q, "at capacity") /\ ~CanAcquire
    <3>1. ~UNCHANGED answer
      BY <1>1
    <3>2. PICK q \in Investigation : Arrive(q) \/ BodyRead(q)
      BY <1>1, <3>1 DEF Next, RequestStep, Runner, StopStep, Emit, LaunchWorkers,
         Adjudicate, Advance, Complete, Fail, Settle, Timeout, Disconnect,
         StreamCancel, Stop, DrainExpires, DrainEnds, vars, request
    <3>3. QED
      BY <1>1, <3>2 DEF Arrive, BodyRead, Refuse, Admit, TypeOK
  <2>2. QED
    <3>1. IsFiniteSet(InFlight) /\ Cardinality(InFlight) \in Nat
      BY EngineConstants, FS_Subset, FS_CardinalityType DEF InFlight
    <3>2. available = 0
      <4>1. available \in 0 .. PoolSize /\ ~(available > 0)
        BY <1>1, <2>1 DEF CanAcquire, TypeOK
      <4>2. QED
        BY <4>1, PoolSizeType
    <3>3. available + Cardinality(InFlight) = PoolSize
      BY <1>1, <2>1 DEF BodyRead, PermitsMatchInFlight
    <3>4. QED
      BY <3>1, <3>2, <3>3, PoolSizeType
<1>2. TypeOK /\ PermitsMatchInFlight /\ [Next]_vars =>
        [\A r \in Investigation : answer[r] # "at capacity" /\ answer'[r] = "at capacity"
           => Cardinality(InFlight) = PoolSize]_vars
  BY <1>1
<1>3. QED
  BY <1>2, EngineTypeCorrect, EnginePermits, PTL DEF Spec, RefusedOnlyWhenFull

\* stop() closes the socket under an investigation only past a deadline.
THEOREM EngineCuts == Spec => CutOnlyAtDeadline
<1>1. ASSUME TypeOK, PermitsMatchInFlight, [Next]_vars, up, ~up'
      PROVE  InFlight = {} \/ expired # {}
  <2>1. PICK s \in Stopper : (Stop(s) \/ DrainEnds(s)) /\ Drained(s)
    BY <1>1 DEF Next, RequestStep, Runner, StopStep, Arrive, BodyRead, Emit,
       LaunchWorkers, Adjudicate, Advance, Complete, Fail, Settle, Timeout,
       Disconnect, StreamCancel, Stop, DrainExpires, DrainEnds, vars
  <2>2. CASE available = PoolSize
    <3>1. IsFiniteSet(InFlight) /\ Cardinality(InFlight) \in Nat
      BY EngineConstants, FS_Subset, FS_CardinalityType DEF InFlight
    <3>2. Cardinality(InFlight) = 0
      BY <1>1, <2>2, <3>1, PoolSizeType DEF PermitsMatchInFlight
    <3>3. QED
      BY <3>1, <3>2, FS_EmptySet
  <2>3. QED
    BY <2>1, <2>2 DEF Drained
<1>2. TypeOK /\ PermitsMatchInFlight /\ [Next]_vars =>
        [up /\ ~up' => InFlight = {} \/ expired # {}]_vars
  BY <1>1
<1>3. QED
  BY <1>2, EngineTypeCorrect, EnginePermits, PTL DEF Spec, CutOnlyAtDeadline

-----------------------------------------------------------------------------
\* What StreamFraming needs to be inductive: frames exist only on a stream, and
\* an open stream carries no terminal frame yet.
StreamInv(r) ==
  /\ phase[r] \in {"unsent", "reading"} => stream[r] = "none"
  /\ stream[r] = "none" => frames[r] = <<>>
  /\ stream[r] = "open" =>
       /\ \A i \in DOMAIN frames[r] : frames[r][i] \notin Terminal
       /\ phase[r] \in Running \cup {"cut"}
  /\ stream[r] = "closed" => frames[r] # <<>> /\ frames[r][Len(frames[r])] \in Terminal
  /\ \A i \in DOMAIN frames[r] : frames[r][i] \in Terminal => i = Len(frames[r])

StreamsInv == \A r \in Investigation : StreamInv(r)

\* A frame appended goes last and leaves the frames before it as they were.
LEMMA AppendedFrame ==
  ASSUME NEW old \in Seq(Terminal \cup {"progress"}), NEW f \in Terminal \cup {"progress"}
  PROVE  /\ Append(old, f) # <<>>
         /\ Len(Append(old, f)) = Len(old) + 1
         /\ Append(old, f)[Len(old) + 1] = f
         /\ DOMAIN Append(old, f) = 1 .. Len(old) + 1
         /\ \A i \in DOMAIN Append(old, f) :
              i # Len(old) + 1 => i \in DOMAIN old /\ Append(old, f)[i] = old[i]
  OBVIOUS

\* A step preserves StreamInv for the request it is about, and leaves the
\* streams of the others alone.
LEMMA StreamStep == TypeOK /\ StreamsInv /\ [Next]_vars => StreamsInv'
<1> SUFFICES ASSUME TypeOK, StreamsInv, [Next]_vars, NEW q \in Investigation
             PROVE  StreamInv(q)'
  BY DEF StreamsInv
<1>0. StreamInv(q) /\ frames[q] \in Seq(Terminal \cup {"progress"})
  BY DEF StreamsInv, TypeOK
<1>1. ASSUME NEW r \in Investigation, Arrive(r) PROVE StreamInv(q)'
  BY <1>0, <1>1 DEF Arrive, Refuse, StreamInv, TypeOK, Running
<1>2. ASSUME NEW r \in Investigation, BodyRead(r) PROVE StreamInv(q)'
  <2>1. CASE Refuse(r, "invalid") \/ Refuse(r, "at capacity")
    BY <1>0, <1>2, <2>1 DEF BodyRead, Refuse, StreamInv, TypeOK, Running
  <2>2. CASE Admit(r) /\ q = r
    <3>1. frames'[q] = <<>> /\ stream'[q] = "open" /\ phase'[q] = "planning"
      BY <1>0, <1>2, <2>2 DEF BodyRead, Admit, StreamInv, TypeOK
    <3>2. QED
      BY <3>1 DEF StreamInv, Running
  <2>3. CASE Admit(r) /\ q # r
    BY <1>0, <1>2, <2>3 DEF BodyRead, Admit, StreamInv, TypeOK
  <2>4. QED
    BY <1>2, <2>1, <2>2, <2>3 DEF BodyRead
<1>3. ASSUME NEW r \in Investigation, Emit(r) PROVE StreamInv(q)'
  <2>1. frames'[q] = frames[q] \/ (q = r /\ stream[r] = "open"
                                    /\ frames'[q] = Append(frames[q], "progress"))
    BY <1>3 DEF Emit, Enqueue, TypeOK
  <2>2. UNCHANGED <<phase, stream>>
    BY <1>3 DEF Emit
  <2>3. CASE frames'[q] = frames[q]
    BY <1>0, <2>2, <2>3 DEF StreamInv
  <2>4. CASE stream[q] = "open" /\ frames'[q] = Append(frames[q], "progress")
    <3>1. \A i \in DOMAIN frames'[q] : frames'[q][i] \notin Terminal
      BY <1>0, <2>4, AppendedFrame DEF StreamInv, Terminal
    <3>2. QED
      BY <1>0, <2>2, <2>4, <3>1 DEF StreamInv
  <2>5. QED
    BY <2>1, <2>3, <2>4
<1>4. ASSUME NEW r \in Investigation, LaunchWorkers(r) \/ Adjudicate(r)
      PROVE  StreamInv(q)'
  BY <1>0, <1>4 DEF LaunchWorkers, Adjudicate, Advance, StreamInv, TypeOK, Running
<1>5. ASSUME NEW r \in Investigation, Complete(r) \/ Fail(r) PROVE StreamInv(q)'
  <2>1. PICK f \in Terminal : Settle(r, f) /\ phase[r] \in Running
    BY <1>5 DEF Complete, Fail, Terminal, Running
  <2>2. CASE q # r
    BY <1>0, <2>1, <2>2 DEF Settle, Enqueue, Close, StreamInv, TypeOK
  <2>3. CASE q = r /\ stream[r] = "open"
    <3>1. /\ frames'[q] = Append(frames[q], f)
          /\ stream'[q] = "closed" /\ phase'[q] = "settled"
      BY <2>1, <2>3 DEF Settle, Enqueue, Close, TypeOK
    <3>2. \A i \in DOMAIN frames'[q] : frames'[q][i] \in Terminal => i = Len(frames'[q])
      BY <1>0, <2>3, <3>1, AppendedFrame DEF StreamInv, Terminal
    <3>3. frames'[q] # <<>> /\ frames'[q][Len(frames'[q])] \in Terminal
      BY <1>0, <3>1, AppendedFrame DEF Terminal
    <3>4. QED
      BY <3>1, <3>2, <3>3 DEF StreamInv
  <2>4. CASE q = r /\ stream[r] # "open"
    BY <1>0, <2>1, <2>4 DEF Settle, Enqueue, Close, StreamInv, TypeOK
  <2>5. QED
    BY <2>2, <2>3, <2>4
<1>6. ASSUME NEW r \in Investigation, Timeout(r) \/ Disconnect(r) PROVE StreamInv(q)'
  BY <1>0, <1>6 DEF Timeout, Disconnect, StreamInv
<1>7. ASSUME NEW r \in Investigation, StreamCancel(r) PROVE StreamInv(q)'
  BY <1>0, <1>7 DEF StreamCancel, StreamInv, TypeOK, Running
<1>8. ASSUME NEW s \in Stopper, DrainExpires(s) PROVE StreamInv(q)'
  BY <1>0, <1>8 DEF DrainExpires, request, StreamInv
<1>9. ASSUME NEW s \in Stopper, Stop(s) \/ DrainEnds(s) PROVE StreamInv(q)'
  <2>1. UNCHANGED <<stream, frames>>
    BY <1>9 DEF Stop, DrainEnds
  <2>2. CASE CloseServer(s)
    BY <1>0, <1>9, <2>1, <2>2 DEF CloseServer, Connected, StreamInv, TypeOK, Running
  <2>3. CASE UNCHANGED phase
    BY <1>0, <2>1, <2>3 DEF StreamInv
  <2>4. QED
    BY <1>9, <2>2, <2>3 DEF Stop, DrainEnds
<1>10. CASE UNCHANGED vars
  BY <1>0, <1>10 DEF vars, request, StreamInv
<1>11. QED
  BY <1>1, <1>2, <1>3, <1>4, <1>5, <1>6, <1>7, <1>8, <1>9, <1>10
     DEF Next, RequestStep, Runner, StopStep

\* Progress frames, then at most one terminal frame and nothing after it; a
\* stream the server closed ends with its terminal frame.
THEOREM EngineStreams == Spec => []StreamFraming
<1>1. Init => StreamsInv
  BY DEF Init, StreamsInv, StreamInv
<1>2. StreamsInv => StreamFraming
  BY DEF StreamsInv, StreamInv, StreamFraming, Last
<1>3. QED
  BY <1>1, <1>2, StreamStep, EngineTypeCorrect, PTL DEF Spec

-----------------------------------------------------------------------------
(* Cancelled before the second check: what happens to the request from     *)
(* then on.                                                                *)

Silent(r) == "report" \notin ToSet(frames[r])

\* No report is sent before the investigation settles.
SilentSoFar(r) ==
  phase[r] \in Running \cup {"unsent", "reading"} => Silent(r)

\* The flag stays up until the runner has thrown at a check or was cut.
Doomed(r) ==
  /\ Silent(r)
  /\ \/ phase[r] \in {"planning", "working"} /\ cancelled[r]
     \/ phase[r] \in {"settled", "cut"}

\* A report is sent only as the terminal frame of an investigation that reports.
LEMMA FramesOf ==
  ASSUME TypeOK, [Next]_vars, NEW r \in Investigation, Silent(r), ~Silent(r)'
  PROVE  phase[r] = "reporting" /\ phase'[r] = "settled"
<1>1. frames[r] \in Seq(Terminal \cup {"progress"})
  BY DEF TypeOK
<1>2. ASSUME NEW f \in {"progress", "error"}, frames'[r] = Append(frames[r], f) PROVE Silent(r)'
  <2>1. f \in Terminal \cup {"progress"} /\ f # "report"
    BY DEF Terminal
  <2>2. \A i \in DOMAIN Append(frames[r], f) : Append(frames[r], f)[i] # "report"
    <3> SUFFICES ASSUME NEW i \in DOMAIN Append(frames[r], f)
                 PROVE Append(frames[r], f)[i] # "report"
      OBVIOUS
    <3>1. CASE i = Len(frames[r]) + 1
      BY <1>1, <2>1, <3>1, AppendedFrame
    <3>2. CASE i # Len(frames[r]) + 1
      <4>1. i \in DOMAIN frames[r] /\ Append(frames[r], f)[i] = frames[r][i]
        BY <1>1, <2>1, <3>2, AppendedFrame
      <4> QED
        BY <4>1 DEF Silent, ToSet
    <3> QED
      BY <3>1, <3>2
  <2> QED
    BY <1>2, <2>2 DEF Silent, ToSet
<1>3. frames'[r] # frames[r]
  BY DEF Silent
<1>4. PICK q \in Investigation : Emit(q) \/ Complete(q) \/ Fail(q)
  <2>1. ASSUME NEW q \in Investigation,
               Arrive(q) \/ BodyRead(q) \/ LaunchWorkers(q) \/ Adjudicate(q)
                 \/ Timeout(q) \/ Disconnect(q) \/ StreamCancel(q)
        PROVE  frames' = frames
    BY <2>1 DEF Arrive, BodyRead, Refuse, Admit, LaunchWorkers, Adjudicate, Advance,
       Timeout, Disconnect, StreamCancel
  <2>2. ASSUME NEW s \in Stopper, StopStep(s) PROVE frames' = frames
    BY <2>2 DEF StopStep, Stop, DrainExpires, DrainEnds, request
  <2>3. CASE UNCHANGED vars
    BY <1>3, <2>3 DEF vars, request
  <2> QED
    BY <1>3, <2>1, <2>2, <2>3 DEF Next, RequestStep, Runner
<1>5. CASE Emit(q)
  BY <1>2, <1>3, <1>5 DEF Emit, Enqueue, TypeOK
<1>6. CASE Fail(q)
  BY <1>2, <1>3, <1>6 DEF Fail, Settle, Enqueue, TypeOK
<1>7. CASE Complete(q)
  <2>1. q = r
    BY <1>3, <1>7 DEF Complete, Settle, Enqueue, TypeOK
  <2> QED
    BY <1>7, <2>1 DEF Complete, Settle, TypeOK
<1> QED
  BY <1>4, <1>5, <1>6, <1>7

\* How the phase of a request and its flag may change.
LEMMA PhaseSteps ==
  ASSUME TypeOK, [Next]_vars, NEW r \in Investigation
  PROVE  /\ phase'[r] \in Running \cup {"unsent", "reading"} =>
              phase[r] \in Running \cup {"unsent", "reading"}
         /\ phase[r] \in {"planning", "working"} /\ cancelled[r] =>
              \/ phase'[r] = phase[r] /\ cancelled'[r]
              \/ phase'[r] \in {"settled", "cut"}
         /\ phase[r] \in {"settled", "cut"} => phase'[r] = phase[r]
<1>1. ASSUME NEW q \in Investigation, Arrive(q) \/ BodyRead(q)
      PROVE  /\ phase[q] \in {"unsent", "reading"}
             /\ phase'[q] \in Running \cup {"reading", "refused"}
             /\ q # r => phase'[r] = phase[r] /\ cancelled'[r] = cancelled[r]
  BY <1>1 DEF Arrive, BodyRead, Refuse, Admit, TypeOK, Running
<1>2. CASE \E q \in Investigation : Arrive(q) \/ BodyRead(q)
  BY <1>1, <1>2 DEF Running
<1>3. CASE \E q \in Investigation : Emit(q)
  BY <1>3 DEF Emit
<1>4. CASE \E q \in Investigation : LaunchWorkers(q) \/ Adjudicate(q)
  BY <1>4 DEF LaunchWorkers, Adjudicate, Advance, TypeOK, Running
<1>5. CASE \E q \in Investigation : Complete(q) \/ Fail(q)
  BY <1>5 DEF Complete, Fail, Settle, TypeOK, Running
<1>6. CASE \E q \in Investigation : Timeout(q) \/ StreamCancel(q)
  BY <1>6 DEF Timeout, StreamCancel, TypeOK
<1>7. CASE \E q \in Investigation : Disconnect(q)
  BY <1>7 DEF Disconnect, TypeOK
<1>8. CASE \E s \in Stopper : DrainExpires(s)
  BY <1>8 DEF DrainExpires, request
<1>9. CASE \E s \in Stopper : Stop(s) \/ DrainEnds(s)
  <2>1. UNCHANGED cancelled
    BY <1>9 DEF Stop, DrainEnds
  <2>2. UNCHANGED phase \/ phase' = [q \in Investigation |-> IF q \in Connected THEN "cut" ELSE phase[q]]
    BY <1>9 DEF Stop, DrainEnds, CloseServer
  <2> QED
    BY <2>1, <2>2 DEF Running, TypeOK, Connected
<1>10. CASE UNCHANGED vars
  BY <1>10 DEF vars, request
<1> QED
  BY <1>2, <1>3, <1>4, <1>5, <1>6, <1>7, <1>8, <1>9, <1>10
     DEF Next, RequestStep, Runner, StopStep

\* An investigation cancelled before its second check never sends a report.
THEOREM EngineCancellations == Spec => CancelledNeverReports
<1> SUFFICES ASSUME NEW r \in Investigation
             PROVE  Spec => [](cancelled[r] /\ phase[r] \in {"planning", "working"}
                                 => []("report" \notin ToSet(frames[r])))
  BY DEF CancelledNeverReports
<1>1. Init => SilentSoFar(r)
  BY DEF Init, SilentSoFar, Silent, ToSet
<1>2. TypeOK /\ SilentSoFar(r) /\ [Next]_vars => SilentSoFar(r)'
  BY FramesOf, PhaseSteps DEF SilentSoFar, Running
<1>3. SilentSoFar(r) /\ cancelled[r] /\ phase[r] \in {"planning", "working"} => Doomed(r)
  BY DEF SilentSoFar, Doomed, Running
<1>4. TypeOK /\ Doomed(r) /\ [Next]_vars => Doomed(r)'
  BY FramesOf, PhaseSteps DEF Doomed
<1>5. Doomed(r) => "report" \notin ToSet(frames[r])
  BY DEF Doomed, Silent
<1> QED
  BY <1>1, <1>2, <1>3, <1>4, <1>5, EngineTypeCorrect, PTL DEF Spec

-----------------------------------------------------------------------------
(* The process: its server is the one proved about above.                  *)

\* A step of the process is a step of the server, or leaves it as it is.
LEMMA ProcessStepsServe == [ProcessNext]_processVars => [Next]_vars
<1>1. ASSUME NEW f \in Fingerprint, FingerprintStep(f) PROVE UNCHANGED <<accepting, up>>
  BY <1>1 DEF FingerprintStep, FpArrive, FpBodyRead, SettleItem, Deadline, ChunkDone
<1>2. QED
  BY <1>1 DEF ProcessNext, processVars, vars, InvestigateRoute, FingerprintRoute, Draining, Next

\* The process with both routes implements EngineServer, so that every theorem
\* about its Spec holds beside the fingerprint route.
THEOREM ProcessRunsServer == ProcessSpec => Spec
<1>1. ProcessInit => Init
  BY DEF ProcessInit
<1>2. QED
  BY <1>1, ProcessStepsServe, PTL DEF ProcessSpec, Spec

-----------------------------------------------------------------------------
(* The endpoint.                                                           *)

\* Entries and slots of a batch: what the permits and the answer rest on.
Entries == 0 .. Items
Slots == Pending .. Items

\* Both knobs are clamped to one, whatever the environment says.
LEMMA ClampedKnobs ==
  /\ ChunkSize \in Nat /\ ChunkSize >= 1
  /\ FpPoolSize \in Nat /\ FpPoolSize >= 1
  BY FingerprintConstants DEF ChunkSize, FpPoolSize

\* A chunk is the rest of the batch, cut to the chunk size; nothing in it has
\* settled.
LEMMA NextChunkShape ==
  ASSUME NEW n \in Nat, n < Items
  PROVE  /\ NextChunk(n) \in Seq(Slots)
         /\ Len(NextChunk(n)) >= 1
         /\ n + Len(NextChunk(n)) <= Items
         /\ \A i \in 1 .. Len(NextChunk(n)) : NextChunk(n)[i] = Pending
<1> DEFINE k == IF Items - n < ChunkSize THEN Items - n ELSE ChunkSize
<1>1. k \in Nat /\ k >= 1 /\ n + k <= Items
  BY ClampedKnobs, FingerprintConstants
<1>2. NextChunk(n) = [i \in 1 .. k |-> Pending]
  BY DEF NextChunk
<1>3. Pending \in Slots
  BY FingerprintConstants DEF Pending, Slots
<1> HIDE DEF k
<1>4. NextChunk(n) \in Seq(Slots) /\ Len(NextChunk(n)) = k
  BY <1>1, <1>2, <1>3
<1>5. QED
  BY <1>1, <1>2, <1>4

-----------------------------------------------------------------------------
(* The inductive invariant: nothing is in the response before the batch is *)
(* admitted, a batch in flight has its settled entries in place and its    *)
(* chunk right after them, and an answered batch has one entry per item.   *)

\* Entry i of the response is the hash of item i or null.
InOrder(f) == \A i \in 1 .. Len(out[f]) : out[f][i] \in {i, Null}

\* The chunk starts where the response ends and fits in the batch; a slot that
\* has settled holds its own item's hash or null.
ChunkInPlace(f) ==
  /\ Len(out[f]) + Len(chunk[f]) <= Items
  /\ \A i \in 1 .. Len(chunk[f]) : chunk[f][i] \in {Pending, Len(out[f]) + i, Null}

BatchShape ==
  \A f \in Fingerprint :
    /\ fp_phase[f] \in {"unsent", "reading"} => out[f] = <<>>
    /\ fp_phase[f] = "probing" => InOrder(f) /\ ChunkInPlace(f)
    /\ fp_phase[f] = "answered" => Len(out[f]) = Items /\ InOrder(f)

\* Entries in input order, followed by the settled slots of the items after
\* them, are entries in input order.
LEMMA ContinuedInOrder ==
  ASSUME NEW a \in Seq(Entries), NEW b \in Seq(Slots), Len(a) + Len(b) <= Items,
         \A i \in 1 .. Len(a) : a[i] \in {i, Null},
         \A i \in 1 .. Len(b) : b[i] \in {Len(a) + i, Null}
  PROVE  /\ a \o b \in Seq(Entries)
         /\ Len(a \o b) <= Items
         /\ \A i \in 1 .. Len(a \o b) : (a \o b)[i] \in {i, Null}
<1>1. Len(a) \in Nat /\ Len(b) \in Nat /\ Items \in Nat
  BY FingerprintConstants
<1>2. ASSUME NEW i \in 1 .. Len(b) PROVE b[i] \in Entries
  <2>1. b[i] \in {Len(a) + i, 0}
    BY <1>2 DEF Null
  <2>2. QED
    BY <1>1, <2>1 DEF Entries
<1>3. b \in Seq(Entries)
  BY <1>2
<1>4. a \o b \in Seq(Entries) /\ Len(a \o b) = Len(a) + Len(b)
  BY <1>3
<1>5. ASSUME NEW i \in 1 .. Len(a \o b) PROVE (a \o b)[i] \in {i, Null}
  <2>1. CASE i <= Len(a)
    BY <1>4, <1>5, <2>1
  <2>2. CASE i > Len(a)
    <3>1. (a \o b)[i] = b[i - Len(a)] /\ i - Len(a) \in 1 .. Len(b)
      BY <1>1, <1>4, <1>5, <2>2
    <3>2. b[i - Len(a)] \in {Len(a) + (i - Len(a)), Null}
      BY <3>1
    <3>3. Len(a) + (i - Len(a)) = i
      BY <1>1, <1>5
    <3>4. QED
      BY <3>1, <3>2, <3>3
  <2>3. QED
    BY <1>1, <2>1, <2>2
<1>6. QED
  BY <1>4, <1>5

\* The entries of a chunk that has settled continue the response in input
\* order and never run past the batch.
LEMMA SettledChunk ==
  ASSUME FpTypeOK, BatchShape, NEW f \in Probing,
         \A i \in DOMAIN chunk[f] : chunk[f][i] # Pending
  PROVE  /\ out[f] \o chunk[f] \in Seq(Entries)
         /\ Len(out[f] \o chunk[f]) <= Items
         /\ \A i \in 1 .. Len(out[f] \o chunk[f]) : (out[f] \o chunk[f])[i] \in {i, Null}
<1>1. out[f] \in Seq(Entries) /\ chunk[f] \in Seq(Slots)
  BY DEF FpTypeOK, Probing, Entries, Slots
<1>2. InOrder(f) /\ ChunkInPlace(f)
  BY DEF BatchShape, Probing
<1>3. \A i \in 1 .. Len(chunk[f]) : chunk[f][i] \in {Len(out[f]) + i, Null}
  <2>1. DOMAIN chunk[f] = 1 .. Len(chunk[f])
    BY <1>1
  <2>2. QED
    BY <1>2, <2>1 DEF ChunkInPlace
<1>4. QED
  BY <1>1, <1>2, <1>3, ContinuedInOrder DEF InOrder, ChunkInPlace

\* Padding a response of the batch's own entries gives one entry per item.
LEMMA PaddedShape ==
  ASSUME NEW e \in Seq(Entries), Len(e) <= Items,
         \A i \in 1 .. Len(e) : e[i] \in {i, Null}
  PROVE  /\ Padded(e) \in Seq(Entries)
         /\ Len(Padded(e)) = Items
         /\ \A i \in 1 .. Items : Padded(e)[i] \in {i, Null}
<1>1. Items \in Nat /\ Null \in Entries /\ Len(e) \in Nat
  BY FingerprintConstants DEF Null, Entries
<1>2. \A i \in 1 .. Items : Padded(e)[i] \in {i, Null} /\ Padded(e)[i] \in Entries
  BY <1>1 DEF Padded, Entries, Null
<1>3. Padded(e) = [i \in 1 .. Items |-> Padded(e)[i]]
  BY DEF Padded
<1>4. QED
  BY <1>1, <1>2, <1>3

-----------------------------------------------------------------------------
(* Every step keeps the types and the shape of every batch.                *)

\* The answers the handler gives.
LEMMA AnswersOfTheRoute ==
  {"none", "ok", "shutting down", "unauthorized", "invalid", "at capacity"} \subseteq FpAnswer
  BY DEF FpAnswer

\* A refusal leaves every batch as it was.
LEMMA RefuseKeepsShape ==
  ASSUME FpTypeOK, BatchShape, NEW f \in Fingerprint, NEW why \in FpAnswer,
         FpRefuse(f, why), UNCHANGED <<accepting, up>>
  PROVE  FpTypeOK' /\ BatchShape'
<1>1. FpTypeOK'
  BY DEF FpRefuse, FpTypeOK
<1>2. BatchShape'
  BY DEF FpRefuse, FpTypeOK, BatchShape, InOrder, ChunkInPlace
<1>3. QED
  BY <1>1, <1>2

\* One more chunk of a batch that has entries left.
LEMMA LaunchKeepsShape ==
  ASSUME FpTypeOK, BatchShape, NEW f \in Probing, NEW e \in Seq(Entries), Len(e) < Items,
         \A i \in 1 .. Len(e) : e[i] \in {i, Null},
         LaunchChunk(f, e), UNCHANGED <<accepting, up>>
  PROVE  FpTypeOK' /\ BatchShape'
<1> DEFINE c == NextChunk(Len(e))
<1>1. f \in Fingerprint /\ fp_phase[f] = "probing"
  BY DEF Probing
<1>2. c \in Seq(Slots) /\ Len(e) + Len(c) <= Items /\ \A i \in 1 .. Len(c) : c[i] = Pending
  BY NextChunkShape
<1> HIDE DEF c
<1>3. out' = [out EXCEPT ![f] = e] /\ chunk' = [chunk EXCEPT ![f] = c]
  BY DEF LaunchChunk, c
<1>4. FpTypeOK'
  BY <1>1, <1>2, <1>3 DEF FpTypeOK, LaunchChunk, Entries, Slots
<1>5. out'[f] = e /\ chunk'[f] = c
  BY <1>1, <1>3 DEF FpTypeOK
<1>6. ASSUME NEW g \in Fingerprint, g # f PROVE out'[g] = out[g] /\ chunk'[g] = chunk[g]
  BY <1>3, <1>6 DEF FpTypeOK
<1>7. fp_phase' = fp_phase
  BY DEF LaunchChunk
<1>8. BatchShape'
  BY <1>1, <1>2, <1>5, <1>6, <1>7 DEF BatchShape, InOrder, ChunkInPlace
<1>9. QED
  BY <1>4, <1>8

\* The answer of a batch whose every item has its entry.
LEMMA RespondKeepsShape ==
  ASSUME FpTypeOK, BatchShape, NEW f \in Probing, NEW e \in Seq(Entries), Len(e) = Items,
         \A i \in 1 .. Items : e[i] \in {i, Null},
         FpRespond(f, e), UNCHANGED <<accepting, up>>
  PROVE  FpTypeOK' /\ BatchShape'
<1>1. f \in Fingerprint
  BY DEF Probing
<1>2. fp_available' \in 0 .. FpPoolSize
  BY ClampedKnobs DEF FpRespond, FpTypeOK
<1>3. FpTypeOK'
  <2>1. <<>> \in Seq(Slots)
    OBVIOUS
  <2>2. /\ out' \in [Fingerprint -> Seq(0 .. Items)]
        /\ chunk' \in [Fingerprint -> Seq(Pending .. Items)]
    BY <2>1 DEF FpTypeOK, FpRespond, Entries, Slots
  <2>3. "ok" \in FpAnswer
    BY AnswersOfTheRoute
  <2>4. fp_answer' \in [Fingerprint -> FpAnswer]
    BY <2>3 DEF FpTypeOK, FpRespond
  <2>5. QED
    BY <1>2, <2>2, <2>4 DEF FpTypeOK, FpRespond
<1>4. out'[f] = e /\ fp_phase'[f] = "answered"
  BY <1>1 DEF FpTypeOK, FpRespond
<1>5. ASSUME NEW g \in Fingerprint, g # f
      PROVE  out'[g] = out[g] /\ chunk'[g] = chunk[g] /\ fp_phase'[g] = fp_phase[g]
  BY <1>5 DEF FpTypeOK, FpRespond
<1>6. BatchShape'
  BY <1>1, <1>4, <1>5 DEF BatchShape, InOrder, ChunkInPlace
<1>7. QED
  BY <1>3, <1>6

\* The end of a chunk, whichever way the loop goes on.
LEMMA ChunkDoneKeepsShape ==
  ASSUME FpTypeOK, BatchShape, NEW f \in Fingerprint, ChunkDone(f)
  PROVE  FpTypeOK' /\ BatchShape'
<1> DEFINE e == out[f] \o chunk[f]
<1>1. f \in Probing
  BY DEF ChunkDone
<1>2. e \in Seq(Entries) /\ Len(e) <= Items /\ \A i \in 1 .. Len(e) : e[i] \in {i, Null}
  BY <1>1, SettledChunk DEF ChunkDone
<1>3. Finish(f, e) /\ UNCHANGED <<accepting, up>>
  BY DEF ChunkDone
<1> HIDE DEF e
<1>4. CASE Len(e) < Items /\ ~overdue[f]
  BY <1>1, <1>2, <1>3, <1>4, LaunchKeepsShape DEF Finish
<1>5. CASE ~(Len(e) < Items /\ ~overdue[f])
  BY <1>1, <1>2, <1>3, <1>5, PaddedShape, RespondKeepsShape DEF Finish
<1>6. QED
  BY <1>4, <1>5

\* The types and the shape are kept by every step.
LEMMA ShapeStep == FpTypeOK /\ BatchShape /\ [ProcessNext]_processVars => FpTypeOK' /\ BatchShape'
<1> SUFFICES ASSUME FpTypeOK, BatchShape, [ProcessNext]_processVars PROVE FpTypeOK' /\ BatchShape'
  OBVIOUS
<1> USE ClampedKnobs
<1>1. ASSUME NEW f \in Fingerprint, FpArrive(f) PROVE FpTypeOK' /\ BatchShape'
  <2>1. CASE \E why \in FpAnswer : FpRefuse(f, why)
    BY <1>1, <2>1, RefuseKeepsShape DEF FpArrive
  <2>2. CASE /\ fp_phase' = [fp_phase EXCEPT ![f] = "reading"]
             /\ UNCHANGED <<fp_available, fp_answer, out, chunk, overdue>>
    BY <1>1, <2>2 DEF FpArrive, FpTypeOK, BatchShape, InOrder, ChunkInPlace
  <2>3. QED
    BY <1>1, <2>1, <2>2, AnswersOfTheRoute DEF FpArrive
<1>2. ASSUME NEW f \in Fingerprint, FpBodyRead(f) PROVE FpTypeOK' /\ BatchShape'
  <2>1. CASE \E why \in FpAnswer : FpRefuse(f, why)
    BY <1>2, <2>1, RefuseKeepsShape DEF FpBodyRead
  <2>2. CASE FpAdmit(f)
    <3>1. 0 < Items /\ Items \in Nat
      BY FingerprintConstants
    <3>2. /\ NextChunk(0) \in Seq(Slots)
          /\ 0 + Len(NextChunk(0)) <= Items
          /\ \A i \in 1 .. Len(NextChunk(0)) : NextChunk(0)[i] = Pending
      BY <3>1, NextChunkShape
    <3>3. out[f] = <<>> /\ out' = out
      BY <1>2, <2>2 DEF FpBodyRead, FpAdmit, BatchShape
    <3>4. fp_available' \in 0 .. FpPoolSize
      BY <2>2 DEF FpAdmit, FpCanAcquire, FpTypeOK
    <3>5. FpTypeOK'
      BY <1>2, <2>2, <3>2, <3>4 DEF FpBodyRead, FpAdmit, FpTypeOK, Slots
    <3>6. chunk'[f] = NextChunk(0)
      BY <2>2 DEF FpAdmit, FpTypeOK
    <3>7. ASSUME NEW g \in Fingerprint, g # f
          PROVE  chunk'[g] = chunk[g] /\ fp_phase'[g] = fp_phase[g]
      BY <2>2, <3>7 DEF FpAdmit, FpTypeOK
    <3>8. InOrder(f)' /\ ChunkInPlace(f)' /\ fp_phase'[f] = "probing"
      <4>1. Len(<<>>) = 0
        OBVIOUS
      <4>2. fp_phase'[f] = "probing"
        BY <2>2 DEF FpAdmit, FpTypeOK
      <4>3. QED
        BY <3>2, <3>3, <3>6, <4>1, <4>2 DEF InOrder, ChunkInPlace
    <3>9. BatchShape'
      BY <3>3, <3>7, <3>8 DEF BatchShape, InOrder, ChunkInPlace
    <3>10. QED
      BY <3>5, <3>9
  <2>3. QED
    BY <1>2, <2>1, <2>2, AnswersOfTheRoute DEF FpBodyRead
<1>3. ASSUME NEW f \in Fingerprint, NEW i \in 1 .. ChunkSize, SettleItem(f, i)
      PROVE  FpTypeOK' /\ BatchShape'
  <2>1. PICK value \in {Len(out[f]) + i, Null} : chunk' = [chunk EXCEPT ![f][i] = value]
    BY <1>3 DEF SettleItem
  <2>2. InOrder(f) /\ ChunkInPlace(f) /\ i \in 1 .. Len(chunk[f])
    BY <1>3 DEF SettleItem, BatchShape, Probing, FpTypeOK
  <2>3. value \in Slots
    BY <2>2, FingerprintConstants DEF ChunkInPlace, Slots, Null, Pending, FpTypeOK
  <2>4. chunk'[f] \in Seq(Slots) /\ Len(chunk'[f]) = Len(chunk[f])
    BY <2>1, <2>2, <2>3 DEF FpTypeOK, Slots
  <2>5. \A j \in 1 .. Len(chunk[f]) : chunk'[f][j] = IF j = i THEN value ELSE chunk[f][j]
    BY <2>1, <2>2 DEF FpTypeOK
  <2>6. \A g \in Fingerprint : g # f => chunk'[g] = chunk[g]
    BY <2>1 DEF FpTypeOK
  <2>7. FpTypeOK'
    BY <1>3, <2>1, <2>4 DEF SettleItem, FpTypeOK, Slots
  <2>8. BatchShape'
    <3>1. out' = out /\ fp_phase' = fp_phase
      BY <1>3 DEF SettleItem
    <3>2. ChunkInPlace(f)'
      BY <2>1, <2>2, <2>4, <2>5, <3>1 DEF ChunkInPlace
    <3>3. \A g \in Fingerprint : InOrder(g)' <=> InOrder(g)
      BY <3>1 DEF InOrder
    <3>4. \A g \in Fingerprint : g # f /\ ChunkInPlace(g) => ChunkInPlace(g)'
      BY <2>6, <3>1 DEF ChunkInPlace
    <3>5. QED
      BY <3>1, <3>2, <3>3, <3>4 DEF BatchShape
  <2>9. QED
    BY <2>7, <2>8
<1>4. ASSUME NEW f \in Fingerprint, Deadline(f) PROVE FpTypeOK' /\ BatchShape'
  BY <1>4 DEF Deadline, FpTypeOK, BatchShape, InOrder, ChunkInPlace
<1>5. ASSUME NEW f \in Fingerprint, ChunkDone(f) PROVE FpTypeOK' /\ BatchShape'
  BY <1>5, ChunkDoneKeepsShape
<1>6. CASE CutFingerprints
  BY <1>6 DEF CutFingerprints, FpTypeOK, BatchShape, InOrder, ChunkInPlace
<1>7. CASE UNCHANGED fpVars
  BY <1>7 DEF fpVars, FpTypeOK, BatchShape, InOrder, ChunkInPlace
<1>8. ASSUME NEW f \in Fingerprint, FingerprintStep(f) PROVE FpTypeOK' /\ BatchShape'
  BY <1>1, <1>2, <1>3, <1>4, <1>5, <1>8 DEF FingerprintStep
<1>9. QED
  BY <1>6, <1>7, <1>8
     DEF ProcessNext, processVars, InvestigateRoute, FingerprintRoute, Draining

\* The endpoint's state is always of its type and every batch in shape: no
\* entry out of place, no chunk past the end of the batch, and a response
\* that is still empty when the batch is admitted.
THEOREM FingerprintBatches == ProcessSpec => [](FpTypeOK /\ BatchShape)
<1>1. ProcessInit => FpTypeOK /\ BatchShape
  <2>1. <<>> \in Seq(Entries) /\ <<>> \in Seq(Slots)
    OBVIOUS
  <2>2. "none" \in FpAnswer
    BY AnswersOfTheRoute
  <2>3. ProcessInit => FpTypeOK
    BY <2>1, <2>2, ClampedKnobs DEF ProcessInit, FpInit, FpTypeOK, Entries, Slots
  <2>4. ProcessInit => BatchShape
    BY DEF ProcessInit, FpInit, BatchShape
  <2>5. QED
    BY <2>3, <2>4
<1>2. QED
  BY <1>1, ShapeStep, PTL DEF ProcessSpec

\* One entry per input, in input order, whatever order the probes ended in
\* and wherever the deadline fell.
THEOREM FingerprintEntries == ProcessSpec => []EntryPerItem
<1>1. BatchShape => EntryPerItem
  BY DEF BatchShape, InOrder, EntryPerItem
<1>2. QED
  BY <1>1, FingerprintBatches, PTL

-----------------------------------------------------------------------------
\* A server that is down stays down.
LEMMA UpOnlyFalls == [Next]_vars /\ up' => up
  BY DEF Next, RequestStep, Arrive, BodyRead, Emit, Runner, LaunchWorkers, Adjudicate, Advance,
         Complete, Fail, Settle, Timeout, Disconnect, StreamCancel,
         StopStep, Stop, DrainExpires, DrainEnds, vars

\* A permit is out exactly for the batches being probed, so the clamp of the
\* release never hides a permit returned twice.
THEOREM FingerprintPermits == ProcessSpec => []FpPermitsMatchProbing
<1> USE ClampedKnobs
<1> DEFINE Balance == up => fp_available + Cardinality(Probing) = FpPoolSize
<1>1. ProcessInit => Balance
  <2> SUFFICES ASSUME ProcessInit PROVE Balance
    OBVIOUS
  <2>1. Probing = {}
    BY DEF ProcessInit, FpInit, Probing
  <2>2. QED
    BY <2>1, FS_EmptySet DEF ProcessInit, FpInit
<1>2. FpTypeOK /\ Balance /\ [ProcessNext]_processVars => Balance'
  <2> SUFFICES ASSUME FpTypeOK, Balance, [ProcessNext]_processVars, up'
               PROVE  fp_available' + Cardinality(Probing') = FpPoolSize
    OBVIOUS
  <2>1. up
    BY UpOnlyFalls, ProcessStepsServe
  <2>2. fp_available + Cardinality(Probing) = FpPoolSize
    BY <2>1
  <2>3. IsFiniteSet(Probing) /\ Cardinality(Probing) \in Nat
    BY FingerprintConstants, FS_Subset, FS_CardinalityType DEF Probing
  <2>4. CASE fp_available' = fp_available /\ Probing' = Probing
    BY <2>2, <2>4
  <2>5. ASSUME NEW f \in Fingerprint, FpBodyRead(f), FpAdmit(f)
        PROVE  fp_available' + Cardinality(Probing') = FpPoolSize
    <3>1. Probing' = Probing \cup {f} /\ f \notin Probing
      BY <2>5 DEF FpBodyRead, FpAdmit, Probing, FpTypeOK
    <3>2. Cardinality(Probing') = Cardinality(Probing) + 1
      BY <3>1, <2>3, FS_AddElement
    <3>3. QED
      BY <2>5, <2>2, <2>3, <3>2 DEF FpAdmit, FpTypeOK
  <2>6. ASSUME NEW f \in Fingerprint, NEW e, f \in Probing, FpRespond(f, e)
        PROVE  fp_available' + Cardinality(Probing') = FpPoolSize
    <3>1. Probing' = Probing \ {f}
      BY <2>6 DEF FpRespond, Probing, FpTypeOK
    <3>2. Cardinality(Probing') = Cardinality(Probing) - 1
      BY <2>6, <3>1, <2>3, FS_RemoveElement
    <3>3. Cardinality(Probing) > 0
      BY <2>6, <2>3, FS_EmptySet
    <3>4. fp_available' = fp_available + 1
      BY <2>6, <2>2, <2>3, <3>3 DEF FpRespond, FpTypeOK
    <3>5. QED
      BY <2>2, <2>3, <3>2, <3>4 DEF FpTypeOK
  <2>7. ASSUME NEW f \in Fingerprint, FpArrive(f)
        PROVE  fp_available' = fp_available /\ Probing' = Probing
    BY <2>7 DEF FpArrive, FpRefuse, Probing, FpTypeOK
  <2>8. ASSUME NEW f \in Fingerprint, FpBodyRead(f)
        PROVE  fp_available' + Cardinality(Probing') = FpPoolSize
    <3>1. CASE FpAdmit(f)
      BY <2>5, <2>8, <3>1
    <3>2. CASE FpRefuse(f, "invalid") \/ FpRefuse(f, "at capacity")
      BY <2>4, <2>8, <3>2 DEF FpBodyRead, FpRefuse, Probing, FpTypeOK
    <3>3. QED
      BY <2>8, <3>1, <3>2 DEF FpBodyRead
  <2>9. ASSUME NEW f \in Fingerprint, ChunkDone(f)
        PROVE  fp_available' + Cardinality(Probing') = FpPoolSize
    <3>1. ASSUME NEW e, LaunchChunk(f, e) PROVE fp_available' = fp_available /\ Probing' = Probing
      BY <3>1 DEF LaunchChunk, Probing
    <3>2. QED
      BY <2>4, <2>6, <2>9, <3>1 DEF ChunkDone, Finish
  <2>10. ASSUME NEW f \in Fingerprint, Deadline(f) \/ (\E i \in 1 .. ChunkSize : SettleItem(f, i))
         PROVE  fp_available' = fp_available /\ Probing' = Probing
    BY <2>10 DEF Deadline, SettleItem, Probing
  <2>11. CASE UNCHANGED fpVars
    BY <2>4, <2>11 DEF fpVars, Probing
  <2>12. ASSUME NEW f \in Fingerprint, FingerprintStep(f)
         PROVE  fp_available' + Cardinality(Probing') = FpPoolSize
    BY <2>4, <2>7, <2>8, <2>9, <2>10, <2>12 DEF FingerprintStep
  <2>13. QED
    BY <2>11, <2>12
       DEF ProcessNext, processVars, InvestigateRoute, FingerprintRoute, Draining
<1>3. FpTypeOK /\ Balance => FpPermitsMatchProbing
  BY DEF FpPermitsMatchProbing
<1> HIDE DEF Balance
<1>4. QED
  BY <1>1, <1>2, <1>3, FingerprintBatches, PTL DEF ProcessSpec

=============================================================================
