--------------------------- MODULE TransportProofs ---------------------------
(***************************************************************************)
(* Proofs about Transport, for any number of frames of any size: where the *)
(* loop stands in the stream, that every frame it consumed has its answer, *)
(* in order, and that a shutdown is the last thing it consumes.            *)
(***************************************************************************)
EXTENDS Transport, Integers, TLAPS

-----------------------------------------------------------------------------
(* Cells and frames.                                                       *)

LEMMA Multiples ==
    ASSUME NEW a \in Nat, NEW b \in Nat, a < b
    PROVE  a * Size \in Nat /\ b * Size \in Nat /\ a * Size + Size <= b * Size
  <1>1. Size \in Nat
    BY TransportAssumption
  <1>2. (b - (a + 1)) * Size >= 0
    BY <1>1
  <1>3. b * Size = (a + 1) * Size + (b - (a + 1)) * Size
    BY <1>1
  <1>4. (a + 1) * Size = a * Size + Size
    BY <1>1
  <1>5. a * Size \in Nat /\ b * Size \in Nat
    BY <1>1
  <1> QED
    BY <1>1, <1>2, <1>3, <1>4, <1>5

\* A cell is r cells into the frame after the first k.
LEMMA Division ==
    ASSUME NEW k \in Nat, NEW r \in 0..(Size - 1)
    PROVE  (k * Size + r) \div Size = k /\ (k * Size + r) % Size = r
  <1> DEFINE n == k * Size + r
             q == n \div Size
             m == n % Size
  <1>1. Size \in Nat /\ Size > 0 /\ k * Size \in Nat /\ n \in Nat
    BY TransportAssumption
  <1>2. q \in Nat /\ m \in 0..(Size - 1) /\ n = q * Size + m
    BY <1>1
  <1> HIDE DEF q, m
  <1>3. q * Size + m = k * Size + r
    BY <1>2
  <1>4. ~(q < k)
    BY <1>1, <1>2, <1>3, Multiples
  <1>5. ~(k < q)
    BY <1>1, <1>2, <1>3, Multiples
  <1>6. q = k
    BY <1>2, <1>4, <1>5
  <1>7. m = r
    BY <1>1, <1>2, <1>3, <1>6
  <1> QED
    BY <1>6, <1>7 DEF q, m

\* Every cell belongs to a frame that was sent.
LEMMA FrameExists ==
    ASSUME NEW c \in 1..(MaxFrames * Size)
    PROVE  Frame(c) \in 1..MaxFrames
  <1> DEFINE q == (c - 1) \div Size
             m == (c - 1) % Size
  <1>1. Size \in Nat /\ Size > 0 /\ MaxFrames \in Nat /\ c - 1 \in Nat /\ MaxFrames * Size \in Nat
    BY TransportAssumption
  <1>2. q \in Nat /\ m \in 0..(Size - 1) /\ c - 1 = q * Size + m /\ q * Size \in Nat
    BY <1>1
  <1> HIDE DEF q, m
  <1>3. c - 1 < MaxFrames * Size
    BY <1>1
  <1>4. q < MaxFrames
    <2>1. CASE MaxFrames < q
      <3>1. MaxFrames * Size + Size <= q * Size
        BY <1>1, <1>2, <2>1, Multiples
      <3> QED
        BY <1>1, <1>2, <1>3, <3>1
    <2>2. CASE MaxFrames = q
      BY <1>1, <1>2, <1>3, <2>2
    <2> QED
      BY <1>1, <1>2, <2>1, <2>2
  <1> QED
    BY <1>1, <1>2, <1>4 DEF Frame, q

\* One more answer.
LEMMA AnswersGrow ==
    ASSUME NEW k \in Nat, k < MaxFrames
    PROVE  /\ Answers(k) \in Seq(0..MaxFrames)
           /\ Len(Answers(k)) = k
           /\ Append(Answers(k), IF frames[k + 1] \in Requests THEN k + 1 ELSE 0) = Answers(k + 1)
  <1> DEFINE id(i) == IF frames[i] \in Requests THEN i ELSE 0
  <1>1. MaxFrames \in Nat
    BY TransportAssumption
  <1>2. \A i \in 1..(k + 1) : id(i) \in 0..MaxFrames
    BY <1>1
  <1>3. Answers(k) = [i \in 1..k |-> id(i)] /\ Answers(k + 1) = [i \in 1..(k + 1) |-> id(i)]
    BY DEF Answers
  <1> HIDE DEF id
  <1>4. [i \in 1..k |-> id(i)] \in Seq(0..MaxFrames) /\ Len([i \in 1..k |-> id(i)]) = k
    BY <1>2
  <1>5. Append([i \in 1..k |-> id(i)], id(k + 1)) = [i \in 1..(k + 1) |-> id(i)]
    BY <1>2, <1>4
  <1> QED
    BY <1>3, <1>4, <1>5 DEF id

-----------------------------------------------------------------------------
(* Types.                                                                  *)

LEMMA InitType == Init => TypeOK
  <1> SUFFICES ASSUME Init PROVE TypeOK
    OBVIOUS
  <1>1. MaxFrames \in Nat /\ Size \in Nat /\ MaxFrames * Size \in Nat
    BY TransportAssumption
  <1>2. sent \in 0..(MaxFrames * Size) /\ read \in 0..sent /\ need \in 0..Size
    BY <1>1 DEF Init
  <1>3. frame \in 0..MaxFrames /\ reply \in 0..MaxFrames /\ out \in Seq(0..MaxFrames)
    BY <1>1 DEF Init
  <1> QED
    BY <1>2, <1>3 DEF Init, TypeOK

LEMMA StepType == TypeOK /\ [Next]_vars => TypeOK'
  <1> SUFFICES ASSUME TypeOK, [Next]_vars PROVE TypeOK'
    OBVIOUS
  <1>1. MaxFrames \in Nat /\ Size \in Nat /\ Size > 1 /\ MaxFrames * Size \in Nat
    BY TransportAssumption
  <1> USE DEF engine
  <1>2. CASE UNCHANGED vars
    BY <1>2 DEF vars, TypeOK
  <1>3. CASE Send \/ CloseInput \/ HangUp
    <2> DEFINE cells == MaxFrames * Size
    <2>1. cells \in Nat /\ sent \in 0..cells /\ read \in 0..sent
      BY <1>1 DEF TypeOK
    <2>2. Send => sent' = sent + 1 /\ sent < cells
      BY DEF Send
    <2> HIDE DEF cells
    <2>3. sent' \in 0..cells /\ read' \in 0..sent'
      BY <1>3, <2>1, <2>2 DEF Send, CloseInput, HangUp
    <2> QED
      BY <1>3, <2>3 DEF Send, CloseInput, HangUp, TypeOK, cells
  <1>4. CASE ReadHeader
    <2> DEFINE cells == MaxFrames * Size
    <2>0. cells \in Nat /\ sent \in 0..cells /\ read \in 0..sent
      BY <1>1 DEF TypeOK
    <2> HIDE DEF cells
    <2>1. read' \in 0..sent' /\ read' \in 1..cells
      BY <1>4, <2>0 DEF ReadHeader
    <2>2. Frame(read') \in 1..MaxFrames
      BY <2>1, FrameExists DEF cells
    <2>3. lost' \in BOOLEAN
      BY <1>4 DEF ReadHeader, TypeOK
    <2>4. \/ pc' = "write" /\ reply' = 0 /\ need' = 0 /\ frame' = 0
          \/ pc' = "payload" /\ reply' = reply /\ need' \in 0..Size /\ frame' \in 0..MaxFrames
      BY <1>1, <1>4, <2>2 DEF ReadHeader, Answer, Expect
    <2> QED
      BY <1>1, <1>4, <2>1, <2>3, <2>4 DEF ReadHeader, TypeOK
  <1>5. CASE ReadPayload
    BY <1>1, <1>5 DEF ReadPayload, TypeOK
  <1>6. CASE BadFrame \/ Handle \/ Shutdown \/ TooDeep
    BY <1>1, <1>6 DEF BadFrame, Handle, Shutdown, TooDeep, Answer, TypeOK
  <1>7. CASE Write
    <2>1. out' \in Seq(0..MaxFrames) /\ reply' \in 0..MaxFrames
      BY <1>1, <1>7 DEF Write, TypeOK
    <2> QED
      BY <1>7, <2>1 DEF Write, TypeOK
  <1>8. CASE WriteFails \/ EndOfInput
    BY <1>8 DEF WriteFails, EndOfInput, TypeOK
  <1> QED
    BY <1>2, <1>3, <1>4, <1>5, <1>6, <1>7, <1>8 DEF Next, Loop

-----------------------------------------------------------------------------
(* Where the loop stands.                                                  *)

\* Until an oversized header was read, the loop stands after the frames it has
\* answered, and none of them was a shutdown.
Standing ==
    ~lost =>
        /\ pc = "header" =>
               /\ read = Len(out) * Size
               /\ Len(out) <= MaxFrames
               /\ out = Answers(Len(out))
        /\ pc = "payload" =>
               /\ frame \in 1..MaxFrames
               /\ need < Size
               /\ read + need = frame * Size
               /\ out = Answers(frame - 1)
        /\ pc = "write" =>
               /\ Len(out) < MaxFrames
               /\ read = (Len(out) + 1) * Size
               /\ Append(out, reply) = Answers(Len(out) + 1)

\* The shutdowns are ahead of it, and the end of the first is as far as it gets.
Ahead ==
    ~lost =>
        \A i \in 1..MaxFrames : frames[i] = "shutdown" =>
            /\ pc = "header" => Len(out) < i
            /\ pc = "payload" => frame <= i
            /\ pc = "write" => Len(out) + 1 < i
            /\ pc \in {"done", "failed"} => read <= i * Size

LInv == TypeOK /\ Standing /\ Ahead

\* At a frame boundary the next cell is the header of the next frame.
LEMMA NextHeader ==
    ASSUME NEW k \in Nat
    PROVE  IsHeader(k * Size + 1) /\ Frame(k * Size + 1) = k + 1
  <1>1. Size \in Nat /\ 0 \in 0..(Size - 1) /\ k * Size \in Nat
    BY TransportAssumption
  <1>2. (k * Size + 0) \div Size = k /\ (k * Size + 0) % Size = 0
    BY <1>1, Division
  <1>3. k * Size + 0 = k * Size /\ (k * Size + 1) - 1 = k * Size
    BY <1>1
  <1> QED
    BY <1>2, <1>3 DEF IsHeader, Frame

LEMMA HeaderStep ==
    ASSUME LInv, ReadHeader, ~lost'
    PROVE  (Standing /\ Ahead)'
  <1>1. ~lost /\ pc = "header" /\ out' = out /\ frames' = frames
    BY DEF ReadHeader, engine
  <1> DEFINE k == Len(out)
  <1>2. k \in Nat /\ read = k * Size /\ out = Answers(k) /\ read' = k * Size + 1
    BY <1>1 DEF LInv, Standing, TypeOK, ReadHeader
  <1>3. read' \in 1..(MaxFrames * Size) /\ Size \in Nat /\ Size > 1 /\ k * Size \in Nat
    BY <1>2, TransportAssumption DEF LInv, TypeOK, ReadHeader
  <1>4. IsHeader(read') /\ Frame(read') = k + 1
    BY <1>2, NextHeader
  <1>5. k + 1 \in 1..MaxFrames
    BY <1>3, <1>4, FrameExists
  <1>6. pc' = "payload" /\ need' = Size - 1 /\ frame' = k + 1
    BY <1>4 DEF ReadHeader, Answer, Expect
  <1>7. read' + need' = frame' * Size
    <2>1. (k + 1) * Size = k * Size + Size
      BY <1>2, <1>3
    <2> QED
      BY <1>2, <1>3, <1>6, <2>1
  <1>8. (out = Answers(frame - 1))'
    <2>1. frame' - 1 = k
      BY <1>2, <1>6
    <2> QED
      BY <1>1, <1>2, <2>1 DEF Answers
  <1>9. Standing'
    BY <1>3, <1>5, <1>6, <1>7, <1>8 DEF Standing
  <1>10. \A i \in 1..MaxFrames : frames[i] = "shutdown" => k < i
    BY <1>1 DEF LInv, Ahead
  <1>11. Ahead'
    BY <1>1, <1>2, <1>6, <1>10 DEF Ahead
  <1> QED
    BY <1>9, <1>11

\* A frame that is neither a shutdown nor too deep gets the answer that is due.
LEMMA AnswerStep ==
    ASSUME LInv, ~lost, BadFrame \/ Handle
    PROVE  (Standing /\ Ahead)'
  <1>1. /\ pc = "payload" /\ need = 0 /\ pc' = "write"
        /\ frames' = frames /\ read' = read /\ out' = out /\ lost' = lost
    BY DEF BadFrame, Handle, Payload, Answer, engine
  <1>2. /\ frame \in 1..MaxFrames /\ read = frame * Size /\ out = Answers(frame - 1)
        /\ MaxFrames \in Nat /\ Size \in Nat
    BY <1>1, TransportAssumption DEF LInv, Standing, TypeOK
  <1>3. reply' = (IF frames[frame] \in Requests THEN frame ELSE 0) /\ frames[frame] # "shutdown"
    BY <1>2 DEF BadFrame, Handle, Kind, Requests, Answer
  <1>4. frame - 1 \in Nat /\ frame - 1 < MaxFrames /\ (frame - 1) + 1 = frame
    BY <1>2
  <1>5. Len(out) = frame - 1 /\ Append(out, reply') = Answers(frame)
    BY <1>2, <1>3, <1>4, AnswersGrow
  <1>6. Answers(Len(out) + 1)' = Answers(frame)
    BY <1>1, <1>4, <1>5 DEF Answers
  <1>7. Standing'
    BY <1>1, <1>2, <1>4, <1>5, <1>6 DEF Standing
  <1>8. Ahead'
    BY <1>1, <1>2, <1>3, <1>5 DEF LInv, Ahead
  <1> QED
    BY <1>7, <1>8

LEMMA InitStands == Init => LInv
  <1> SUFFICES ASSUME Init PROVE LInv
    OBVIOUS
  <1>1. MaxFrames \in Nat /\ Size \in Nat
    BY TransportAssumption
  <1>2. Len(out) = 0 /\ out = Answers(0)
    BY DEF Init, Answers
  <1> QED
    BY <1>1, <1>2, InitType DEF Init, LInv, Standing, Ahead

LEMMA StepStands == LInv /\ [Next]_vars => LInv'
  <1> SUFFICES ASSUME LInv, [Next]_vars PROVE LInv'
    OBVIOUS
  <1>1. TypeOK' /\ frames' = frames
    BY StepType DEF LInv, Next, Loop, Send, CloseInput, HangUp, ReadHeader, ReadPayload, BadFrame,
       Handle, Shutdown, TooDeep, Write, WriteFails, EndOfInput, engine, vars
  <1>2. SUFFICES ASSUME ~lost' PROVE (Standing /\ Ahead)'
    BY <1>1 DEF LInv, Standing, Ahead
  <1>3. ~lost
    BY <1>2 DEF Next, Loop, Send, CloseInput, HangUp, ReadHeader, ReadPayload, BadFrame,
       Handle, Shutdown, TooDeep, Write, WriteFails, EndOfInput, vars
  <1>4. /\ MaxFrames \in Nat /\ Size \in Nat
        /\ read \in Nat /\ need \in Nat
    BY TransportAssumption DEF LInv, TypeOK
  <1>5. \A n : Answers(n)' = Answers(n)
    BY <1>1 DEF Answers
  <1>6. CASE UNCHANGED <<pc, read, need, frame, reply, out, lost>>
    <2>1. Standing'
      BY <1>3, <1>5, <1>6 DEF LInv, Standing
    <2> QED
      BY <1>1, <1>3, <1>6, <2>1 DEF LInv, Ahead
  <1>7. CASE ReadPayload
    <2>1. /\ pc = "payload" /\ pc' = "payload" /\ read' = read + 1 /\ need' = need - 1 /\ need > 0
          /\ UNCHANGED <<frame, out, lost>>
      BY <1>7 DEF ReadPayload
    <2>2. read' + need' = read + need /\ need' < need
      BY <1>4, <2>1
    <2>3. Standing'
      BY <1>3, <1>4, <1>5, <2>1, <2>2 DEF LInv, Standing
    <2> QED
      BY <1>1, <1>3, <2>1, <2>3 DEF LInv, Ahead
  <1>8. CASE Shutdown \/ TooDeep \/ EndOfInput \/ WriteFails
    <2>1. /\ pc \in {"header", "payload", "write"} /\ pc' \in {"done", "failed"}
          /\ UNCHANGED <<read, need, frame, reply, out, lost>>
      BY <1>8 DEF Shutdown, TooDeep, EndOfInput, WriteFails, Payload
    <2>2. ASSUME NEW i \in 1..MaxFrames, frames[i] = "shutdown" PROVE read <= i * Size
      <3>1. PICK k \in Nat : k <= i /\ read <= k * Size
        <4>1. CASE pc = "header"
          BY <1>3, <1>4, <2>2, <4>1 DEF LInv, Standing, Ahead, TypeOK
        <4>2. CASE pc = "payload"
          BY <1>3, <1>4, <2>2, <4>2 DEF LInv, Standing, Ahead
        <4>3. CASE pc = "write"
          <5>1. Len(out) + 1 \in Nat
            BY DEF LInv, TypeOK
          <5>2. Len(out) + 1 < i /\ read = (Len(out) + 1) * Size
            BY <1>3, <2>2, <4>3 DEF LInv, Standing, Ahead
          <5> QED
            BY <1>4, <5>1, <5>2
        <4> QED
          BY <2>1, <4>1, <4>2, <4>3
      <3>2. k * Size \in Nat /\ i * Size \in Nat /\ k * Size <= i * Size
        <4>1. CASE k = i
          BY <1>4, <4>1
        <4>2. CASE k < i
          BY <1>4, <4>2, Multiples
        <4> QED
          BY <3>1, <4>1, <4>2
      <3> QED
        BY <1>4, <3>1, <3>2
    <2> QED
      BY <1>1, <2>1, <2>2 DEF Standing, Ahead
  <1>9. CASE Write
    <2> DEFINE k == Len(out)
    <2>1. /\ pc = "write" /\ pc' = "header" /\ out' = Append(out, reply)
          /\ read' = read /\ lost' = lost
      BY <1>9 DEF Write
    <2>2. k \in Nat /\ k < MaxFrames /\ read = (k + 1) * Size /\ out' = Answers(k + 1)
      BY <1>3, <2>1 DEF LInv, Standing, TypeOK
    <2>3. Len(out') = k + 1
      BY <2>1 DEF LInv, TypeOK
    <2>4. Standing'
      BY <1>4, <1>5, <2>1, <2>2, <2>3 DEF Standing
    <2> QED
      BY <1>1, <1>3, <2>1, <2>3, <2>4 DEF LInv, Ahead
  <1> QED
    BY <1>2, <1>3, <1>6, <1>7, <1>8, <1>9, HeaderStep, AnswerStep
       DEF Next, Loop, Send, CloseInput, HangUp, vars

THEOREM LoopStands == Spec => []LInv
  BY InitStands, StepStands, PTL DEF Spec

-----------------------------------------------------------------------------
(* The properties of the run.                                              *)

LEMMA WholeFrames ==
    ASSUME NEW k \in Nat
    PROVE  (k * Size) \div Size = k /\ (k * Size) % Size = 0
  <1>1. 0 \in 0..(Size - 1) /\ k * Size + 0 = k * Size
    BY TransportAssumption
  <1> QED
    BY <1>1, Division

\* Until an oversized frame has come, the loop takes the first cell of a frame for
\* its header, and no other.
THEOREM LoopReadsHeaders == Spec => []IInv
  <1>1. ASSUME LInv PROVE IInv
    <2>1. MaxFrames \in Nat /\ Size \in Nat /\ Size > 1 /\ Len(out) \in Nat
      BY <1>1, TransportAssumption DEF LInv, TypeOK
    <2>2. ASSUME ~lost, pc = "header" PROVE read % Size = 0
      BY <1>1, <2>1, <2>2, WholeFrames DEF LInv, Standing
    <2>3. ASSUME ~lost, pc = "write" PROVE read % Size = 0
      BY <1>1, <2>1, <2>3, WholeFrames DEF LInv, Standing
    <2>4. ASSUME ~lost, pc = "payload" PROVE frame = Frame(read) /\ (read + need) % Size = 0
      <3>1. /\ frame \in 1..MaxFrames /\ need \in Nat /\ need < Size /\ read \in Nat
            /\ read + need = frame * Size
        BY <1>1, <2>1, <2>4 DEF LInv, Standing, TypeOK
      <3>2. frame - 1 \in Nat /\ Size - 1 - need \in 0..(Size - 1)
        BY <2>1, <3>1
      <3>3. (frame - 1) * Size + Size = frame * Size /\ (frame - 1) * Size \in Nat
        BY <2>1, <3>1
      <3>4. read - 1 = (frame - 1) * Size + (Size - 1 - need)
        BY <2>1, <3>1, <3>3
      <3>5. (read - 1) \div Size = frame - 1
        BY <3>2, <3>4, Division
      <3>6. Frame(read) = frame
        BY <3>1, <3>5 DEF Frame
      <3> QED
        BY <3>1, <3>6, WholeFrames
    <2> QED
      BY <1>1, <2>2, <2>3, <2>4 DEF IInv, StandsAtFrame, LInv
  <1> QED
    BY <1>1, LoopStands, PTL

\* Every frame that was consumed has one answer, with its own id or null, in the
\* order in which the frames came.
THEOREM FramesAnsweredInOrder == Spec => []AnsweredInOrder
  <1>1. ASSUME LInv PROVE AnsweredInOrder
    <2>1. Len(out) \in Nat /\ Len(out) + 1 \in Nat
      BY <1>1 DEF LInv, TypeOK
    <2> QED
      BY <1>1, <2>1, WholeFrames DEF LInv, Standing, AnsweredInOrder
  <1> QED
    BY <1>1, LoopStands, PTL

\* Nothing after a shutdown is consumed.
THEOREM NothingAfterShutdown == Spec => []ShutdownIsFinal
  <1>1. ASSUME LInv PROVE ShutdownIsFinal
    <2> SUFFICES ASSUME ~lost, NEW i \in 1..MaxFrames, frames[i] = "shutdown"
                 PROVE  read <= i * Size
      BY DEF ShutdownIsFinal
    <2>1. MaxFrames \in Nat /\ Size \in Nat /\ read \in Nat /\ need \in Nat /\ Len(out) \in Nat
      BY <1>1, TransportAssumption DEF LInv, TypeOK
    <2>2. CASE pc \in {"done", "failed"}
      BY <1>1, <2>2 DEF LInv, Ahead
    <2>3. CASE pc \in {"header", "payload", "write"}
      <3>1. PICK k \in Nat : k <= i /\ read <= k * Size
        <4>1. CASE pc = "header"
          BY <1>1, <2>1, <4>1 DEF LInv, Standing, Ahead
        <4>2. CASE pc = "payload"
          <5>1. frame \in 1..MaxFrames /\ frame <= i /\ read + need = frame * Size
            BY <1>1, <4>2 DEF LInv, Standing, Ahead
          <5>2. frame \in Nat /\ frame * Size \in Nat /\ read <= frame * Size
            BY <2>1, <5>1
          <5> QED
            BY <5>1, <5>2
        <4>3. CASE pc = "write"
          BY <1>1, <2>1, <4>3 DEF LInv, Standing, Ahead
        <4> QED
          BY <2>3, <4>1, <4>2, <4>3
      <3>2. CASE k = i
        BY <3>1, <3>2
      <3>3. CASE k < i
        BY <2>1, <3>1, <3>3, Multiples
      <3> QED
        BY <3>1, <3>2, <3>3
    <2> QED
      BY <1>1, <2>2, <2>3 DEF LInv, TypeOK
  <1> QED
    BY <1>1, LoopStands, PTL

-----------------------------------------------------------------------------
(* How many steps the loop takes: what liveness needs besides fairness.    *)

\* Three steps for each cell to come at most, and those that end a frame.
Left ==
    3 * (MaxFrames * Size - read) +
    CASE pc = "header" -> 1 [] pc = "payload" -> 3 [] pc = "write" -> 2 [] OTHER -> 0

\* The loop's steps lower the count, and the engine's leave it alone.
Descends == IF Loop THEN Left' < Left ELSE Left' = Left

LEMMA LoopDescends ==
    ASSUME TypeOK, TypeOK', Loop
    PROVE  Left' < Left
  <1> USE DEF engine, Answer, Expect
  <1>1. /\ read \in Nat /\ read' \in Nat /\ MaxFrames * Size \in Nat
    BY TransportAssumption DEF TypeOK
  <1>2. CASE ReadHeader
    BY <1>1, <1>2 DEF ReadHeader, Left
  <1>3. CASE ReadPayload
    BY <1>1, <1>3 DEF ReadPayload, Left
  <1>4. CASE BadFrame \/ Handle
    BY <1>1, <1>4 DEF BadFrame, Handle, Payload, Left
  <1>5. CASE Shutdown \/ TooDeep
    BY <1>1, <1>5 DEF Shutdown, TooDeep, Payload, Left
  <1>6. CASE Write \/ WriteFails
    BY <1>1, <1>6 DEF Write, WriteFails, Left
  <1>7. CASE EndOfInput
    BY <1>1, <1>7 DEF EndOfInput, Left
  <1> QED
    BY <1>2, <1>3, <1>4, <1>5, <1>6, <1>7 DEF Loop

\* The loop cannot turn without consuming its input: each of its steps uses up a cell
\* or brings a frame that was read nearer to its answer.
THEOREM LoopCountsDown == Spec => [](Left \in Nat) /\ [][Descends]_vars
  <1>1. TypeOK => Left \in Nat
    <2> SUFFICES ASSUME TypeOK PROVE Left \in Nat
      OBVIOUS
    <2>1. read \in Nat /\ MaxFrames * Size \in Nat /\ read <= MaxFrames * Size
      BY TransportAssumption DEF TypeOK
    <2> QED
      BY <2>1 DEF Left
  <1>2. TypeOK /\ TypeOK' /\ [Next]_vars => [Descends]_vars
    <2>1. ~Loop /\ [Next]_vars => UNCHANGED <<read, pc>>
      BY DEF Next, Send, CloseInput, HangUp, vars
    <2> QED
      BY <2>1, LoopDescends DEF Descends, Left
  <1> QED
    BY <1>1, <1>2, InitType, StepType, PTL DEF Spec
=============================================================================
