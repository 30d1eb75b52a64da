------------------------------ MODULE Transport ------------------------------
(***************************************************************************)
(* GAssistProtocol (afterburner/protocol/transport.py), the fallback loop: *)
(* frames of a length header and a payload arrive piecemeal; each is read, *)
(* decoded, handled and answered before the next.                          *)
(*                                                                         *)
(* The stream is a sequence of cells, Size of them a frame: the header and *)
(* pieces of the payload.  Cell c is the cell (c - 1) % Size of frame      *)
(* Frame(c).  Reading is destructive, so where the loop stands in the      *)
(* stream matters: the payload of an oversized frame is not read, and its  *)
(* first cell is taken for a header.                                       *)
(***************************************************************************)
EXTENDS Naturals, Sequences

CONSTANTS
    MaxFrames,  \* bound: frames that the engine sends
    Size        \* cells of a frame

\* What a frame may be: a request that is handled, one with an unpaired surrogate
\* in what its answer echoes (json.loads takes it, the UTF-8 of the answer does
\* not), a notification to shut down, a payload that is no request, one nested
\* too deeply for json.loads (RecursionError), and one whose header exceeds
\* MAX_FRAME_BYTES.
Kinds == {"request", "surrogate", "shutdown", "bad", "deep", "oversized"}

Requests == {"request", "surrogate"}

ASSUME TransportAssumption == MaxFrames \in Nat /\ Size \in Nat /\ Size > 1

VARIABLES
    frames,     \* what the engine sends, in order
    sent,       \* cells that have arrived
    closed,     \* has the engine closed our stdin
    hungUp,     \* does it read our stdout no more
    pc,         \* "header", "payload", "write", "done" or "failed"
    read,       \* cells that have been consumed
    need,       \* payload cells to read yet
    frame,      \* the frame whose header was read; 0 for what was no header
    reply,      \* the id to answer with; 0 is null
    out,        \* the ids of the answers
    lost        \* history: has an oversized header been read

engine == <<frames, sent, closed, hungUp>>
vars   == <<engine, pc, read, need, frame, reply, out, lost>>

-----------------------------------------------------------------------------
Frame(c) == ((c - 1) \div Size) + 1

IsHeader(c) == (c - 1) % Size = 0

Init ==
    /\ frames \in [1..MaxFrames -> Kinds]
    /\ sent = 0
    /\ closed = FALSE
    /\ hungUp = FALSE
    /\ pc = "header"
    /\ read = 0
    /\ need = 0
    /\ frame = 0
    /\ reply = 0
    /\ out = <<>>
    /\ lost = FALSE

-----------------------------------------------------------------------------
(* The engine.                                                             *)

Send ==
    /\ ~closed
    /\ sent < MaxFrames * Size
    /\ sent' = sent + 1
    /\ UNCHANGED <<frames, closed, hungUp, pc, read, need, frame, reply, out, lost>>

\* It closes the stream, perhaps in the middle of a frame.
CloseInput ==
    /\ ~closed
    /\ closed' = TRUE
    /\ UNCHANGED <<frames, sent, hungUp, pc, read, need, frame, reply, out, lost>>

HangUp ==
    /\ ~hungUp
    /\ hungUp' = TRUE
    /\ UNCHANGED <<frames, sent, closed, pc, read, need, frame, reply, out, lost>>

-----------------------------------------------------------------------------
(* The loop.                                                               *)

Answer(id) ==
    /\ pc' = "write"
    /\ reply' = id
    /\ need' = 0
    /\ frame' = 0

Expect(n, f) ==
    /\ pc' = "payload"
    /\ need' = n
    /\ frame' = f
    /\ UNCHANGED reply

\* Mutant of ReadHeader: the length is taken to count one cell more.
ReadHeaderTooMuch ==
    /\ pc = "header"
    /\ read < sent
    /\ read' = read + 1
    /\ IF IsHeader(read')
       THEN IF frames[Frame(read')] = "oversized"
            THEN Answer(0) /\ lost' = TRUE
            ELSE Expect(Size, Frame(read')) /\ UNCHANGED lost
       ELSE /\ Answer(0) \/ \E n \in 1..Size : Expect(n, 0)
            /\ UNCHANGED lost
    /\ UNCHANGED <<engine, out>>

\* read_frame takes the next cell for a header.
ReadHeader ==
    /\ pc = "header"
    /\ read < sent
    /\ read' = read + 1
    /\ IF IsHeader(read')
       THEN IF frames[Frame(read')] = "oversized"
            THEN Answer(0) /\ lost' = TRUE
            ELSE Expect(Size - 1, Frame(read')) /\ UNCHANGED lost
       ELSE /\ Answer(0) \/ \E n \in 1..Size : Expect(n, 0)
            /\ UNCHANGED lost
    /\ UNCHANGED <<engine, out>>

\* _read_exact, one piece at a time.
ReadPayload ==
    /\ pc = "payload"
    /\ need > 0
    /\ read < sent
    /\ read' = read + 1
    /\ need' = need - 1
    /\ UNCHANGED <<engine, pc, frame, reply, out, lost>>

Kind == IF frame = 0 THEN "bad" ELSE frames[frame]

Payload == pc = "payload" /\ need = 0

\* Mutant of BadFrame: the error reaches the end of the loop.
BadFrameEnds ==
    /\ Payload
    /\ Kind = "bad"
    /\ pc' = "done"
    /\ UNCHANGED <<engine, read, need, frame, reply, out, lost>>

\* No UTF-8, no JSON, or no request: an error with a null id.
BadFrame ==
    /\ Payload
    /\ Kind = "bad"
    /\ Answer(0)
    /\ UNCHANGED <<engine, read, out, lost>>

Handle ==
    /\ Payload
    /\ Kind \in Requests
    /\ Answer(frame)
    /\ UNCHANGED <<engine, read, out, lost>>

\* Mutant of Shutdown: the loop goes on.
ShutdownContinues ==
    /\ Payload
    /\ Kind = "shutdown"
    /\ pc' = "header"
    /\ frame' = 0
    /\ UNCHANGED <<engine, read, need, reply, out, lost>>

\* The handler returns no message, and tells the loop to stop.
Shutdown ==
    /\ Payload
    /\ Kind = "shutdown"
    /\ pc' = "done"
    /\ UNCHANGED <<engine, read, need, frame, reply, out, lost>>

\* A RecursionError is none of the exceptions that read_frame and run catch.
TooDeep ==
    /\ Payload
    /\ Kind = "deep"
    /\ pc' = "failed"
    /\ UNCHANGED <<engine, read, need, frame, reply, out, lost>>

Encodable == reply # 0 => frames[reply] # "surrogate"

\* Mutant of Write: an answer with a null id is dropped.
WriteWithId ==
    /\ pc = "write"
    /\ Encodable
    /\ ~hungUp
    /\ out' = IF reply = 0 THEN out ELSE Append(out, reply)
    /\ pc' = "header"
    /\ reply' = 0
    /\ UNCHANGED <<engine, read, need, frame, lost>>

\* write_message.  An answer stands for all messages that the handler returned for
\* a request (an input has two); they are written with no read in between.
Write ==
    /\ pc = "write"
    /\ Encodable
    /\ ~hungUp
    /\ out' = Append(out, reply)
    /\ pc' = "header"
    /\ reply' = 0
    /\ UNCHANGED <<engine, read, need, frame, lost>>

\* Neither the UnicodeEncodeError of the encoding nor the OSError of the stream is
\* caught in the loop.
WriteFails ==
    /\ pc = "write"
    /\ ~Encodable \/ hungUp
    /\ pc' = "failed"
    /\ UNCHANGED <<engine, read, need, frame, reply, out, lost>>

\* EOFError, or an OSError of the reader: a clean end.
EndOfInput ==
    /\ pc = "header" \/ (pc = "payload" /\ need > 0)
    /\ closed
    /\ read = sent
    /\ pc' = "done"
    /\ UNCHANGED <<engine, read, need, frame, reply, out, lost>>

Loop ==
    \/ ReadHeader \/ ReadPayload
    \/ BadFrame \/ Handle \/ Shutdown \/ TooDeep
    \/ Write \/ WriteFails
    \/ EndOfInput

Next == Send \/ CloseInput \/ HangUp \/ Loop

Spec == Init /\ [][Next]_vars /\ WF_vars(Loop)

-----------------------------------------------------------------------------
(* Properties.                                                             *)

TypeOK ==
    /\ frames \in [1..MaxFrames -> Kinds]
    /\ sent \in 0..(MaxFrames * Size)
    /\ closed \in BOOLEAN
    /\ hungUp \in BOOLEAN
    /\ pc \in {"header", "payload", "write", "done", "failed"}
    /\ read \in 0..sent
    /\ need \in 0..Size
    /\ frame \in 0..MaxFrames
    /\ reply \in 0..MaxFrames
    /\ out \in Seq(0..MaxFrames)
    /\ lost \in BOOLEAN

\* The loop reads a header where one is, until an oversized frame has come.
StandsAtFrame ==
    ~lost => /\ pc = "header" => read % Size = 0
             /\ pc = "payload" => /\ frame = Frame(read)
                                  /\ (read + need) % Size = 0
             /\ pc = "write" => read % Size = 0

\* What the frames 1..k are answered with.
Answers(k) == [i \in 1..k |-> IF frames[i] \in Requests THEN i ELSE 0]

\* Every frame that was consumed has exactly one answer, with its own id or null,
\* in the order of the frames: none is dropped, doubled, or given to another.
AnsweredInOrder ==
    ~lost =>
        /\ pc = "header" => out = Answers(read \div Size)
        /\ pc = "write" => Append(out, reply) = Answers(read \div Size)

IInv == TypeOK /\ StandsAtFrame

\* A payload that is no UTF-8, no JSON or no request does not end the loop: a frame
\* that has arrived whole is answered, if it and all frames before it were such or
\* requests with an answer that can be encoded, and the engine listens; frames that
\* come later, or not, do not matter.  Of the other kinds nothing is promised: after
\* an oversized frame the loop has lost its place, and a frame that is deep or has a
\* surrogate ends it unanswered (though run is to exit on no bad frame).
FramesAreAnswered ==
    \A i \in 1..MaxFrames :
        (/\ sent >= i * Size
         /\ \A j \in 1..i : frames[j] \in {"request", "bad"})
            ~> (Len(out) >= i \/ hungUp)

\* Once the loop has seen a shutdown, nothing that follows is consumed.
ShutdownIsFinal ==
    ~lost => \A i \in 1..MaxFrames :
                 frames[i] = "shutdown" => read <= i * Size
=============================================================================
