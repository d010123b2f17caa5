----------------------------- MODULE LineWriter -----------------------------
(***************************************************************************)
(* The writer that turns an engine's output into log lines                 *)
(* (pkg/engine/processlog/writer.go): it cuts the stream into lines,       *)
(* limits how many it logs per window, and sums up what it suppressed when *)
(* the window rotates.  A Write holds the mutex, but the clock is read     *)
(* again for every line.  Each start of the engine has a new writer.       *)
(*                                                                         *)
(* Output is abstracted to lengths.  Where the newlines of a chunk are is  *)
(* decided when the writer looks for them.  Newlines and the carriage      *)
(* returns trimmed from a line are not counted.                            *)
(*                                                                         *)
(* Definitions that EngineLifecycle has too are prefixed, so that a module *)
(* about the engine process can extend both.                               *)
(***************************************************************************)
EXTENDS Naturals

CONSTANTS
  MaxLines,   \* maxLinesPerWindow
  Window,     \* windowDuration
  MaxBuffer,  \* maxBufferedLineBytes
  MaxChunk,   \* bound on a chunk
  MaxBytes, MaxTime, MaxRestarts  \* bounds on a behaviour

ASSUME LineWriterAssumption ==
  /\ MaxLines \in Nat \ {0} /\ Window \in Nat \ {0} /\ MaxBuffer \in Nat
  /\ {MaxChunk, MaxBytes, MaxTime, MaxRestarts} \subseteq Nat

VARIABLES
  now,
  writing,   \* a Write holds the mutex
  buffer,    \* w.buffer: the beginning of a line
  chunk,     \* and what the Write has added and not looked at yet
  window,    \* windowStart, linesEmitted, linesSuppressed
  restarts,
  received,  \* history: bytes written by the engine, newlines not counted
  logged, dropped,  \* history: bytes logged, bytes of suppressed lines
  linesLogged, loggedBefore,  \* history: lines logged, and before each instant
  suppressed, summed,  \* history: lines suppressed, lines in summaries
  lost       \* history: what went with the writers of earlier engines

stream == <<writing, buffer, chunk>>
history == <<received, logged, dropped, linesLogged, loggedBefore, suppressed, summed, lost>>
writerVars == <<now, stream, window, restarts, history>>

(* newLineWriter *)
NewWindow == [start |-> now, emitted |-> 0, suppressed |-> 0]

WriterInit ==
  /\ now = 0 /\ writing = FALSE /\ buffer = 0 /\ chunk = 0
  /\ window = NewWindow
  /\ restarts = 0
  /\ received = 0 /\ logged = 0 /\ dropped = 0
  /\ linesLogged = 0 /\ loggedBefore = [t \in {0} |-> 0]
  /\ suppressed = 0 /\ summed = 0 /\ lost = [bytes |-> 0, lines |-> 0]
-----------------------------------------------------------------------------
RotationDueEarly == now > window.start  \* mutant: every later line starts a window

RotationDue == now - window.start >= Window

\* rotateWindowIfNeededLocked: the window it leaves ...
Rotated == IF RotationDue THEN NewWindow ELSE window

SummarySkipped == 0           \* mutant: the window rotates without a summary

\* ... and the number of lines in the summary it logs
Summary == IF RotationDue THEN window.suppressed ELSE 0

(* emitLineLocked: an empty line is skipped; what exceeds the limit of the *)
(* window is counted.                                                      *)
Emit(length) ==
  IF length = 0
  THEN UNCHANGED <<window, logged, dropped, linesLogged, suppressed, summed>>
  ELSE /\ summed' = summed + Summary
       /\ \/ /\ Rotated.emitted < MaxLines
             /\ window' = [Rotated EXCEPT !.emitted = @ + 1]
             /\ logged' = logged + length
             /\ linesLogged' = linesLogged + 1
             /\ UNCHANGED <<dropped, suppressed>>
          \/ /\ Rotated.emitted >= MaxLines
             /\ window' = [Rotated EXCEPT !.suppressed = @ + 1]
             /\ dropped' = dropped + length
             /\ suppressed' = suppressed + 1
             /\ UNCHANGED <<logged, linesLogged>>

WriteBegins(n) ==
  /\ ~writing /\ received + n <= MaxBytes
  /\ writing' = TRUE
  /\ window' = Rotated /\ summed' = summed + Summary
  /\ chunk' = n
  /\ received' = received + n
  /\ UNCHANGED <<now, buffer, restarts, logged, dropped, linesLogged, loggedBefore, suppressed,
                 lost>>

WriteLineForgets(n) ==        \* mutant: the line is what the chunk has of it
  /\ writing
  /\ Emit(n)
  /\ buffer' = 0 /\ chunk' = chunk - n
  /\ UNCHANGED <<now, writing, restarts, received, loggedBefore, lost>>

(* A newline behind n more bytes completes the line that was begun. *)
WriteLine(n) ==
  /\ writing
  /\ Emit(buffer + n)
  /\ buffer' = 0 /\ chunk' = chunk - n
  /\ UNCHANGED <<now, writing, restarts, received, loggedBefore, lost>>

(* No newline is left.  A rest that is too long is a line of its own. *)
WriteEnds ==
  /\ writing
  /\ IF buffer + chunk > MaxBuffer
     THEN Emit(buffer + chunk) /\ buffer' = 0
     ELSE Emit(0) /\ buffer' = buffer + chunk
  /\ chunk' = 0
  /\ writing' = FALSE
  /\ UNCHANGED <<now, restarts, received, loggedBefore, lost>>

(* The engine's output has ended and it is started again (Start of the     *)
(* adapters): its rest and the count of its last window go unreported.     *)
Restart ==
  /\ ~writing /\ restarts < MaxRestarts
  /\ restarts' = restarts + 1
  /\ buffer' = 0 /\ window' = NewWindow
  /\ lost' = [bytes |-> lost.bytes + buffer, lines |-> lost.lines + window.suppressed]
  /\ UNCHANGED <<now, writing, chunk, received, logged, dropped, linesLogged, loggedBefore,
                 suppressed, summed>>

Tick ==
  /\ now < MaxTime
  /\ now' = now + 1
  /\ loggedBefore' = [t \in 0..now' |-> IF t = now' THEN linesLogged ELSE loggedBefore[t]]
  /\ UNCHANGED <<stream, window, restarts>>
  /\ UNCHANGED <<received, logged, dropped, linesLogged, suppressed, summed, lost>>

WriterNext ==
  \/ \E n \in 0..MaxChunk : WriteBegins(n)
  \/ \E n \in 0..chunk : WriteLine(n)
  \/ WriteEnds
  \/ Restart \/ Tick

WriterSpec == WriterInit /\ [][WriterNext]_writerVars
-----------------------------------------------------------------------------
\* Types of the writer's state and of the counts.
WriterTypeOK ==
  /\ now \in Nat /\ writing \in BOOLEAN /\ buffer \in Nat /\ chunk \in Nat
  /\ window \in [start : 0..now, emitted : 0..MaxLines, suppressed : Nat]
  /\ restarts \in Nat
  /\ received \in Nat /\ logged \in Nat /\ dropped \in Nat
  /\ linesLogged \in Nat /\ loggedBefore \in [0..now -> 0..linesLogged]
  /\ suppressed \in Nat /\ summed \in Nat /\ lost \in [bytes : Nat, lines : Nat]

\* Every byte the engine wrote is logged, in a suppressed line, or waiting in
\* the buffer, exactly once, however it was cut into chunks; only the rest of
\* an engine that is gone is lost.  Between two Writes the buffer keeps within
\* its limit.
BytesAccounted ==
  /\ received = logged + dropped + buffer + chunk + lost.bytes
  /\ ~writing => chunk = 0 /\ buffer <= MaxBuffer

\* Every suppressed line is in exactly one summary or in the count of the
\* window that is still open, although windows rotate in the middle of a
\* Write and before one; only the last window of an engine that is gone is
\* not summed up.
SuppressionReported == suppressed = summed + window.suppressed + lost.lines

\* In any stretch of time as long as a window at most twice the limit is
\* logged, wherever the windows fall, and as much again for every restart.
LogRateBounded ==
  \A t \in 0..now :
    now - t < Window => linesLogged - loggedBefore[t] <= 2 * MaxLines + MaxLines * restarts
=============================================================================
