------------------------------ MODULE StderrMux ------------------------------
(***************************************************************************)
(* The standard error of the two subprocesses of a Log: muxWriter, its     *)
(* muxWriterStreams, and the limitWriter under them.  os/exec copies the   *)
(* standard error of each subprocess with a goroutine of its own, that     *)
(* ends without reading on when the stream fails a Write; Wait waits for   *)
(* it and returns its error if the subprocess itself succeeded.            *)
(*                                                                         *)
(* Text is counted in pieces that do or do not end in a newline, numbered  *)
(* in the order a subprocess writes them.                                  *)
(***************************************************************************)
EXTENDS GitPipe, Functions

CONSTANTS
    LineCap,     \* what a stream buffers: 1024 bytes in the code
    CaptureCap,  \* what the limitWriter takes: 4096 bytes in the code
    MaxErr       \* bound on the pieces written by both

ASSUME StderrAssumption == LineCap \in Nat /\ CaptureCap \in Nat /\ MaxErr \in Nat

VARIABLES
    errText,   \* the number of pieces there are to write
    errSent,   \* the number of pieces a subprocess has written
    errPipe,   \* the pieces in the pipe of its standard error
    errCopy,   \* the goroutine that copies them: "off", "on", "done" or "failed"
    lineBuf,   \* muxWriterStream.buf
    captured   \* the bytes.Buffer under the limitWriter

stderrVars == <<errText, errSent, errPipe, errCopy, lineBuf, captured>>

Pieces == [proc : Procs, n : 1..MaxErr, newline : BOOLEAN]

StderrTypeOK ==
    /\ errText \in 0..MaxErr
    /\ errSent \in [Procs -> 0..MaxErr]
    /\ errCopy \in [Procs -> {"off", "on", "done", "failed"}]
    /\ \A p \in Procs : errPipe[p] \in Seq(Pieces) /\ lineBuf[p] \in Seq(Pieces)
    /\ \A p \in Procs : Len(lineBuf[p]) <= LineCap
    /\ captured \in Seq(Pieces) /\ Len(captured) <= CaptureCap

StderrInit(text) ==
    /\ errText = text
    /\ errSent = [p \in Procs |-> 0]
    /\ errPipe = [p \in Procs |-> <<>>]
    /\ errCopy = [p \in Procs |-> "off"]
    /\ lineBuf = [p \in Procs |-> <<>>]
    /\ captured = <<>>

StartCopying(p) ==
    /\ errCopy' = [errCopy EXCEPT ![p] = "on"]
    /\ UNCHANGED <<errText, errSent, errPipe, lineBuf, captured>>

WritesStderr(p) ==
    /\ Running(p)
    /\ errCopy[p] = "on"
    /\ FoldFunction(+, 0, errSent) < errText
    /\ errSent' = [errSent EXCEPT ![p] = @ + 1]
    /\ \E lf \in BOOLEAN : errPipe' =
           [errPipe EXCEPT ![p] = Append(@, [proc |-> p, n |-> errSent'[p], newline |-> lf])]
    /\ UNCHANGED <<errText, errCopy, lineBuf, captured>>

-----------------------------------------------------------------------------

(***************************************************************************)
(* limitWriter: what does not fit is cut off, and the Write fails.         *)
(***************************************************************************)
Fits(text) == Len(captured) + Len(text) <= CaptureCap
Limited(text) ==
    captured \o (IF Fits(text) THEN text ELSE SubSeq(text, 1, CaptureCap - Len(captured)))

(* The length of data up to the last newline, 0 if there is none.          *)
LineEnd(data) ==
    CHOOSE i \in 0..Len(data) :
        /\ i > 0 => data[i].newline
        /\ \A j \in i + 1..Len(data) : ~data[j].newline

(* muxWriterStream.flushLocked on a buffer the limitWriter cannot take.    *)
KeepsUnwritten(p) ==
    /\ captured' = Limited(lineBuf[p])
    /\ lineBuf' = [lineBuf EXCEPT ![p] = SubSeq(@, CaptureCap - Len(captured) + 1, Len(@))]

(* Mutant: a line that is complete is written ahead of what is buffered.   *)
WritesLinesFirst(p, data) ==
    LET end == LineEnd(data) trailing == SubSeq(data, end + 1, Len(data)) IN
    /\ end > 0
    /\ Fits(SubSeq(data, 1, end))
    /\ captured' = Limited(SubSeq(data, 1, end))
    /\ Len(lineBuf[p]) + Len(trailing) <= LineCap
    /\ lineBuf' = [lineBuf EXCEPT ![p] = @ \o trailing]
    /\ errCopy' = errCopy

(***************************************************************************)
(* muxWriterStream.Write: without a newline the data is buffered.  With    *)
(* one, the buffer and the lines go to the limitWriter under the mutex,    *)
(* and what follows the last newline is buffered.                          *)
(***************************************************************************)
Buffers(p, data) ==
    /\ LineEnd(data) = 0
    /\ Len(lineBuf[p]) + Len(data) <= LineCap
    /\ lineBuf' = [lineBuf EXCEPT ![p] = @ \o data]
    /\ UNCHANGED <<errCopy, captured>>

WritesLines(p, data) ==
    LET end == LineEnd(data)
        text == lineBuf[p] \o SubSeq(data, 1, end)
    IN
    /\ end > 0
    /\ Fits(text)
    /\ captured' = Limited(text)
    /\ Len(data) - end <= LineCap
    /\ lineBuf' = [lineBuf EXCEPT ![p] = SubSeq(data, end + 1, Len(data))]
    /\ errCopy' = errCopy

WriteErrs(p, data) ==
    LET end == LineEnd(data)
        lines == SubSeq(data, 1, end)
    IN
    /\ errCopy' = [errCopy EXCEPT ![p] = "failed"]
    /\ \/ /\ end = 0 /\ Len(lineBuf[p]) + Len(data) > LineCap
          /\ UNCHANGED <<lineBuf, captured>>
       \/ /\ end > 0 /\ ~Fits(lineBuf[p])
          /\ KeepsUnwritten(p)
       \/ /\ end > 0 /\ Fits(lineBuf[p])
          /\ ~Fits(lineBuf[p] \o lines) \/ Len(data) - end > LineCap
          /\ captured' = Limited(lineBuf[p] \o lines)
          /\ lineBuf' = [lineBuf EXCEPT ![p] = <<>>]

(***************************************************************************)
(* The copying goroutine: it gives the stream what a read of the pipe      *)
(* returns, until the subprocess has exited or a Write fails.              *)
(***************************************************************************)
CopiesStderr(p) ==
    /\ errCopy[p] = "on"
    /\ errPipe[p] # <<>>
    /\ \/ Buffers(p, errPipe[p])
       \/ WritesLines(p, errPipe[p])
       \/ WriteErrs(p, errPipe[p])
    /\ errPipe' = [errPipe EXCEPT ![p] = <<>>]
    /\ UNCHANGED <<errText, errSent>>

CopyingEnds(p) ==
    /\ errCopy[p] = "on"
    /\ errPipe[p] = <<>>
    /\ proc[p] \in Exited
    /\ errCopy' = [errCopy EXCEPT ![p] = "done"]
    /\ UNCHANGED <<errText, errSent, errPipe, lineBuf, captured>>

(* Mutant: the end of a stream that has no newline is dropped.             *)
FlushDrops(p) ==
    /\ lineBuf' = [lineBuf EXCEPT ![p] = <<>>]
    /\ UNCHANGED <<errText, errSent, errPipe, errCopy, captured>>

(***************************************************************************)
(* muxWriterStream.Flush, called once the subprocess is waited for, and    *)
(* whether it returns an error.                                            *)
(***************************************************************************)
Flush(p) ==
    /\ IF Fits(lineBuf[p])
       THEN /\ captured' = Limited(lineBuf[p])
            /\ lineBuf' = [lineBuf EXCEPT ![p] = <<>>]
       ELSE KeepsUnwritten(p)
    /\ UNCHANGED <<errText, errSent, errPipe, errCopy>>

FlushErr(p) == ~Fits(lineBuf[p])

(* Whether what is captured has the n-th piece of p.                       *)
Captured(p, n) == \E i \in DOMAIN captured : captured[i].proc = p /\ captured[i].n = n
=============================================================================
