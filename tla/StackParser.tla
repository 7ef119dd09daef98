---------------------------- MODULE StackParser ----------------------------
(***************************************************************************)
(* The agent's reading of pystack's output (util/textparser): one pass     *)
(* over the lines that builds the list of threads with their frames.       *)
(*                                                                         *)
(* A line is what the parser takes it for; the text of a header, frame or  *)
(* source line is its number.  Kinds:                                      *)
(*   thread   "Traceback for thread 7 (MainThread) ..."                    *)
(*   huge     the same with a number that is no int                        *)
(*   odd      the same prefix, but no number and name after it             *)
(*   frame    "    (Python) File ..."                                      *)
(*   code     a source line, indented, without the word File               *)
(*   other    anything else, source lines with the word File among them,   *)
(*            which the parser does not take for source lines              *)
(*   long     a line over the scanner's limit of 64 KB                     *)
(***************************************************************************)
EXTENDS Integers, Sequences, FiniteSets

CONSTANT MaxLines  \* bound: lines of the output

ASSUME LinesAssumption == MaxLines \in Nat

Kinds == {"thread", "huge", "odd", "frame", "code", "other"}

VARIABLES
    text,     \* the lines scanned so far
    current,  \* the thread being read, as a sequence of at most one
    threads,  \* the threads that are finished
    pc

vars == <<text, current, threads, pc>>

Init == text = <<>> /\ current = <<>> /\ threads = <<>> /\ pc = "scan"

(* parseThreadHeader: a header that cannot be read makes thread -1,        *)
(* "unknown"; one whose number cannot be read keeps its name.              *)
Header(line, kind) ==
    [line |-> line, numbered |-> kind = "thread", named |-> kind # "odd", frames |-> <<>>]

Frame(line) == [line |-> line, code |-> <<>>]

WithFrame(thread, line) == [thread EXCEPT !.frames = Append(@, Frame(line))]

(* Source lines go to the last frame.                                      *)
WithCode(thread, line) ==
    [thread EXCEPT !.frames[Len(thread.frames)].code = Append(@, line)]

Scanned(kind) == pc = "scan" /\ Len(text) < MaxLines /\ text' = Append(text, kind)

StartStacks(kind) ==
    /\ kind \in {"thread", "huge", "odd"} /\ Scanned(kind)
    /\ current' = Append(current, Header(Len(text'), kind))
    /\ UNCHANGED <<threads, pc>>

StartOverwrites(kind) ==
    /\ kind \in {"thread", "huge", "odd"} /\ Scanned(kind)
    /\ current' = <<Header(Len(text'), kind)>>
    /\ UNCHANGED <<threads, pc>>

(* A new thread finishes the one before.                                   *)
ThreadStart(kind) ==
    /\ kind \in {"thread", "huge", "odd"} /\ Scanned(kind)
    /\ threads' = threads \o current
    /\ current' = <<Header(Len(text'), kind)>>
    /\ UNCHANGED pc

PythonFrame ==
    /\ Scanned("frame")
    /\ current' = IF current = <<>> THEN <<>> ELSE <<WithFrame(current[1], Len(text'))>>
    /\ UNCHANGED <<threads, pc>>

CodeLine ==
    /\ Scanned("code")
    /\ current' = IF current = <<>> \/ current[1].frames = <<>> THEN current
                  ELSE <<WithCode(current[1], Len(text'))>>
    /\ UNCHANGED <<threads, pc>>

OtherLine == Scanned("other") /\ UNCHANGED <<current, threads, pc>>

(* The text is over, or its next line is too long, which the scanner       *)
(* reports to nobody: the last thread is finished either way.              *)
ScanEnd ==
    /\ pc = "scan"
    /\ threads' = threads \o current
    /\ pc' = "done"
    /\ UNCHANGED <<text, current>>

Next ==
    \/ \E kind \in Kinds : ThreadStart(kind)
    \/ PythonFrame \/ CodeLine \/ OtherLine \/ ScanEnd

Spec == Init /\ [][Next]_vars

-----------------------------------------------------------------------------
(* What a text says, without a pass over it.                               *)

Numbers(lines, kinds) == {k \in 1..Len(lines) : lines[k] \in kinds}

Heads(lines) == Numbers(lines, {"thread", "huge", "odd"})

(* The lines of a kind that follow line k up to the next line of "until".  *)
Below(lines, k, kind, until) ==
    {l \in Numbers(lines, {kind}) : k < l /\ \A m \in Numbers(lines, until) : m <= k \/ l < m}

FrameLines(lines, h) == Below(lines, h, "frame", {"thread", "huge", "odd"})

CodeLines(lines, f) == Below(lines, f, "code", {"thread", "huge", "odd", "frame"})

(* seq lists a set of line numbers, each once and in order.                *)
Lists(seq, numbers) ==
    /\ {seq[i] : i \in 1..Len(seq)} = numbers
    /\ \A i, j \in 1..Len(seq) : i < j => seq[i] < seq[j]

LineOf(seq) == [i \in 1..Len(seq) |-> seq[i].line]

(* A thread with the frames up to the next header, and each frame with the *)
(* source lines up to the next frame.                                      *)
AsPrinted(lines, thread) ==
    /\ thread.numbered <=> lines[thread.line] = "thread"
    /\ thread.named <=> lines[thread.line] # "odd"
    /\ Lists(LineOf(thread.frames), FrameLines(lines, thread.line))
    /\ \A j \in 1..Len(thread.frames) :
          Lists(thread.frames[j].code, CodeLines(lines, thread.frames[j].line))

AllAsPrinted(lines, found) ==
    /\ Lists(LineOf(found), Heads(lines))
    /\ \A i \in 1..Len(found) : AsPrinted(lines, found[i])

Found == IF pc = "done" THEN threads ELSE threads \o current

-----------------------------------------------------------------------------
(* Properties.                                                             *)

Frames == [line : Nat, code : Seq(Nat)]

Threads == [line : Nat, numbered : BOOLEAN, named : BOOLEAN, frames : Seq(Frames)]

(* Variables keep their shape; one thread is being read, or none.          *)
TypeOK ==
    /\ text \in Seq(Kinds) /\ Len(text) <= MaxLines
    /\ current \in Seq(Threads) /\ Len(current) <= 1
    /\ threads \in Seq(Threads)
    /\ pc \in {"scan", "done"}

(* At every point of the scan, the threads are those whose headers were    *)
(* scanned, in order, with all their frames and source lines, each under   *)
(* the one it was printed under.  Lines before the first header count for  *)
(* nothing.  Frames stay in the order pystack prints them, with the most   *)
(* recent call last.  A long line ends the scan, and the threads after it  *)
(* are missing without an error: of them this says nothing.                *)
ThreadsAsPrinted == AllAsPrinted(text, Found)
=============================================================================
