-------------------------------- MODULE Logger --------------------------------
(***************************************************************************)
(* Logger: any thread queues its lines, one thread writes them to the file *)
(* of their source, a new one each day, and shutdown ends that thread. A   *)
(* file that cannot be opened stays shut for the rest of the day. A line   *)
(* is a number; its level, its text and the size at which a file is        *)
(* renamed are left out.                                                   *)
(***************************************************************************)
EXTENDS Naturals, Sequences, SequencesExt, Functions, FiniteSets

CONSTANTS
  LogSources,  \* sources, each with a file of its own
  MaxLines,    \* bound: lines logged
  MaxDays      \* bound: days the run spans

ASSUME LoggerBounds == MaxLines \in Nat /\ MaxDays \in Nat

VARIABLES
  logging,   \* running_
  logQueue,  \* log_queue_: <<source, line>>
  lines,     \* lines logged so far
  writer,    \* "head", "wait", "drain", "write" or "ended"
  held,      \* the line being written
  day, diskWorks,
  logFile,   \* [source] [day |-> day it was opened for, 0 for none, open]
  written, refused, \* history: lines in a file, and lines that met a shut one
  late              \* history: lines that came between two rounds of the writer

fileVars == <<logFile, written, refused>>
logVars == <<logging, logQueue, lines, writer, held, day, diskWorks, fileVars, late>>

(* init                                                                    *)
LoggerInit ==
  /\ logging = TRUE /\ logQueue = <<>> /\ lines = 0
  /\ writer = "head" /\ held = <<>>
  /\ day = 1 /\ diskWorks \in BOOLEAN
  /\ logFile = [s \in LogSources |-> [day |-> 0, open |-> FALSE]]
  /\ written = {} /\ refused = {} /\ late = {}

NextDay ==
  /\ day < MaxDays /\ day' = day + 1 /\ diskWorks' \in BOOLEAN
  /\ UNCHANGED <<logging, logQueue, lines, writer, held, fileVars, late>>

(* log, from any thread; the queue is locked except while a line is        *)
(* written, which a line that is queued may have to wait for.              *)
Log(s) ==
  /\ lines < MaxLines /\ lines' = lines + 1
  /\ logQueue' = Append(logQueue, <<s, lines'>>)
  /\ late' = IF writer \in {"head", "ended"} THEN late \cup {<<s, lines'>>} ELSE late
  /\ UNCHANGED <<logging, writer, held, day, diskWorks, fileVars>>

(* shutdown: the flag; main waits for the thread.                          *)
Shutdown ==
  /\ logging /\ logging' = FALSE
  /\ UNCHANGED <<logQueue, lines, writer, held, day, diskWorks, fileVars, late>>

-----------------------------------------------------------------------------
(* The writing thread.                                                     *)

WriterGoes(from, to) == writer = from /\ writer' = to
Elsewhere == UNCHANGED <<logging, lines, day, diskWorks, late>>

LoopAgain ==
  /\ logging /\ WriterGoes("head", "wait")
  /\ UNCHANGED <<logQueue, held, fileVars>> /\ Elsewhere

WriterEnds ==
  /\ ~logging /\ WriterGoes("head", "ended")
  /\ UNCHANGED <<logQueue, held, fileVars>> /\ Elsewhere

(* A line, the end, or 100 ms.                                             *)
WaitEnds ==
  /\ WriterGoes("wait", "drain")
  /\ UNCHANGED <<logQueue, held, fileVars>> /\ Elsewhere

TakeLine ==
  /\ logQueue /= <<>> /\ WriterGoes("drain", "write")
  /\ held' = Head(logQueue) /\ logQueue' = Tail(logQueue)
  /\ UNCHANGED fileVars /\ Elsewhere

(* write_to_source_file: the first line of a source, and the first of each *)
(* day, opens its file.                                                    *)
WriteLine ==
  LET s == held[1]
      opened == IF logFile[s].day = day THEN logFile[s] ELSE [day |-> day, open |-> diskWorks]
  IN
  /\ WriterGoes("write", "drain")
  /\ logFile' = [logFile EXCEPT ![s] = opened]
  /\ IF opened.open THEN written' = written \cup {held} /\ UNCHANGED refused
                    ELSE refused' = refused \cup {held} /\ UNCHANGED written
  /\ held' = <<>> /\ UNCHANGED logQueue /\ Elsewhere

(* Mutant: the drain stops as soon as the logger is shut down.             *)
DrainEndsEarly ==
  /\ (logQueue = <<>> \/ ~logging) /\ WriterGoes("drain", "head")
  /\ UNCHANGED <<logQueue, held, fileVars>> /\ Elsewhere

DrainEnds ==
  /\ logQueue = <<>> /\ WriterGoes("drain", "head")
  /\ UNCHANGED <<logQueue, held, fileVars>> /\ Elsewhere

Writer == LoopAgain \/ WriterEnds \/ WaitEnds \/ TakeLine \/ WriteLine \/ DrainEnds
LoggerNext == NextDay \/ (\E s \in LogSources : Log(s)) \/ Shutdown \/ Writer

LoggerSpec == LoggerInit /\ [][LoggerNext]_logVars

-----------------------------------------------------------------------------
(* A line is queued, being written, in a file, or met a file that is shut. *)
(* One queued while the thread waits or writes is not left in the queue    *)
(* even if the logger is shut down right behind it: only a line that       *)
(* arrives between two rounds, just before the shutdown, is lost.          *)
LinesKept ==
  /\ lines = Len(logQueue) + Cardinality(written \cup refused)
               + (IF held = <<>> THEN 0 ELSE 1)
  /\ writer = "ended" => Range(logQueue) \subseteq late
=============================================================================
