------------------------------- MODULE Logger -------------------------------
(***************************************************************************)
(* Logger of golog/log.go with the OutputLogger of golog/output_logger.go, *)
(* which starts a new file when the day changes and when the file is full. *)
(*                                                                         *)
(* A line is the goroutine that logs it.  Output takes the time before it  *)
(* takes the lock, and Write is given that time, so lines come in any      *)
(* order.  A file is known by the second in which it was named; the files  *)
(* of a day have a directory of their own.                                 *)
(***************************************************************************)
EXTENDS Integers, Lists

CONSTANTS
  Loggers,      \* the goroutines that log, each a line
  Levels,       \* the levels they log at
  Settings,     \* level, panicLevel, enableStdOut and fileOutput of the logger
  Length,       \* the bytes of each line
  FileMax,
  MaxTime,      \* bound: the clock, in seconds
  DayLength     \* seconds of a day

ASSUME LoggerAssumption ==
  /\ \A s \in Settings : s.file \in BOOLEAN
  /\ Length \in [Loggers -> Nat] /\ FileMax \in Int /\ MaxTime \in Nat

VARIABLES
  set, faulty,    \* the settings; whether the file system may fail
  clock,
  mu,             \* the goroutine that holds mu, or "none"
  now, logPc, at, \* of each goroutine: its time, place and level
  out, bytes,     \* the file of the OutputLogger, a second or -1, and its count
  files, stdout   \* what has been written

loggerVars == <<set, faulty, clock, mu, now, logPc, at, out, bytes, files, stdout>>

Day(s) == s \div DayLength

LogInit ==
  /\ set \in Settings
  /\ faulty \in BOOLEAN
  /\ clock = 0
  /\ mu = "none"
  /\ now = [g \in Loggers |-> 0]
  /\ logPc = [g \in Loggers |-> "idle"]
  /\ at \in [Loggers -> Levels]
  /\ out = -1
  /\ bytes = 0
  /\ files = [s \in 0..MaxTime |-> <<>>]
  /\ stdout = <<>>

Tick ==
  /\ clock < MaxTime
  /\ clock' = clock + 1
  /\ UNCHANGED <<set, faulty, mu, now, logPc, at, out, bytes, files, stdout>>

GotoLog(g, l) == logPc' = [logPc EXCEPT ![g] = l]

-----------------------------------------------------------------------------
(* Where Log goes on after the standard output, and after the file.        *)
AfterFile(g) == IF at[g] >= set.panicLevel THEN "panic" ELSE "end"

AfterStdOut(g) == IF set.file THEN "file" ELSE AfterFile(g)

Ignored(g) ==
  \/ at[g] < set.level
  \/ ~set.file /\ ~set.std /\ at[g] < set.panicLevel

Log(g) ==
  /\ logPc[g] = "idle"
  /\ GotoLog(g, IF Ignored(g) THEN "ignored" ELSE IF set.std THEN "std" ELSE AfterStdOut(g))
  /\ UNCHANGED <<set, faulty, clock, mu, now, at, out, bytes, files, stdout>>

(* Output: the time, then the lock.  That it is released and taken again   *)
(* before anything is read makes no difference.                            *)
OutputNow(g) ==
  /\ logPc[g] \in {"std", "file"}
  /\ now' = [now EXCEPT ![g] = clock]
  /\ GotoLog(g, IF logPc[g] = "std" THEN "stdLock" ELSE "fileLock")
  /\ UNCHANGED <<set, faulty, clock, mu, at, out, bytes, files, stdout>>

OutputLock(g) ==
  /\ logPc[g] \in {"stdLock", "fileLock"}
  /\ mu = "none"
  /\ mu' = g
  /\ GotoLog(g, IF logPc[g] = "stdLock" THEN "stdWrite" ELSE "fileWrite")
  /\ UNCHANGED <<set, faulty, clock, now, at, out, bytes, files, stdout>>

(* The standard output needs no file.                                      *)
WriteStdOut(g) ==
  /\ logPc[g] = "stdWrite"
  /\ stdout' = Append(stdout, g)
  /\ mu' = "none"
  /\ GotoLog(g, AfterStdOut(g))
  /\ UNCHANGED <<set, faulty, clock, now, at, out, bytes, files>>

-----------------------------------------------------------------------------
(* Mutant: the day is not looked at.                                       *)
CheckFullOnly(t) == out # -1 /\ bytes < FileMax

checkOutputFile(t) == out # -1 /\ bytes < FileMax /\ Day(out) = Day(t)

(* What Write has for a file and its count once createOutputFile was       *)
(* called if it was to be; if it fails, they stay as they are.             *)
Opened(t) ==
  IF checkOutputFile(t) THEN {[file |-> out, count |-> bytes]}
  ELSE {[file |-> t, count |-> 0]} \cup (IF faulty THEN {[file |-> out, count |-> bytes]} ELSE {})

Write(g) ==
  /\ logPc[g] = "fileWrite"
  /\ \E o \in Opened(now[g]) :
       /\ out' = o.file
       /\ \/ /\ o.file # -1
             /\ files' = [files EXCEPT ![o.file] = Append(@, g)]
             /\ bytes' = o.count + Length[g]
          \/ /\ o.file = -1 \/ faulty
             /\ bytes' = o.count
             /\ UNCHANGED files
  /\ mu' = "none"
  /\ GotoLog(g, AfterFile(g))
  /\ UNCHANGED <<set, faulty, clock, now, at, stdout>>

LogNext == Tick \/ \E g \in Loggers : Log(g) \/ OutputNow(g) \/ OutputLock(g) \/ WriteStdOut(g) \/ Write(g)

LogSpec == LogInit /\ [][LogNext]_loggerVars

-----------------------------------------------------------------------------
(* The line of g is in the file of second s.                               *)
In(g, s) == Contains(files[s], g)

(* No line is in two places.                                               *)
NoneTwice ==
  \A s, r \in DOMAIN files : \A i \in DOMAIN files[s], j \in DOMAIN files[r] :
    files[s][i] = files[r][j] => s = r /\ i = j

Done(g) == logPc[g] \in {"end", "panic"}

(* On a file system that does not fail, a line that is not ignored is in   *)
(* one file and once, and in the directory of the day it was logged, also  *)
(* when goroutines on either side of midnight overtake each other; it is   *)
(* there before Log panics.  A line is added to a file that is not full,   *)
(* or is the first one since the file was opened.  If the file system      *)
(* fails a line is lost, but never doubled.                                *)
LinesFiled ==
  /\ NoneTwice
  /\ ~faulty =>
       /\ \A g \in Loggers : (\E s \in DOMAIN files : In(g, s)) <=> Done(g) /\ set.file
       /\ \A g \in Loggers, s \in DOMAIN files : In(g, s) => Day(s) = Day(now[g])
       /\ out # -1 => LET last == Length[Last(files[out])]
                      IN  bytes = last \/ bytes - last < FileMax
=============================================================================
