------------------------------ MODULE LogFile ------------------------------
(***************************************************************************)
(* The logger: Logger::Init and Logger::Log over one LogFile, the directory *)
(* it writes to, and the clock it names files by.                           *)
(*                                                                         *)
(* Log holds Logger::mutex_ from end to end, so calls of all threads come   *)
(* one after the other, and LogFile::mutex_ is never contended.  What       *)
(* interleaves with a call is the clock, which it reads up to four times,   *)
(* the file system, which may refuse a rename or an open, and a crash.      *)
(*                                                                         *)
(* A line is its number and has size 1.  A name is a day and a second of    *)
(* it, an archive, or a day and Plain, the file being written.              *)
(* Bounds: MaxDay, MaxSec, MaxLines.                                        *)
(***************************************************************************)
EXTENDS Integers, Sequences, SequencesExt

CONSTANTS MaxDay, MaxSec, MaxSize, MaxLines

ASSUME LogAssumption ==
    MaxDay \in Nat /\ MaxSec \in Nat /\ MaxSize \in Nat \ {0} /\ MaxLines \in Nat

Days  == 0 .. MaxDay
Plain == MaxSec + 1
Names == Days \X (0 .. Plain)
NoFile  == -1

VARIABLES
    day, sec,     \* the clock
    exists,       \* the names of the files in the directory
    contents,     \* their lines
    initialized,  \* initialized_, and log_file_ is not null
    file,         \* the day in the name of the open file, NoFile if file_ is null
    current_day,  \* current_day_
    lpc,          \* where the call is
    today,        \* the local today of CheckRotate
    old,          \* the day in the local old_path of RotateFileLocked
    lines,        \* the number of calls of Log so far
    written,      \* ghost: the lines that reached a file
    failedOn,     \* ghost: today of the last open, if it failed
    replaced,     \* ghost: the lines of archives a rename replaced
    midnight      \* ghost: an archive got its day before midnight, its time after

clock == <<day, sec>>
disk  == <<exists, contents>>
log   == <<initialized, file, current_day>>
logGhosts == <<failedOn, replaced, midnight>>
logVars  == <<clock, disk, log, lpc, today, old, lines, written, logGhosts>>

LogTypeOK ==
    /\ day \in Days /\ sec \in 0 .. MaxSec
    /\ exists \subseteq Names
    /\ contents \in [Names -> Seq(1 .. MaxLines)]
    /\ initialized \in BOOLEAN
    /\ file \in Days \cup {NoFile} /\ current_day \in Days \cup {NoFile}
    /\ lpc \in {"idle", "construct", "check", "close", "rename", "open", "write"}
    /\ today \in Days /\ old \in Days
    /\ lines \in 0 .. MaxLines /\ written \subseteq 1 .. MaxLines
    /\ failedOn \in Days \cup {NoFile} /\ replaced \subseteq 1 .. MaxLines
    /\ midnight \in BOOLEAN

LogInit ==
    /\ day = 0 /\ sec = 0
    /\ exists = {} /\ contents = [n \in Names |-> <<>>]
    /\ initialized = FALSE /\ file = NoFile /\ current_day = NoFile
    /\ lpc = "idle" /\ today = 0 /\ old = 0
    /\ lines = 0 /\ written = {}
    /\ failedOn = NoFile /\ replaced = {} /\ midnight = FALSE

-----------------------------------------------------------------------------
(* Mutant: the file is opened to be written from the start.                 *)
OpenTruncates ==
    /\ file' = day
    /\ exists' = exists \cup {<<day, Plain>>}
    /\ contents' = [contents EXCEPT ![<<day, Plain>>] = <<>>]

(* OpenFileLocked, in append mode, under the name of the day it is now.     *)
OpenFileLocked ==
    /\ file' = day
    /\ exists' = exists \cup {<<day, Plain>>}
    /\ UNCHANGED contents

(* Logger::Init in a process that has not logged yet.                       *)
StartInit ==
    /\ lpc = "idle" /\ ~initialized
    /\ current_day' = day
    /\ lpc' = "construct"
    /\ UNCHANGED <<clock, disk, initialized, file, today, old, lines, written, logGhosts>>

FinishInit ==
    /\ lpc = "construct"
    /\ OpenFileLocked
    /\ initialized' = TRUE
    /\ lpc' = "idle"
    /\ UNCHANGED <<clock, current_day, today, old, lines, written, logGhosts>>

(* The constructor throws, and so does Init.                                *)
InitFails ==
    /\ lpc = "construct"
    /\ current_day' = NoFile
    /\ lpc' = "idle"
    /\ UNCHANGED <<clock, disk, initialized, file, today, old, lines, written, logGhosts>>

-----------------------------------------------------------------------------
(* Log, which first looks whether the file has to be rotated.               *)
StartLog ==
    /\ lpc = "idle" /\ initialized /\ lines < MaxLines
    /\ lines' = lines + 1
    /\ lpc' = "check"
    /\ UNCHANGED <<clock, disk, log, today, old, written, logGhosts>>

(* Mutant: no rotation when no file is open.                               *)
NeedsRotationIfOpen ==
    /\ file # NoFile
    /\ \/ current_day # day
       \/ Len(contents[<<file, Plain>>]) >= MaxSize

NeedsRotation ==
    \/ current_day # NoFile /\ current_day # day
    \/ file # NoFile /\ Len(contents[<<file, Plain>>]) >= MaxSize

CheckRotate ==
    /\ lpc = "check"
    /\ today' = day
    /\ lpc' = IF ~NeedsRotation THEN "write" ELSE IF file = NoFile THEN "open" ELSE "close"
    /\ UNCHANGED <<clock, disk, log, old, lines, written, logGhosts>>

(* RotateFileLocked closes the file and forms its name from the clock:      *)
(* after a change of day that is not the name of the file just closed.      *)
Close ==
    /\ lpc = "close"
    /\ old' = day
    /\ file' = NoFile
    /\ lpc' = IF <<day, Plain>> \in exists THEN "rename" ELSE "open"
    /\ UNCHANGED <<clock, disk, initialized, current_day, today, lines, written, logGhosts>>

(* rename replaces a file that has the name already.                        *)
Moved(from, to) ==
    /\ exists' = (exists \ {from}) \cup {to}
    /\ contents' = [contents EXCEPT ![to] = contents[from], ![from] = <<>>]

(* Mutant: the time in the name is that of a clock with half as many hours. *)
HalfDayName == <<old, sec % 2>>

(* The day was taken before the file was closed, the time now.              *)
ArchiveName == <<old, sec>>

Rename ==
    /\ lpc = "rename"
    /\ Moved(<<old, Plain>>, ArchiveName)
    /\ replaced' = replaced \cup ToSet(contents[ArchiveName])
    /\ lpc' = "open"
    /\ midnight' = (midnight \/ day # old)
    /\ UNCHANGED <<clock, log, today, old, lines, written, failedOn>>

(* The result of rename is not looked at.                                   *)
RenameFails ==
    /\ lpc = "rename"
    /\ lpc' = "open"
    /\ UNCHANGED <<clock, disk, log, today, old, lines, written, logGhosts>>

Reopen ==
    /\ lpc = "open"
    /\ current_day' = today
    /\ OpenFileLocked
    /\ failedOn' = NoFile
    /\ lpc' = "write"
    /\ UNCHANGED <<clock, initialized, today, old, lines, written, replaced,
                   midnight>>

(* The open throws out of Log, and the line is not written.                 *)
ReopenFails ==
    /\ lpc = "open"
    /\ current_day' = today
    /\ failedOn' = today
    /\ lpc' = "idle"
    /\ UNCHANGED <<clock, disk, initialized, file, today, old, lines, written, replaced,
                   midnight>>

(* Without a file the line is dropped.                                      *)
Write ==
    /\ lpc = "write"
    /\ IF file = NoFile
       THEN UNCHANGED <<contents, written>>
       ELSE /\ contents' = [contents EXCEPT ![<<file, Plain>>] = Append(@, lines)]
            /\ written' = written \cup {lines}
    /\ lpc' = "idle"
    /\ UNCHANGED <<clock, exists, log, today, old, lines, logGhosts>>

-----------------------------------------------------------------------------
(* The process ends, killed or in the abort of a FATAL line.  What was      *)
(* written has been flushed.                                                *)
Crash ==
    /\ initialized
    /\ initialized' = FALSE /\ file' = NoFile /\ current_day' = NoFile
    /\ failedOn' = NoFile
    /\ lpc' = "idle"
    /\ UNCHANGED <<clock, disk, today, old, lines, written, replaced, midnight>>

Tick ==
    /\ IF sec < MaxSec THEN sec' = sec + 1 /\ UNCHANGED day
       ELSE day < MaxDay /\ sec' = 0 /\ day' = day + 1
    /\ UNCHANGED <<disk, log, lpc, today, old, lines, written, logGhosts>>

LogStep ==
    CheckRotate \/ Close \/ Rename \/ RenameFails \/ Reopen \/ ReopenFails \/ Write

LogNext ==
    StartInit \/ FinishInit \/ InitFails \/ StartLog \/ LogStep \/ Crash \/ Tick

LogSpec == LogInit /\ [][LogNext]_logVars

-----------------------------------------------------------------------------
LinesIn(n) == ToSet(contents[n])

Before(a, b) == a[1] < b[1] \/ (a[1] = b[1] /\ a[2] < b[2])

(* A line that was written stays in exactly one file, through rotations,    *)
(* failures half way through one, crashes and restarts.  The one exception: *)
(* its archive was replaced by another with the same name.                  *)
EveryLineKept ==
    /\ UNION {LinesIn(n) : n \in exists} = written \ replaced
    /\ \A n \in Names : IsInjective(contents[n])
    /\ \A a, b \in Names : a # b => LinesIn(a) \cap LinesIn(b) = {}

(* Read by name, archives before the file of their day, the files give the  *)
(* lines in the order they were written.  The one exception: a rotation     *)
(* over midnight, which gives its archive the first name of the day.        *)
LinesInOrder ==
    \/ midnight
    \/ /\ \A n \in Names : \A i, j \in 1 .. Len(contents[n]) :
             i < j => contents[n][i] < contents[n][j]
       /\ \A a, b \in Names : Before(a, b) =>
             \A i \in LinesIn(a), j \in LinesIn(b) : i < j

(* A line is dropped for want of a file only on the day an open failed: the *)
(* first line of another day opens one again.                               *)
DropsEndWithTheDay == lpc = "write" /\ file = NoFile => failedOn = today
=============================================================================
