--------------------------- MODULE UtilitiesProofs ---------------------------
(***************************************************************************)
(* Proofs about the parts that stand alone, for all bounds: the log file,   *)
(* the memory pool, the locked queue, the timers of an event loop and the   *)
(* timer list.  Each has an inductive invariant of its own.                 *)
(***************************************************************************)
EXTENDS TimerQueue, TimerList, LogFile, MemoryPool, LockedQueue, ArithmeticLemmas,
        SequenceTheorems, FiniteSetTheorems, TLAPS

-----------------------------------------------------------------------------
(* The log file.                                                           *)

(* Where the call is, and what it has found.                                *)
CallState ==
    /\ lpc \in {"check", "close", "rename", "open", "write"} =>
          initialized /\ lines >= 1 /\ lines \notin written
    /\ lpc = "construct" => ~initialized /\ current_day \in Days
    /\ initialized => current_day \in Days
    /\ lpc \in {"rename", "open"} => file = NoFile
    /\ lpc \in {"idle", "check"} /\ initialized /\ file = NoFile => failedOn = current_day
    /\ lpc = "write" /\ file = NoFile => failedOn = today /\ today = current_day

(* What is in the directory, and that the open file is the last by name but *)
(* for archives, which have the name of the second or an earlier one.       *)
Directory ==
    /\ written \subseteq 1 .. lines /\ replaced \subseteq written
    /\ \A n \in Names \ exists : contents[n] = <<>>
    /\ file # NoFile => <<file, Plain>> \in exists

Newest ==
    /\ old <= day
    /\ \A n \in exists : n[1] <= day /\ (file # NoFile => n[1] <= file)
    /\ midnight \/ \A n \in exists : n[1] = day /\ n[2] # Plain => n[2] <= sec

LogInv == LogTypeOK /\ CallState /\ Directory /\ Newest /\ EveryLineKept /\ LinesInOrder

Rising(s) == \A i, j \in 1 .. Len(s) : i < j => s[i] < s[j]

Ordered ==
    /\ \A n \in Names : Rising(contents[n])
    /\ \A a, b \in Names : Before(a, b) => \A i \in LinesIn(a), j \in LinesIn(b) : i < j

(* The property of the run.                                                 *)
LEMMA OrderedIs == LinesInOrder <=> midnight \/ Ordered
BY DEF LinesInOrder, Ordered, Rising

(* The constants and the names.                                             *)
LEMMA Clock ==
  /\ MaxDay \in Nat /\ MaxSec \in Nat /\ MaxLines \in Nat /\ Plain = MaxSec + 1
  /\ NoFile \notin Days
  /\ \A d \in Days : <<d, Plain>> \in Names
  /\ \A d \in Days, s \in 0 .. MaxSec : <<d, s>> \in Names /\ <<d, s>> # <<d, Plain>>
  /\ \A n \in Names : n[1] \in Days /\ n[2] \in 0 .. Plain /\ n = <<n[1], n[2]>>
<1>1. MaxDay \in Nat /\ MaxSec \in Nat /\ MaxLines \in Nat /\ Plain = MaxSec + 1
  BY LogAssumption DEF Plain
<1>2. Days = 0 .. MaxDay /\ NoFile = -1 /\ Names = Days \X (0 .. Plain)
  BY DEF Days, NoFile, Names
<1> QED BY <1>1, <1>2

(* A line at the end of a file.                                             *)
LEMMA LineAdded ==
  ASSUME NEW n \in Nat, NEW s \in Seq(1 .. n), NEW x \in 1 .. n
  PROVE  /\ Append(s, x) \in Seq(1 .. n)
         /\ ToSet(Append(s, x)) = ToSet(s) \cup {x}
         /\ IsInjective(s) /\ x \notin ToSet(s) => IsInjective(Append(s, x))
         /\ Rising(s) /\ (\A y \in ToSet(s) : y < x) => Rising(Append(s, x))
<1> DEFINE a == Append(s, x)
<1>1. /\ a \in Seq(1 .. n) /\ Len(a) = Len(s) + 1 /\ Len(s) \in Nat
      /\ \A i \in 1 .. Len(s) : a[i] = s[i]
      /\ a[Len(s) + 1] = x
  BY AppendProperties, LenProperties
<1>2. DOMAIN s = 1 .. Len(s) /\ DOMAIN a = 1 .. Len(s) + 1 /\ \A i \in 1 .. Len(s) : s[i] \in 1 .. n
  BY <1>1, LenProperties
<1> HIDE DEF a
<1>3. ToSet(a) = ToSet(s) \cup {x}
  <2>1. \A i \in DOMAIN a : i \in DOMAIN s \/ i = Len(s) + 1
    BY <1>1, <1>2
  <2>2. \A i \in DOMAIN s : i \in DOMAIN a /\ a[i] = s[i]
    BY <1>1, <1>2
  <2>3. Len(s) + 1 \in DOMAIN a
    BY <1>1, <1>2
  <2> QED BY <1>1, <2>1, <2>2, <2>3 DEF ToSet
<1>4. \A i \in 1 .. Len(s) : a[i] \in ToSet(s)
  BY <1>1, <1>2 DEF ToSet
<1>5. ASSUME IsInjective(s), x \notin ToSet(s), NEW i \in DOMAIN a, NEW j \in DOMAIN a, a[i] = a[j]
      PROVE  i = j
  <2>1. CASE i \in 1 .. Len(s) /\ j \in 1 .. Len(s)
    BY <1>1, <1>2, <1>5, <2>1 DEF IsInjective
  <2>2. CASE i = Len(s) + 1 /\ j \in 1 .. Len(s)
    BY <1>1, <1>4, <1>5, <2>2
  <2>3. CASE j = Len(s) + 1 /\ i \in 1 .. Len(s)
    BY <1>1, <1>4, <1>5, <2>3
  <2>4. /\ i \in 1 .. Len(s) \/ i = Len(s) + 1
        /\ j \in 1 .. Len(s) \/ j = Len(s) + 1
    BY <1>1, <1>2
  <2> QED BY <2>1, <2>2, <2>3, <2>4
<1>6. ASSUME Rising(s), \A y \in ToSet(s) : y < x,
             NEW i \in 1 .. Len(a), NEW j \in 1 .. Len(a), i < j
      PROVE  a[i] < a[j]
  <2>1. i \in 1 .. Len(s) /\ (j \in 1 .. Len(s) \/ j = Len(s) + 1)
    <3>1. PICK m \in Nat : m = Len(s)
      BY <1>1
    <3>2. i \in 1 .. m + 1 /\ j \in 1 .. m + 1 /\ i < j
      BY <1>1, <1>6, <3>1
    <3>3. i \in 1 .. m /\ (j \in 1 .. m \/ j = m + 1)
      BY <3>2
    <3> QED BY <3>1, <3>3
  <2>2. CASE j \in 1 .. Len(s)
    BY <1>1, <1>6, <2>1, <2>2 DEF Rising
  <2>3. CASE j = Len(s) + 1
    BY <1>1, <1>4, <1>6, <2>1, <2>3
  <2> QED BY <2>1, <2>2, <2>3
<1>7. IsInjective(s) /\ x \notin ToSet(s) => IsInjective(a)
  BY <1>5 DEF IsInjective
<1>8. Rising(s) /\ (\A y \in ToSet(s) : y < x) => Rising(a)
  BY <1>6 DEF Rising
<1> QED BY <1>1, <1>3, <1>7, <1>8 DEF a

(* A file without a line.                                                  *)
LEMMA NoLine ==
  /\ <<>> \in Seq(1 .. MaxLines) /\ ToSet(<<>>) = {} /\ IsInjective(<<>>) /\ Rising(<<>>)
<1>1. <<>> \in Seq(1 .. MaxLines) /\ Len(<<>>) = 0
  BY EmptySeq
<1> QED BY <1>1 DEF ToSet, IsInjective, Rising

(* A line of the directory was written and not replaced.                    *)
LEMMA LinesWritten ==
  ASSUME LogTypeOK, Directory, EveryLineKept, NEW n \in Names
  PROVE  /\ LinesIn(n) \subseteq written \ replaced
         /\ \A i \in LinesIn(n) : i \in Int /\ i <= lines
         /\ LinesIn(n) # {} => n \in exists
<1>1. n \notin exists => LinesIn(n) = {}
  BY NoLine DEF Directory, LinesIn
<1>2. LinesIn(n) \subseteq written \ replaced
  BY <1>1 DEF EveryLineKept
<1>3. lines \in Int /\ written \subseteq 1 .. lines
  BY DEF LogTypeOK, Directory
<1>4. \A i \in LinesIn(n) : i \in 1 .. lines
  BY <1>2, <1>3
<1>5. \A i \in 1 .. lines : i \in Int /\ i <= lines
  BY <1>3
<1> QED BY <1>1, <1>2, <1>4, <1>5

(* A step that leaves the files alone.                                      *)
LEMMA FilesSame ==
  ASSUME LogInv, UNCHANGED <<exists, contents, written, replaced, midnight>>
  PROVE  EveryLineKept' /\ LinesInOrder'
<1>1. EveryLineKept /\ LinesInOrder
  BY DEF LogInv
<1> QED BY <1>1 DEF EveryLineKept, LinesInOrder, LinesIn

(* Opening a file adds a name at most.                                      *)
LEMMA OpenKeeps ==
  ASSUME LogInv, OpenFileLocked, UNCHANGED <<clock, lines, old, written, replaced, midnight>>
  PROVE  /\ exists' \subseteq Names /\ file' \in Days
         /\ contents' = contents
         /\ Directory' /\ Newest' /\ EveryLineKept' /\ LinesInOrder'
<1>1. /\ file' = day /\ exists' = exists \cup {<<day, Plain>>} /\ contents' = contents
      /\ UNCHANGED <<day, sec>>
  BY DEF OpenFileLocked, clock
<1>2. /\ LogTypeOK /\ Directory /\ Newest /\ EveryLineKept /\ LinesInOrder
      /\ day \in Days /\ exists \subseteq Names
  BY DEF LogInv, LogTypeOK
<1>3. <<day, Plain>> \in Names /\ day # NoFile /\ day \in Int /\ Days \subseteq Int
  BY <1>2, Clock DEF Days
<1>4. Directory'
  BY <1>1, <1>2 DEF Directory
<1>5. Newest'
  BY <1>1, <1>2, <1>3 DEF Newest
<1>6. LinesIn(<<day, Plain>>) # {} => <<day, Plain>> \in exists
  BY <1>2, <1>3, LinesWritten
<1>7. UNION {LinesIn(n) : n \in exists'} = UNION {LinesIn(n) : n \in exists}
  BY <1>1, <1>6
<1>8. EveryLineKept'
  <2>1. UNION {ToSet(contents[n]) : n \in exists'} = written' \ replaced'
    BY <1>2, <1>7 DEF EveryLineKept, LinesIn
  <2>2. UNION {ToSet(contents'[n]) : n \in exists'} = written' \ replaced'
    BY <1>1, <2>1
  <2>3. /\ \A n \in Names : IsInjective(contents'[n])
        /\ \A a, b \in Names : a # b => ToSet(contents'[a]) \cap ToSet(contents'[b]) = {}
    BY <1>1, <1>2 DEF EveryLineKept, LinesIn
  <2> QED BY <2>2, <2>3 DEF EveryLineKept, LinesIn
<1>9. LinesInOrder'
  BY <1>1, <1>2 DEF LinesInOrder, LinesIn
<1> QED BY <1>1, <1>2, <1>3, <1>4, <1>5, <1>8, <1>9

(* The open file is the last that has a line, and its new line the greatest. *)
LEMMA WriteKeeps ==
  ASSUME LogInv, Write, file # NoFile
  PROVE  LogTypeOK' /\ Directory' /\ EveryLineKept' /\ LinesInOrder'
<1>1. /\ LogTypeOK /\ CallState /\ Directory /\ Newest /\ EveryLineKept /\ LinesInOrder
      /\ lpc = "write"
  BY DEF LogInv, Write
<1>2. PICK at \in Names : at = <<file, Plain>> /\ file \in Days
  <2>1. file \in Days
    BY <1>1 DEF LogTypeOK
  <2> QED BY <2>1, Clock
<1>3. /\ contents' = [contents EXCEPT ![at] = Append(contents[at], lines)]
      /\ written' = written \cup {lines} /\ lpc' = "idle"
      /\ UNCHANGED <<day, sec, exists, initialized, file, current_day, today, old, lines,
                     failedOn, replaced, midnight>>
  BY <1>2 DEF Write, clock, log, logGhosts
<1>4. /\ lines \in 1 .. MaxLines /\ lines \notin written
      /\ contents \in [Names -> Seq(1 .. MaxLines)] /\ written \subseteq 1 .. MaxLines
      /\ at \in exists
  BY <1>1, <1>2, Clock DEF LogTypeOK, CallState, Directory
<1>5. PICK s \in Seq(1 .. MaxLines) : s = contents[at]
  BY <1>4
<1>6. PICK t \in Seq(1 .. MaxLines) : t = Append(s, lines)
  BY <1>4, <1>5, LineAdded, Clock
<1>7. /\ ToSet(t) = ToSet(s) \cup {lines}
      /\ IsInjective(s) /\ lines \notin ToSet(s) => IsInjective(t)
      /\ Rising(s) /\ (\A y \in ToSet(s) : y < lines) => Rising(t)
  BY <1>4, <1>6, LineAdded, Clock
<1>8. /\ contents' \in [Names -> Seq(1 .. MaxLines)]
      /\ contents'[at] = t /\ \A n \in Names \ {at} : contents'[n] = contents[n]
  BY <1>3, <1>4, <1>5, <1>6
<1>9. \A n \in Names : ToSet(contents'[n]) = LinesIn(n) \cup (IF n = at THEN {lines} ELSE {})
  BY <1>5, <1>7, <1>8 DEF LinesIn
<1>10. \A n \in Names : /\ lines \notin LinesIn(n) /\ LinesIn(n) \subseteq written \ replaced
                        /\ \A i \in LinesIn(n) : i < lines
                        /\ LinesIn(n) # {} => n \in exists
  <2> SUFFICES ASSUME NEW n \in Names
               PROVE  /\ lines \notin LinesIn(n) /\ LinesIn(n) \subseteq written \ replaced
                      /\ \A i \in LinesIn(n) : i < lines
                      /\ LinesIn(n) # {} => n \in exists
    OBVIOUS
  <2>1. /\ LinesIn(n) \subseteq written \ replaced /\ (LinesIn(n) # {} => n \in exists)
        /\ \A i \in LinesIn(n) : i \in Int /\ i <= lines
    BY <1>1, LinesWritten
  <2>2. lines \notin LinesIn(n)
    BY <1>4, <2>1
  <2>3. \A i \in LinesIn(n) : i < lines
    <3>1. \A i \in LinesIn(n) : i \in Int /\ i <= lines /\ i # lines
      BY <2>1, <2>2
    <3> QED BY <1>4, <3>1
  <2> QED BY <2>1, <2>2, <2>3
<1>11. LogTypeOK'
  BY <1>1, <1>3, <1>4, <1>8 DEF LogTypeOK
<1>12. Directory'
  <2>1. written' \subseteq 1 .. lines /\ replaced \subseteq written'
    BY <1>1, <1>3, <1>4 DEF Directory
  <2>2. \A n \in Names \ exists : n # at /\ contents'[n] = <<>>
    BY <1>1, <1>4, <1>8 DEF Directory
  <2> QED BY <1>1, <1>3, <2>1, <2>2 DEF Directory
<1>13. EveryLineKept'
  <2>1. UNION {ToSet(contents'[n]) : n \in exists'} = (written \ replaced) \cup {lines}
    <3>1. exists' \subseteq Names /\ at \in exists' /\ exists' = exists
      BY <1>1, <1>3, <1>4 DEF LogTypeOK
    <3>2. \A i \in UNION {ToSet(contents'[n]) : n \in exists'} :
             i \in (written \ replaced) \cup {lines}
      BY <1>9, <1>10, <3>1
    <3>3. \A i \in written \ replaced : \E n \in exists : i \in LinesIn(n)
      BY <1>1 DEF EveryLineKept
    <3>4. \A i \in written \ replaced : i \in UNION {ToSet(contents'[n]) : n \in exists'}
      BY <1>9, <3>1, <3>3
    <3>5. lines \in UNION {ToSet(contents'[n]) : n \in exists'}
      BY <1>9, <3>1
    <3> QED BY <3>2, <3>4, <3>5
  <2>2. written' \ replaced' = (written \ replaced) \cup {lines}
    BY <1>1, <1>3, <1>4 DEF Directory
  <2>3. \A n \in Names : IsInjective(contents'[n])
    <3>1. IsInjective(t)
      BY <1>1, <1>5, <1>7, <1>10 DEF EveryLineKept, LinesIn
    <3> QED BY <1>1, <1>8, <3>1 DEF EveryLineKept
  <2>4. \A a, b \in Names : a # b => ToSet(contents'[a]) \cap ToSet(contents'[b]) = {}
    BY <1>1, <1>9, <1>10 DEF EveryLineKept
  <2> QED BY <1>1, <1>3, <2>1, <2>2, <2>3, <2>4 DEF EveryLineKept, LinesIn
<1>14. ASSUME Ordered PROVE Ordered'
  <2>1. \A n \in Names : Rising(contents'[n])
    <3>1. Rising(t)
      BY <1>5, <1>7, <1>10, <1>14 DEF Ordered, LinesIn
    <3> QED BY <1>8, <1>14, <3>1 DEF Ordered
  <2>2. ASSUME NEW a \in Names, NEW b \in Names, Before(a, b),
               NEW i \in ToSet(contents'[a]), NEW j \in ToSet(contents'[b])
        PROVE  i < j
    <3>1. CASE a # at /\ b # at
      BY <1>9, <1>14, <2>2, <3>1 DEF Ordered
    <3>2. CASE a # at /\ b = at
      <4>1. i \in LinesIn(a) /\ (j \in LinesIn(b) \/ j = lines)
        BY <1>9, <3>2
      <4> QED BY <1>10, <1>14, <2>2, <4>1 DEF Ordered
    <3>3. CASE a = at
      <4>1. b[1] \in Int /\ b[2] \in Int /\ b[2] <= Plain /\ file \in Int /\ Plain \in Int
        BY <1>2, Clock DEF Days
      <4>2. file < b[1] \/ (file = b[1] /\ Plain < b[2])
        BY <1>2, <2>2, <3>3 DEF Before
      <4>3. file < b[1] /\ b # at
        BY <1>2, <4>1, <4>2
      <4>4. b \in exists
        BY <1>9, <1>10, <4>3
      <4> QED BY <1>1, <4>1, <4>3, <4>4 DEF Newest
    <3> QED BY <3>1, <3>2, <3>3
  <2> QED BY <1>3, <2>1, <2>2 DEF Ordered, LinesIn
<1>15. LinesInOrder'
  <2>1. (LinesInOrder <=> midnight \/ Ordered)'
    BY OrderedIs, PTL
  <2> QED BY <1>1, <1>3, <1>14, <2>1, OrderedIs
<1> QED BY <1>11, <1>12, <1>13, <1>15

(* An archive of the day by the clock is the last but for the open file,    *)
(* and its lines were in that file.                                        *)
LEMMA RenameKeeps ==
  ASSUME LogInv, Rename
  PROVE  LogTypeOK' /\ Directory' /\ Newest' /\ EveryLineKept' /\ LinesInOrder'
<1>1. /\ LogTypeOK /\ CallState /\ Directory /\ Newest /\ EveryLineKept /\ LinesInOrder
      /\ lpc = "rename" /\ file = NoFile /\ old \in Days /\ sec \in 0 .. MaxSec /\ day \in Days
      /\ exists \subseteq Names /\ contents \in [Names -> Seq(1 .. MaxLines)]
      /\ Days \subseteq Int
  BY DEF LogInv, Rename, LogTypeOK, CallState, Days
<1>2. PICK from \in Names, to \in Names : /\ from = <<old, Plain>> /\ to = <<old, sec>>
                                          /\ from # to
  BY <1>1, Clock
<1>3. /\ exists' = (exists \ {from}) \cup {to}
      /\ contents' = [contents EXCEPT ![to] = contents[from], ![from] = <<>>]
      /\ replaced' = replaced \cup LinesIn(to)
      /\ lpc' = "open" /\ midnight' = (midnight \/ day # old)
      /\ UNCHANGED <<day, sec, initialized, file, current_day, today, old, lines, written,
                     failedOn>>
  BY <1>2 DEF Rename, Moved, ArchiveName, LinesIn, clock, log
<1>4. /\ contents' \in [Names -> Seq(1 .. MaxLines)]
      /\ contents'[to] = contents[from] /\ contents'[from] = <<>>
      /\ \A n \in Names \ {from, to} : contents'[n] = contents[n]
  BY <1>1, <1>2, <1>3, NoLine
<1>5. /\ ToSet(contents'[to]) = LinesIn(from) /\ ToSet(contents'[from]) = {}
      /\ \A n \in Names \ {from, to} : ToSet(contents'[n]) = LinesIn(n)
  BY <1>4, NoLine DEF LinesIn
<1>6. \A n \in Names : LinesIn(n) \subseteq written \ replaced /\ (LinesIn(n) # {} => n \in exists)
  BY <1>1, LinesWritten
<1>7. \A a, b \in Names : a # b => LinesIn(a) \cap LinesIn(b) = {}
  BY <1>1 DEF EveryLineKept
<1>8. LogTypeOK'
  <2>1. replaced' \subseteq 1 .. MaxLines
    <3>1. written \subseteq 1 .. MaxLines /\ replaced \subseteq 1 .. MaxLines
      BY <1>1 DEF LogTypeOK
    <3>2. LinesIn(to) \subseteq written
      BY <1>6
    <3> QED BY <1>3, <3>1, <3>2
  <2>2. exists' \subseteq Names
    BY <1>1, <1>3
  <2>3. midnight' \in BOOLEAN
    BY <1>3
  <2> QED BY <1>1, <1>3, <1>4, <2>1, <2>2, <2>3 DEF LogTypeOK
<1>9. Directory'
  <2>1. replaced' \subseteq written
    BY <1>1, <1>3, <1>6 DEF Directory
  <2>2. \A n \in Names \ exists' : contents'[n] = <<>>
    BY <1>1, <1>3, <1>4 DEF Directory
  <2> QED BY <1>1, <1>3, <2>1, <2>2 DEF Directory
<1>10. Newest'
  <2>1. to[1] = old /\ to[2] = sec /\ from[1] = old /\ from[2] = Plain
    BY <1>2
  <2>2. \A n \in exists' : n[1] <= day
    BY <1>1, <1>3, <2>1 DEF Newest
  <2>3. midnight' \/ \A n \in exists' : n[1] = day /\ n[2] # Plain => n[2] <= sec
    <3> SUFFICES ASSUME ~midnight', NEW n \in exists', n[1] = day, n[2] # Plain
                 PROVE  n[2] <= sec
      OBVIOUS
    <3>1. ~midnight
      BY <1>3
    <3>2. CASE n \in exists
      BY <1>1, <3>1, <3>2 DEF Newest
    <3>3. CASE n = to
      BY <1>1, <2>1, <3>3, Clock
    <3> QED BY <1>3, <3>2, <3>3
  <2> QED BY <1>1, <1>3, <2>2, <2>3 DEF Newest
<1>11. EveryLineKept'
  <2>1. UNION {ToSet(contents'[n]) : n \in exists'} = (written \ replaced) \ LinesIn(to)
    <3>1. \A i \in UNION {ToSet(contents'[n]) : n \in exists'} :
             i \in written \ replaced /\ i \notin LinesIn(to)
      <4> SUFFICES ASSUME NEW n \in exists', NEW i \in ToSet(contents'[n])
                   PROVE  i \in written \ replaced /\ i \notin LinesIn(to)
        OBVIOUS
      <4>1. n \in Names /\ n # from
        BY <1>1, <1>3, <1>5
      <4>2. CASE n = to
        BY <1>2, <1>5, <1>6, <1>7, <4>2
      <4>3. CASE n # to
        BY <1>5, <1>6, <1>7, <4>1, <4>3
      <4> QED BY <4>2, <4>3
    <3>2. ASSUME NEW i \in written \ replaced, i \notin LinesIn(to)
          PROVE  i \in UNION {ToSet(contents'[n]) : n \in exists'}
      <4>1. PICK n \in exists : i \in LinesIn(n)
        BY <1>1, <3>2 DEF EveryLineKept
      <4>2. CASE n = from
        BY <1>3, <1>5, <4>1, <4>2
      <4>3. CASE n # from
        BY <1>1, <1>3, <1>5, <3>2, <4>1, <4>3
      <4> QED BY <4>2, <4>3
    <3> QED BY <3>1, <3>2
  <2>2. written' \ replaced' = (written \ replaced) \ LinesIn(to)
    BY <1>3
  <2>3. \A n \in Names : IsInjective(contents'[n])
    BY <1>1, <1>4, NoLine DEF EveryLineKept
  <2>4. ASSUME NEW a \in Names, NEW b \in Names, a # b
        PROVE  ToSet(contents'[a]) \cap ToSet(contents'[b]) = {}
    <3>1. CASE a = from \/ b = from
      BY <1>5, <3>1
    <3>2. CASE a = to /\ b # from
      BY <1>2, <1>5, <1>7, <2>4, <3>2
    <3>3. CASE b = to /\ a # from
      BY <1>2, <1>5, <1>7, <2>4, <3>3
    <3>4. CASE a \notin {from, to} /\ b \notin {from, to}
      BY <1>5, <1>7, <2>4, <3>4
    <3> QED BY <3>1, <3>2, <3>3, <3>4
  <2> QED BY <2>1, <2>2, <2>3, <2>4 DEF EveryLineKept, LinesIn
<1>12. ASSUME Ordered, ~midnight' PROVE Ordered'
  <2>1. ~midnight /\ day = old
    BY <1>3, <1>12
  <2>2. \A n \in Names : Rising(contents'[n])
    BY <1>4, <1>12, NoLine DEF Ordered
  <2>3. ASSUME NEW a \in Names, NEW b \in Names, Before(a, b),
               NEW i \in ToSet(contents'[a]), NEW j \in ToSet(contents'[b])
        PROVE  i < j
    <3>1. a # from /\ b # from
      BY <1>5
    <3>2. /\ a[1] \in Int /\ a[2] \in Int /\ b[1] \in Int /\ b[2] \in Int
          /\ a = <<a[1], a[2]>> /\ b = <<b[1], b[2]>> /\ b[2] <= Plain /\ a[2] <= Plain
          /\ Plain \in Int /\ sec \in Int /\ sec < Plain
      <4>1. Days \subseteq Int /\ Plain \in Int /\ \A p \in 0 .. Plain : p \in Int /\ p <= Plain
        BY Clock DEF Days
      <4>2. sec \in Int /\ sec < Plain
        BY <1>1, Clock
      <4>3. \A n \in Names : n[1] \in Days /\ n[2] \in 0 .. Plain /\ n = <<n[1], n[2]>>
        BY Clock
      <4> QED BY <4>1, <4>2, <4>3
    <3>3. a[1] < b[1] \/ (a[1] = b[1] /\ a[2] < b[2])
      BY <2>3 DEF Before
    <3>4. CASE a # to /\ b # to
      BY <1>5, <1>12, <2>3, <3>1, <3>4 DEF Ordered
    <3>5. CASE b = to
      <4>1. a[1] < old \/ (a[1] = old /\ a[2] < sec)
        BY <1>2, <3>3, <3>5
      <4>2. Before(a, from) /\ a # to
        BY <1>2, <3>2, <4>1 DEF Before
      <4>3. i \in LinesIn(a) /\ j \in LinesIn(from)
        BY <1>5, <3>1, <3>5, <4>2
      <4> QED BY <1>12, <4>2, <4>3 DEF Ordered
    <3>6. CASE a = to
      <4>1. b # to /\ (old < b[1] \/ (old = b[1] /\ sec < b[2]))
        BY <1>2, <3>2, <3>3, <3>6
      <4>2. b \in exists
        BY <1>5, <1>6, <3>1, <4>1
      <4>3. b[1] <= old /\ (b[1] = old /\ b[2] # Plain => b[2] <= sec)
        BY <1>1, <2>1, <4>2 DEF Newest
      <4>4. b[1] = old /\ b[2] = Plain
        BY <1>1, <3>2, <4>1, <4>3
      <4> QED BY <1>2, <3>1, <3>2, <4>4
    <3> QED BY <3>4, <3>5, <3>6
  <2> QED BY <2>2, <2>3 DEF Ordered, LinesIn
<1>13. LinesInOrder'
  <2>1. (LinesInOrder <=> midnight \/ Ordered)'
    BY OrderedIs, PTL
  <2> QED BY <1>1, <1>3, <1>12, <2>1, OrderedIs
<1> QED BY <1>8, <1>9, <1>10, <1>11, <1>13

(* A step of the call that touches no file.                                 *)
LEMMA CallKeeps ==
  ASSUME LogInv, UNCHANGED <<clock, disk, written, replaced, midnight>>,
         LogTypeOK', CallState', lines' \in Nat, lines <= lines',
         file' = NoFile \/ file' = file, old' = old \/ old' = day
  PROVE  LogInv'
<1>1. Directory /\ Newest /\ lines \in Nat /\ day \in Int
  BY DEF LogInv, LogTypeOK, Days
<1>2. UNCHANGED <<day, sec, exists, contents>>
  BY DEF clock, disk
<1>3. 1 .. lines \subseteq 1 .. lines'
  BY <1>1
<1>4. Directory'
  BY <1>1, <1>2, <1>3 DEF Directory
<1>5. Newest'
  BY <1>1, <1>2 DEF Newest
<1>6. EveryLineKept' /\ LinesInOrder'
  BY <1>2, FilesSame
<1> QED BY <1>4, <1>5, <1>6 DEF LogInv

(* Init has begun.                                                          *)
LEMMA StartInitInv == ASSUME LogInv, StartInit PROVE LogInv'
<1>1. LogTypeOK /\ CallState
  BY DEF LogInv
<1>2. LogTypeOK'
  BY <1>1 DEF StartInit, LogTypeOK, clock, disk, logGhosts
<1>3. CallState'
  BY <1>1 DEF StartInit, CallState, LogTypeOK, logGhosts
<1> QED BY <1>1, <1>2, <1>3, CallKeeps DEF StartInit, logGhosts, LogTypeOK

(* It opens the file of the day.                                            *)
LEMMA FinishInitInv == ASSUME LogInv, FinishInit PROVE LogInv'
<1>1. /\ LogTypeOK /\ CallState /\ OpenFileLocked /\ initialized' = TRUE /\ lpc' = "idle"
      /\ UNCHANGED <<clock, current_day, today, old, lines, written, logGhosts>>
      /\ lpc = "construct"
  BY DEF LogInv, FinishInit
<1>2. /\ exists' \subseteq Names /\ file' \in Days /\ contents' = contents
      /\ Directory' /\ Newest' /\ EveryLineKept' /\ LinesInOrder'
  BY <1>1, OpenKeeps DEF logGhosts
<1>3. LogTypeOK'
  BY <1>1, <1>2 DEF LogTypeOK, clock, logGhosts
<1>4. CallState'
  BY <1>1, <1>2, Clock DEF CallState, logGhosts
<1> QED BY <1>2, <1>3, <1>4 DEF LogInv

(* Or fails to.                                                             *)
LEMMA InitFailsInv == ASSUME LogInv, InitFails PROVE LogInv'
<1>1. LogTypeOK /\ CallState
  BY DEF LogInv
<1>2. LogTypeOK'
  BY <1>1 DEF InitFails, LogTypeOK, clock, disk, logGhosts
<1>3. CallState'
  BY <1>1 DEF InitFails, CallState, logGhosts
<1> QED BY <1>1, <1>2, <1>3, CallKeeps DEF InitFails, logGhosts, LogTypeOK

(* The next line is a new one.                                              *)
LEMMA StartLogInv == ASSUME LogInv, StartLog PROVE LogInv'
<1>1. /\ LogTypeOK /\ CallState /\ Directory /\ lines' = lines + 1 /\ lines < MaxLines
      /\ lpc = "idle" /\ lpc' = "check" /\ initialized
      /\ UNCHANGED <<clock, disk, log, today, old, written, logGhosts>>
  BY DEF LogInv, StartLog
<1>2. lines \in 0 .. MaxLines /\ lines' \in 0 .. MaxLines /\ lines' >= 1 /\ lines <= lines'
  BY <1>1, Clock DEF LogTypeOK
<1>3. lines' \notin written
  BY <1>1, <1>2 DEF Directory
<1>4. LogTypeOK'
  BY <1>1, <1>2 DEF LogTypeOK, clock, disk, log, logGhosts
<1>5. CallState'
  BY <1>1, <1>2, <1>3 DEF CallState, log, logGhosts
<1> QED BY <1>1, <1>2, <1>4, <1>5, CallKeeps DEF log, logGhosts

(* Without a file there is no rotation on the day the open failed.          *)
LEMMA CheckRotateInv == ASSUME LogInv, CheckRotate PROVE LogInv'
<1>1. /\ LogTypeOK /\ CallState /\ lpc = "check" /\ today' = day
      /\ lpc' = IF ~NeedsRotation THEN "write" ELSE IF file = NoFile THEN "open" ELSE "close"
      /\ UNCHANGED <<clock, disk, log, old, lines, written, logGhosts>>
  BY DEF LogInv, CheckRotate
<1>2. LogTypeOK'
  BY <1>1 DEF LogTypeOK, clock, disk, log, logGhosts
<1>3. CallState'
  <2>1. ~NeedsRotation /\ file = NoFile => failedOn = day /\ current_day = day
    BY <1>1, Clock DEF NeedsRotation, CallState
  <2> QED BY <1>1, <2>1 DEF CallState, log, logGhosts
<1> QED BY <1>1, <1>2, <1>3, CallKeeps DEF LogTypeOK, log, logGhosts

(* No file is open for the rename.                                          *)
LEMMA CloseInv == ASSUME LogInv, Close PROVE LogInv'
<1>1. /\ LogTypeOK /\ CallState /\ lpc = "close" /\ old' = day /\ file' = NoFile
      /\ lpc' = IF <<day, Plain>> \in exists THEN "rename" ELSE "open"
      /\ UNCHANGED <<clock, disk, initialized, current_day, today, lines, written, logGhosts>>
  BY DEF LogInv, Close
<1>2. LogTypeOK'
  BY <1>1 DEF LogTypeOK, clock, disk, logGhosts
<1>3. CallState'
  BY <1>1 DEF CallState, logGhosts
<1> QED BY <1>1, <1>2, <1>3, CallKeeps DEF LogTypeOK, logGhosts

(* The rename.                                                              *)
LEMMA RenameInv == ASSUME LogInv, Rename PROVE LogInv'
<1>1. /\ LogTypeOK' /\ Directory' /\ Newest' /\ EveryLineKept' /\ LinesInOrder' /\ CallState
  BY RenameKeeps DEF LogInv
<1>2. CallState'
  BY <1>1 DEF CallState, Rename, log
<1> QED BY <1>1, <1>2 DEF LogInv

(* It may fail.                                                             *)
LEMMA RenameFailsInv == ASSUME LogInv, RenameFails PROVE LogInv'
<1>1. LogTypeOK /\ CallState
  BY DEF LogInv
<1>2. LogTypeOK'
  BY <1>1 DEF RenameFails, LogTypeOK, clock, disk, log, logGhosts
<1>3. CallState'
  BY <1>1 DEF RenameFails, CallState, log, logGhosts
<1> QED BY <1>1, <1>2, <1>3, CallKeeps DEF RenameFails, log, logGhosts, LogTypeOK

(* The new file.                                                            *)
LEMMA ReopenInv == ASSUME LogInv, Reopen PROVE LogInv'
<1>1. /\ LogTypeOK /\ CallState /\ OpenFileLocked /\ lpc = "open" /\ lpc' = "write"
      /\ current_day' = today /\ failedOn' = NoFile
      /\ UNCHANGED <<clock, initialized, today, old, lines, written, replaced, midnight>>
  BY DEF LogInv, Reopen
<1>2. /\ exists' \subseteq Names /\ file' \in Days /\ contents' = contents
      /\ Directory' /\ Newest' /\ EveryLineKept' /\ LinesInOrder'
  BY <1>1, OpenKeeps
<1>3. LogTypeOK'
  BY <1>1, <1>2 DEF LogTypeOK, clock
<1>4. CallState'
  BY <1>1, <1>2, Clock DEF CallState, LogTypeOK
<1> QED BY <1>2, <1>3, <1>4 DEF LogInv

(* No new file.                                                             *)
LEMMA ReopenFailsInv == ASSUME LogInv, ReopenFails PROVE LogInv'
<1>1. LogTypeOK /\ CallState
  BY DEF LogInv
<1>2. LogTypeOK'
  BY <1>1 DEF ReopenFails, LogTypeOK, clock, disk
<1>3. CallState'
  BY <1>1 DEF ReopenFails, CallState, LogTypeOK
<1> QED BY <1>1, <1>2, <1>3, CallKeeps DEF ReopenFails, LogTypeOK

(* The line is written, or dropped.                                         *)
LEMMA WriteInv == ASSUME LogInv, Write PROVE LogInv'
<1>1. /\ LogTypeOK /\ CallState /\ lpc = "write" /\ lpc' = "idle"
      /\ UNCHANGED <<clock, exists, log, today, old, lines, logGhosts>>
  BY DEF LogInv, Write
<1>2. CallState'
  BY <1>1 DEF CallState, log, logGhosts
<1>3. CASE file = NoFile
  <2>1. UNCHANGED <<contents, written>>
    BY <1>3 DEF Write
  <2>2. LogTypeOK'
    BY <1>1, <2>1 DEF LogTypeOK, clock, log, logGhosts
  <2> QED BY <1>1, <1>2, <2>1, <2>2, CallKeeps DEF disk, log, logGhosts, LogTypeOK
<1>4. CASE file # NoFile
  <2>1. LogTypeOK' /\ Directory' /\ EveryLineKept' /\ LinesInOrder'
    BY <1>4, WriteKeeps
  <2>2. Newest'
    BY <1>1 DEF LogInv, Newest, clock, log, logGhosts
  <2> QED BY <1>2, <2>1, <2>2 DEF LogInv
<1> QED BY <1>3, <1>4

(* What is in the directory outlives the process.                           *)
LEMMA CrashInv == ASSUME LogInv, Crash PROVE LogInv'
<1>1. LogTypeOK /\ CallState
  BY DEF LogInv
<1>2. LogTypeOK'
  BY <1>1 DEF Crash, LogTypeOK, clock, disk
<1>3. CallState'
  BY <1>1 DEF Crash, CallState
<1> QED BY <1>1, <1>2, <1>3, CallKeeps DEF Crash, LogTypeOK

(* The next second has no archive yet, and the next day no file.            *)
LEMMA TickInv == ASSUME LogInv, Tick PROVE LogInv'
<1>1. /\ LogTypeOK /\ CallState /\ Directory /\ Newest
      /\ UNCHANGED <<disk, log, lpc, today, old, lines, written, logGhosts>>
      /\ \/ sec < MaxSec /\ sec' = sec + 1 /\ day' = day
         \/ day < MaxDay /\ sec' = 0 /\ day' = day + 1
  BY DEF LogInv, Tick
<1>2. /\ day \in 0 .. MaxDay /\ sec \in 0 .. MaxSec /\ exists \subseteq Names
      /\ day' \in Days /\ sec' \in 0 .. MaxSec /\ day <= day' /\ old \in 0 .. MaxDay
      /\ day' = day => sec <= sec'
  BY <1>1, Clock DEF LogTypeOK, Days
<1>3. LogTypeOK'
  BY <1>1, <1>2 DEF LogTypeOK, disk, log, logGhosts
<1>4. CallState' /\ Directory'
  BY <1>1 DEF CallState, Directory, disk, log, logGhosts
<1>5. \A n \in exists : n[1] \in Int /\ n[2] \in Int /\ n[1] <= day
  BY <1>1, <1>2, Clock DEF Newest, Days
<1>6. Newest'
  <2>1. UNCHANGED <<exists, file, old, midnight>>
    BY <1>1 DEF disk, log, logGhosts
  <2>2. old <= day' /\ \A n \in exists : n[1] <= day'
    BY <1>1, <1>2, <1>5 DEF Newest
  <2>3. ASSUME ~midnight, NEW n \in exists, n[1] = day', n[2] # Plain
        PROVE  n[2] <= sec'
    <3>1. day' = day
      BY <1>2, <1>5, <2>3
    <3>2. n[2] <= sec /\ n[2] \in Int
      BY <1>1, <1>5, <2>3, <3>1 DEF Newest
    <3> QED BY <1>2, <3>1, <3>2
  <2> QED BY <1>1, <2>1, <2>2, <2>3 DEF Newest
<1>7. EveryLineKept' /\ LinesInOrder'
  BY <1>1, FilesSame DEF disk, logGhosts
<1> QED BY <1>3, <1>4, <1>6, <1>7 DEF LogInv

(* The directory is empty.                                                  *)
LEMMA LogInitInv == LogInit => LogInv
<1> SUFFICES ASSUME LogInit PROVE LogInv
  OBVIOUS
<1>1. /\ day = 0 /\ sec = 0 /\ old = 0 /\ today = 0 /\ lines = 0 /\ exists = {}
      /\ contents = [n \in Names |-> <<>>] /\ written = {} /\ replaced = {}
      /\ initialized = FALSE /\ file = NoFile /\ current_day = NoFile /\ lpc = "idle"
      /\ failedOn = NoFile /\ midnight = FALSE
  BY DEF LogInit
<1>2. 0 \in Days /\ 0 \in 0 .. MaxSec /\ 0 \in 0 .. MaxLines
  BY Clock DEF Days
<1>3. LogTypeOK
  BY <1>1, <1>2, NoLine DEF LogTypeOK
<1>4. CallState /\ Directory /\ Newest
  BY <1>1 DEF CallState, Directory, Newest
<1>5. EveryLineKept
  BY <1>1, NoLine DEF EveryLineKept, LinesIn
<1>6. Ordered
  BY <1>1, NoLine DEF Ordered, LinesIn
<1> QED BY <1>3, <1>4, <1>5, <1>6, OrderedIs DEF LogInv

(* Every step.                                                              *)
LEMMA LogNextInv == LogInv /\ [LogNext]_logVars => LogInv'
<1> SUFFICES ASSUME LogInv, [LogNext]_logVars PROVE LogInv'
  OBVIOUS
<1>1. CASE StartInit \/ FinishInit \/ InitFails \/ StartLog
  BY <1>1, StartInitInv, FinishInitInv, InitFailsInv, StartLogInv
<1>2. CASE LogStep
  BY <1>2, CheckRotateInv, CloseInv, RenameInv, RenameFailsInv, ReopenInv, ReopenFailsInv,
     WriteInv DEF LogStep
<1>3. CASE Crash \/ Tick
  BY <1>3, CrashInv, TickInv
<1>4. CASE UNCHANGED logVars
  <2>1. LogTypeOK' /\ CallState'
    BY <1>4 DEF LogInv, LogTypeOK, CallState, logVars, clock, disk, log, logGhosts
  <2> QED BY <1>4, <2>1, CallKeeps DEF logVars, log, logGhosts, LogInv, LogTypeOK
<1> QED BY <1>1, <1>2, <1>3, <1>4 DEF LogNext

(* The invariant of the log file.                                           *)
THEOREM LogInvariance == LogSpec => []LogInv
BY LogInitInv, LogNextInv, PTL DEF LogSpec

(* LogFile: no line that reached a file is lost, but with an archive that   *)
(* another of its name replaced, and none is in two places.                 *)
THEOREM NoLineIsLost == LogSpec => []EveryLineKept
<1>1. LogInv => EveryLineKept
  BY DEF LogInv
<1> QED BY <1>1, LogInvariance, PTL

(* LogFile: the lines can be read in order by the names of the files, unless *)
(* a rotation crossed midnight.                                             *)
THEOREM NamesGiveTheOrder == LogSpec => []LinesInOrder
<1>1. LogInv => LinesInOrder
  BY DEF LogInv
<1> QED BY <1>1, LogInvariance, PTL

(* LogFile: a failed open costs the lines of its day and no more.           *)
THEOREM FailureEndsWithTheDay == LogSpec => []DropsEndWithTheDay
<1>1. LogInv => DropsEndWithTheDay
  BY DEF LogInv, CallState, DropsEndWithTheDay
<1> QED BY <1>1, LogInvariance, PTL

-----------------------------------------------------------------------------
(* The memory pool.                                                        *)
FreeBlocks == (0 .. linear_used - 1) \ held

PoolInv == PoolTypeOK /\ held \subseteq 0 .. linear_used - 1 /\ BlocksConserved

(* l and h link the n blocks of s.                                          *)
Chains(l, h, n, s) ==
    /\ h = IF n = 0 THEN NoBlock ELSE s[1]
    /\ \A i \in 1 .. n : l[s[i]] = IF i = n THEN NoBlock ELSE s[i + 1]

Distinct(n, s) == \A i, j \in 1 .. n : i # j => s[i] # s[j]

(* The sizes.                                                               *)
LEMMA Arena ==
  ASSUME PoolTypeOK
  PROVE  /\ TotalBlocks \in Nat /\ TotalBlocks > 0 /\ CountWidth \in Nat /\ CountWidth > TotalBlocks
         /\ NoBlock \notin Nat /\ Blocks = 0 .. TotalBlocks - 1 /\ Blocks \subseteq Nat
         /\ linear_used \in 0 .. TotalBlocks
         /\ IsFiniteSet(FreeBlocks) /\ FreeBlocks \subseteq Blocks
         /\ Cardinality(FreeBlocks) \in Nat /\ IsFiniteSet(held) /\ Cardinality(held) \in Nat
<1>1. /\ TotalBlocks \in Nat /\ TotalBlocks > 0 /\ CountWidth \in Nat /\ CountWidth > TotalBlocks
      /\ NoBlock \notin Nat /\ Blocks = 0 .. TotalBlocks - 1
      /\ linear_used \in 0 .. TotalBlocks /\ held \subseteq Blocks
  BY PoolAssumption DEF PoolTypeOK, Blocks
<1>2. IsFiniteSet(Blocks)
  BY <1>1, FS_Interval
<1>3. FreeBlocks \subseteq Blocks /\ Blocks \subseteq Nat
  BY <1>1 DEF FreeBlocks
<1> QED BY <1>1, <1>2, <1>3, FS_Subset, FS_CardinalityType

(* The free list, by its length.                                            *)
LEMMA FreeListIs ==
  ASSUME NEW S, NEW n \in Nat, n = Cardinality(S), NEW s \in [1 .. n -> S]
  PROVE  /\ s \in SetToSeqs(S) <=> Distinct(n, s)
         /\ FreeList(s) <=> Chains(link, free_list_head, n, s)
<1>1. s \in SetToSeqs(S) <=> Distinct(n, s)
  BY DEF SetToSeqs, Distinct
<1>2. Len(s) = n /\ (s = <<>> <=> n = 0)
  <2>1. s \in Seq(S)
    BY SeqDef
  <2>2. DOMAIN s = 1 .. n /\ DOMAIN s = 1 .. Len(s) /\ Len(s) \in Nat
    BY <2>1, LenProperties
  <2>3. Len(s) = n
    BY <2>2
  <2> QED BY <2>1, <2>3, EmptySeq
<1> QED BY <1>1, <1>2 DEF FreeList, Chains

(* The part of BlocksConserved about the list.                              *)
Chained ==
    \E s \in [1 .. Cardinality(FreeBlocks) -> FreeBlocks] :
       /\ Distinct(Cardinality(FreeBlocks), s)
       /\ Chains(link, free_list_head, Cardinality(FreeBlocks), s)

(* The part about the count.                                                *)
Counted == used_count = (Cardinality(held) + CountWidth - reused) % CountWidth

(* How the difference of h and r, modulo w, follows each of them.           *)
LEMMA Counting ==
  ASSUME NEW w \in Nat, w > 0, NEW h \in 0 .. w - 1, NEW r \in 0 .. w - 1
  PROVE  /\ (h + w - r) % w \in 0 .. w - 1
         /\ h + 1 < w => /\ (((h + w - r) % w) + 1) % w = (h + 1 + w - r) % w
                         /\ (h + 1 + w - ((r + 1) % w)) % w = (h + w - r) % w
         /\ h > 0 => (((h + w - r) % w) + w - 1) % w = (h - 1 + w - r) % w
<1>1. PICK d \in 0 .. w - 1 : d = (h + w - r) % w /\ d = IF h >= r THEN h - r ELSE h + w - r
  BY Distance
<1>2. ASSUME h + 1 < w
      PROVE  (d + 1) % w = (h + 1 + w - r) % w /\ (h + 1 + w - ((r + 1) % w)) % w = d
  <2>1. h + 1 \in 0 .. w - 1 /\ 1 \in 0 .. w
    BY <1>2
  <2>2. (h + 1 + w - r) % w = IF h + 1 >= r THEN h + 1 - r ELSE h + 1 + w - r
    BY <2>1, Distance
  <2>3. (d + 1) % w = IF d + 1 < w THEN d + 1 ELSE d + 1 - w
    BY <2>1, Moves
  <2>4. PICK k \in 0 .. w - 1 : k = (r + 1) % w /\ k = IF r + 1 < w THEN r + 1 ELSE r + 1 - w
    BY <2>1, Moves
  <2>5. (h + 1 + w - k) % w = IF h + 1 >= k THEN h + 1 - k ELSE h + 1 + w - k
    BY <2>1, Distance
  <2>6. (d + 1) % w = (h + 1 + w - r) % w
    BY <1>1, <1>2, <2>2, <2>3
  <2>7. (h + 1 + w - k) % w = d
    BY <1>1, <1>2, <2>4, <2>5
  <2> QED BY <2>4, <2>6, <2>7
<1>3. ASSUME h > 0 PROVE (d + w - 1) % w = (h - 1 + w - r) % w
  <2>1. h - 1 \in 0 .. w - 1 /\ w - 1 \in 0 .. w
    BY <1>3
  <2>2. (h - 1 + w - r) % w = IF h - 1 >= r THEN h - 1 - r ELSE h - 1 + w - r
    BY <2>1, Distance
  <2>3. (d + (w - 1)) % w = IF d + (w - 1) < w THEN d + (w - 1) ELSE d + (w - 1) - w
    BY <2>1, Moves
  <2>4. d + (w - 1) = d + w - 1
    OBVIOUS
  <2> QED BY <1>1, <1>3, <2>2, <2>3, <2>4
<1> QED BY <1>1, <1>2, <1>3

(* The user holds fewer blocks than the count can tell apart.               *)
LEMMA HeldBound ==
  ASSUME PoolTypeOK PROVE Cardinality(held) \in 0 .. CountWidth - 1 /\ Cardinality(held) <= TotalBlocks
<1>1. IsFiniteSet(0 .. TotalBlocks - 1) /\ Cardinality(0 .. TotalBlocks - 1) = TotalBlocks
  <2>1. TotalBlocks - 1 \in Int /\ ~ (0 > TotalBlocks - 1) /\ (TotalBlocks - 1) - 0 + 1 = TotalBlocks
    BY Arena
  <2> QED BY <2>1, FS_Interval
<1>2. held \subseteq 0 .. TotalBlocks - 1
  BY Arena DEF PoolTypeOK
<1>3. Cardinality(held) <= TotalBlocks
  BY <1>1, <1>2, FS_Subset
<1> QED BY <1>3, Arena

(* The two agree.                                                           *)
LEMMA ConservedIs ==
  ASSUME PoolTypeOK
  PROVE  BlocksConserved <=> Chained /\ Counted
<1> DEFINE S == FreeBlocks
           n == Cardinality(S)
<1>1. n \in Nat
  BY Arena
<1>2. \A s \in SetToSeqs(S) : s \in [1 .. n -> S]
  BY DEF SetToSeqs
<1>3. (\E s \in SetToSeqs(S) : FreeList(s)) <=> Chained
  <2>1. ASSUME NEW s \in [1 .. n -> S]
        PROVE  /\ s \in SetToSeqs(S) <=> Distinct(n, s)
               /\ FreeList(s) <=> Chains(link, free_list_head, n, s)
    BY <1>1, FreeListIs
  <2> QED BY <1>2, <2>1 DEF Chained
<1> QED BY <1>3 DEF BlocksConserved, Counted, FreeBlocks

(* The first block of the list leaves it for the user.                      *)
LEMMA AllocFromListInv == ASSUME PoolInv, AllocFromList PROVE PoolInv'
<1>1. /\ PoolTypeOK /\ held \subseteq 0 .. linear_used - 1 /\ Chained /\ Counted
      /\ free_list_head # NoBlock /\ held' = held \cup {free_list_head}
      /\ free_list_head' = link[free_list_head] /\ reused' = (reused + 1) % CountWidth
      /\ UNCHANGED <<link, linear_used, used_count>>
  BY ConservedIs DEF PoolInv, AllocFromList
<1>2. PICK n \in Nat : n = Cardinality(FreeBlocks)
  BY <1>1, Arena
<1>3. PICK s \in [1 .. n -> FreeBlocks] : Distinct(n, s) /\ Chains(link, free_list_head, n, s)
  BY <1>1, <1>2 DEF Chained
<1>4. n > 0 /\ 1 \in 1 .. n /\ free_list_head = s[1] /\ s[1] \in FreeBlocks
  <2>1. n # 0
    BY <1>1, <1>2, <1>3 DEF Chains
  <2>2. free_list_head = s[1] /\ 1 \in 1 .. n
    BY <1>2, <1>3, <2>1 DEF Chains
  <2> QED BY <1>2, <1>3, <2>1, <2>2
<1>5. free_list_head \in Blocks /\ FreeBlocks' = FreeBlocks \ {free_list_head}
  BY <1>1, <1>4, Arena DEF FreeBlocks
<1>6. PoolTypeOK'
  <2>1. reused \in 0 .. CountWidth - 1 /\ CountWidth \in Nat /\ CountWidth > 0 /\ 1 \in 0 .. CountWidth
    BY <1>1, Arena DEF PoolTypeOK
  <2>2. reused' \in 0 .. CountWidth - 1
    BY <1>1, <2>1, Moves
  <2> QED BY <1>1, <1>5, <2>2 DEF PoolTypeOK
<1>7. held' \subseteq 0 .. linear_used' - 1
  BY <1>1, <1>4 DEF FreeBlocks
<1>8. Cardinality(FreeBlocks') = n - 1 /\ n - 1 \in Nat
  <2>1. IsFiniteSet(FreeBlocks)
    BY <1>1, Arena
  <2>2. Cardinality(FreeBlocks \ {s[1]}) = Cardinality(FreeBlocks) - 1
    BY <1>4, <2>1, FS_RemoveElement
  <2> QED BY <1>2, <1>4, <1>5, <2>2
<1>9. Chained'
  <2> DEFINE t == [i \in 1 .. n - 1 |-> s[i + 1]]
  <2>1. \A i \in 1 .. n - 1 : i + 1 \in 1 .. n /\ i + 1 # 1 /\ t[i] = s[i + 1]
    BY <1>2
  <2>2. t \in [1 .. n - 1 -> FreeBlocks']
    <3>1. \A i \in 1 .. n - 1 : s[i + 1] \in FreeBlocks /\ s[i + 1] # s[1]
      BY <1>3, <1>4, <2>1 DEF Distinct
    <3> QED BY <1>4, <1>5, <3>1
  <2>3. Distinct(n - 1, t)
    <3> SUFFICES ASSUME NEW i \in 1 .. n - 1, NEW j \in 1 .. n - 1, i # j PROVE t[i] # t[j]
      BY DEF Distinct
    <3>1. i + 1 # j + 1 /\ i + 1 \in 1 .. n /\ j + 1 \in 1 .. n
      BY <1>2
    <3> QED BY <1>3, <2>1, <3>1 DEF Distinct
  <2>4. Chains(link, link[s[1]], n - 1, t)
    <3>1. link[s[1]] = IF n = 1 THEN NoBlock ELSE s[2]
      BY <1>3, <1>4 DEF Chains
    <3>2. link[s[1]] = IF n - 1 = 0 THEN NoBlock ELSE t[1]
      <4>1. n # 1 => 1 \in 1 .. n - 1
        BY <1>2, <1>4
      <4> QED BY <1>2, <2>1, <3>1, <4>1
    <3>3. ASSUME NEW i \in 1 .. n - 1
          PROVE  link[t[i]] = IF i = n - 1 THEN NoBlock ELSE t[i + 1]
      <4>1. link[t[i]] = IF i + 1 = n THEN NoBlock ELSE s[(i + 1) + 1]
        BY <1>3, <2>1 DEF Chains
      <4>2. i + 1 = n <=> i = n - 1
        BY <1>2
      <4>3. i # n - 1 => i + 1 \in 1 .. n - 1
        BY <1>2
      <4> HIDE DEF t
      <4> QED BY <2>1, <4>1, <4>2, <4>3
    <3> QED BY <3>2, <3>3 DEF Chains
  <2> HIDE DEF t
  <2> QED BY <1>1, <1>4, <1>8, <2>2, <2>3, <2>4 DEF Chained
<1>10. Counted'
  <2>1. PICK h \in 0 .. CountWidth - 1 : h = Cardinality(held) /\ Cardinality(held') = h + 1
    <3>1. IsFiniteSet(held) /\ Cardinality(held) \in 0 .. CountWidth - 1 /\ free_list_head \notin held
      BY <1>1, <1>4, Arena, HeldBound DEF FreeBlocks
    <3> QED BY <1>1, <3>1, FS_AddElement
  <2>2. h + 1 < CountWidth
    <3>1. (PoolTypeOK => Cardinality(held) \in 0 .. CountWidth - 1)'
      BY HeldBound, PTL
    <3>2. h + 1 \in 0 .. CountWidth - 1 /\ CountWidth \in Nat
      BY <1>1, <1>6, <2>1, <3>1, Arena
    <3> QED BY <3>2
  <2>3. (h + 1 + CountWidth - ((reused + 1) % CountWidth)) % CountWidth
          = (h + CountWidth - reused) % CountWidth
    <3>1. CountWidth \in Nat /\ CountWidth > 0 /\ reused \in 0 .. CountWidth - 1
      BY <1>1, Arena DEF PoolTypeOK
    <3> QED BY <2>1, <2>2, <3>1, Counting
  <2> QED BY <1>1, <2>1, <2>3 DEF Counted
<1>11. BlocksConserved'
  <2>1. (PoolTypeOK => (BlocksConserved <=> Chained /\ Counted))'
    BY ConservedIs, PTL
  <2> QED BY <1>6, <1>9, <1>10, <2>1
<1> QED BY <1>6, <1>7, <1>11 DEF PoolInv

(* A block leaves the arena when the list is empty.                         *)
LEMMA AllocFromArenaInv == ASSUME PoolInv, AllocFromArena PROVE PoolInv'
<1>1. /\ PoolTypeOK /\ held \subseteq 0 .. linear_used - 1
      /\ Chained /\ Counted
      /\ free_list_head = NoBlock /\ linear_used < TotalBlocks
      /\ held' = held \cup {linear_used} /\ linear_used' = linear_used + 1
      /\ used_count' = (used_count + 1) % CountWidth
      /\ UNCHANGED <<link, free_list_head, reused>>
  BY ConservedIs DEF PoolInv, AllocFromArena
<1>2. PICK n \in Nat : n = Cardinality(FreeBlocks)
  BY <1>1, Arena
<1>3. PICK s \in [1 .. n -> FreeBlocks] : Distinct(n, s) /\ Chains(link, free_list_head, n, s)
  BY <1>1, <1>2 DEF Chained
<1>4. n = 0
  <2>1. ASSUME n # 0 PROVE FALSE
    <3>1. free_list_head = s[1] /\ s[1] \in FreeBlocks
      BY <1>2, <1>3, <2>1 DEF Chains
    <3> QED BY <1>1, <3>1, Arena
  <2> QED BY <2>1
<1>5. FreeBlocks = {} /\ FreeBlocks' = {}
  <2>1. FreeBlocks = {}
    BY <1>1, <1>2, <1>4, Arena, FS_EmptySet
  <2>2. 0 .. linear_used = (0 .. linear_used - 1) \cup {linear_used}
    BY <1>1, Arena
  <2>3. FreeBlocks' = (0 .. linear_used) \ held'
    BY <1>1, Arena DEF FreeBlocks
  <2> QED BY <1>1, <2>1, <2>2, <2>3 DEF FreeBlocks
<1>6. linear_used \in Blocks /\ linear_used \notin held /\ linear_used \in 0 .. TotalBlocks
  BY <1>1, Arena
<1>7. used_count' \in 0 .. CountWidth - 1
  BY <1>1, Arena DEF PoolTypeOK
<1>8. PoolTypeOK' /\ held' \subseteq 0 .. linear_used' - 1
  <2>1. linear_used' \in 0 .. TotalBlocks
    BY <1>1, <1>6, Arena
  <2>2. PoolTypeOK'
    BY <1>1, <1>6, <1>7, <2>1 DEF PoolTypeOK
  <2>3. held' \subseteq 0 .. linear_used' - 1
    BY <1>1, <1>6, Arena
  <2> QED BY <2>2, <2>3
<1>9. Chained'
  <2>1. Cardinality(FreeBlocks') = 0 /\ FreeBlocks' = FreeBlocks
    BY <1>5, FS_EmptySet
  <2> QED BY <1>1, <1>2, <1>3, <1>4, <2>1 DEF Chained
<1>10. Counted'
  <2>1. PICK h \in 0 .. CountWidth - 1 : h = Cardinality(held) /\ Cardinality(held') = h + 1
    <3>1. IsFiniteSet(held) /\ Cardinality(held) \in 0 .. CountWidth - 1
      BY <1>1, Arena, HeldBound
    <3> QED BY <1>1, <1>6, <3>1, FS_AddElement
  <2>2. h + 1 < CountWidth
    <3>1. (PoolTypeOK => Cardinality(held) \in 0 .. CountWidth - 1)'
      BY HeldBound, PTL
    <3>2. h + 1 \in 0 .. CountWidth - 1 /\ CountWidth \in Nat
      BY <1>1, <1>8, <2>1, <3>1, Arena
    <3> QED BY <3>2
  <2>3. (((h + CountWidth - reused) % CountWidth) + 1) % CountWidth
          = (h + 1 + CountWidth - reused) % CountWidth
    <3>1. CountWidth \in Nat /\ CountWidth > 0 /\ reused \in 0 .. CountWidth - 1
      BY <1>1, Arena DEF PoolTypeOK
    <3> QED BY <2>1, <2>2, <3>1, Counting
  <2> QED BY <1>1, <2>1, <2>3 DEF Counted
<1>11. BlocksConserved'
  <2>1. (PoolTypeOK => (BlocksConserved <=> Chained /\ Counted))'
    BY ConservedIs, PTL
  <2> QED BY <1>8, <1>9, <1>10, <2>1
<1> QED BY <1>8, <1>11 DEF PoolInv

(* The user writes only where no link is.                                   *)
LEMMA ScribbleInv == ASSUME PoolInv, Scribble PROVE PoolInv'
<1>1. /\ PoolTypeOK /\ held \subseteq 0 .. linear_used - 1
      /\ Chained /\ Counted
      /\ UNCHANGED <<free_list_head, linear_used, used_count, held, reused>>
  BY ConservedIs DEF PoolInv, Scribble
<1>2. PICK b \in held, a \in Address : link' = [link EXCEPT ![b] = a]
  BY DEF Scribble
<1>3. PoolTypeOK'
  BY <1>1, <1>2 DEF PoolTypeOK
<1>4. FreeBlocks' = FreeBlocks /\ \A c \in FreeBlocks : link'[c] = link[c]
  BY <1>1, <1>2, Arena DEF FreeBlocks, PoolTypeOK
<1>5. PICK n \in Nat : n = Cardinality(FreeBlocks)
  BY <1>1, Arena
<1>6. PICK s \in [1 .. n -> FreeBlocks] : Distinct(n, s) /\ Chains(link, free_list_head, n, s)
  BY <1>1, <1>5 DEF Chained
<1>7. Chains(link', free_list_head, n, s)
  <2>1. \A i \in 1 .. n : link'[s[i]] = link[s[i]]
    BY <1>4, <1>6
  <2> QED BY <1>6, <2>1 DEF Chains
<1>8. Chained'
  BY <1>1, <1>4, <1>5, <1>6, <1>7 DEF Chained
<1>9. BlocksConserved'
  <2>1. (PoolTypeOK => (BlocksConserved <=> Chained /\ Counted))'
    BY ConservedIs, PTL
  <2> QED BY <1>1, <1>3, <1>8, <2>1 DEF Counted
<1> QED BY <1>1, <1>3, <1>9 DEF PoolInv

(* The freed block is linked to the head and becomes the head.              *)
LEMMA FreeInv == ASSUME PoolInv, pool_free PROVE PoolInv'
<1>1. /\ PoolTypeOK /\ held \subseteq 0 .. linear_used - 1
      /\ Chained /\ Counted
  BY ConservedIs DEF PoolInv
<1>2. PICK b \in held :
         /\ link' = [link EXCEPT ![b] = free_list_head] /\ free_list_head' = b
         /\ used_count' = CountDown /\ held' = held \ {b}
         /\ UNCHANGED <<linear_used, reused>>
  BY DEF pool_free, LinkedToHead
<1>3. b \in Blocks /\ free_list_head \in Address /\ b \notin FreeBlocks /\ b \in 0 .. linear_used - 1
  BY <1>1, Arena DEF PoolTypeOK, FreeBlocks
<1>4. used_count' \in 0 .. CountWidth - 1
  <2>1. used_count + CountWidth - 1 \in Nat /\ CountWidth \in Nat /\ CountWidth > 0
    BY <1>1, Arena DEF PoolTypeOK
  <2> QED BY <1>2, <2>1 DEF CountDown
<1>5. PoolTypeOK' /\ held' \subseteq 0 .. linear_used' - 1
  BY <1>1, <1>2, <1>3, <1>4 DEF PoolTypeOK, Address
<1>6. FreeBlocks' = FreeBlocks \cup {b}
  BY <1>2, <1>3 DEF FreeBlocks
<1>7. PICK n \in Nat : n = Cardinality(FreeBlocks)
  BY <1>1, Arena
<1>8. PICK s \in [1 .. n -> FreeBlocks] : Distinct(n, s) /\ Chains(link, free_list_head, n, s)
  BY <1>1, <1>7 DEF Chained
<1>9. Cardinality(FreeBlocks') = n + 1
  <2>1. IsFiniteSet(FreeBlocks)
    BY <1>1, Arena
  <2> QED BY <1>3, <1>6, <1>7, <2>1, FS_AddElement
<1>10. Chained'
  <2> DEFINE t == [i \in 1 .. n + 1 |-> IF i = 1 THEN b ELSE s[i - 1]]
  <2>1. /\ t[1] = b
        /\ \A i \in 1 .. n + 1 : i # 1 => i - 1 \in 1 .. n /\ t[i] = s[i - 1] /\ t[i] \in FreeBlocks
    BY <1>7, <1>8
  <2>2. t \in [1 .. n + 1 -> FreeBlocks']
    BY <1>6, <1>7, <1>8
  <2> HIDE DEF t
  <2>3. Distinct(n + 1, t)
    <3> SUFFICES ASSUME NEW i \in 1 .. n + 1, NEW j \in 1 .. n + 1, i # j PROVE t[i] # t[j]
      BY DEF Distinct
    <3>1. CASE i = 1 \/ j = 1
      BY <1>3, <2>1, <3>1
    <3>2. CASE i # 1 /\ j # 1
      <4>1. i - 1 # j - 1 /\ i - 1 \in 1 .. n /\ j - 1 \in 1 .. n
        BY <1>7, <3>2
      <4> QED BY <1>8, <2>1, <3>2, <4>1 DEF Distinct
    <3> QED BY <3>1, <3>2
  <2>4. Chains(link', b, n + 1, t)
    <3>1. n + 1 # 0 /\ b = t[1]
      BY <2>1
    <3>2. ASSUME NEW i \in 1 .. n + 1
          PROVE  link'[t[i]] = IF i = n + 1 THEN NoBlock ELSE t[i + 1]
      <4>1. CASE i = 1
        <5>1. link'[b] = free_list_head
          BY <1>1, <1>2, <1>3 DEF PoolTypeOK
        <5>2. free_list_head = IF n = 0 THEN NoBlock ELSE s[1]
          BY <1>8 DEF Chains
        <5>3. n # 0 => t[2] = s[1]
          <6>1. n # 0 => 2 \in 1 .. n + 1 /\ 2 - 1 = 1
            OBVIOUS
          <6> QED BY <2>1, <6>1
        <5> QED BY <2>1, <4>1, <5>1, <5>2, <5>3
      <4>2. CASE i # 1
        <5>1. i - 1 \in 1 .. n /\ t[i] = s[i - 1] /\ t[i] \in FreeBlocks
          BY <2>1, <4>2
        <5>2. link'[t[i]] = link[t[i]]
          BY <1>1, <1>2, <1>3, <5>1, Arena DEF PoolTypeOK
        <5>3. link[s[i - 1]] = IF i - 1 = n THEN NoBlock ELSE s[(i - 1) + 1]
          BY <1>8, <5>1 DEF Chains
        <5>4. i - 1 = n <=> i = n + 1
          OBVIOUS
        <5>5. i # n + 1 => t[i + 1] = s[(i - 1) + 1]
          <6>1. i # n + 1 => i + 1 \in 1 .. n + 1 /\ i + 1 # 1 /\ (i + 1) - 1 = (i - 1) + 1
            BY <4>2
          <6> QED BY <2>1, <6>1
        <5> QED BY <5>1, <5>2, <5>3, <5>4, <5>5
      <4> QED BY <4>1, <4>2
    <3> QED BY <3>1, <3>2 DEF Chains
  <2> QED BY <1>2, <1>9, <2>2, <2>3, <2>4 DEF Chained
<1>11. Counted'
  <2>1. PICK h \in 0 .. CountWidth - 1 : h = Cardinality(held) /\ Cardinality(held') = h - 1 /\ h > 0
    <3>1. IsFiniteSet(held) /\ Cardinality(held) \in 0 .. CountWidth - 1
      BY <1>1, Arena, HeldBound
    <3>2. Cardinality(held') = Cardinality(held) - 1 /\ held # {}
      BY <1>2, <3>1, FS_RemoveElement
    <3>3. Cardinality(held) # 0
      BY <3>1, <3>2, FS_EmptySet
    <3> QED BY <3>1, <3>2, <3>3
  <2>2. (((h + CountWidth - reused) % CountWidth) + CountWidth - 1) % CountWidth
          = (h - 1 + CountWidth - reused) % CountWidth
    <3>1. CountWidth \in Nat /\ CountWidth > 0 /\ reused \in 0 .. CountWidth - 1
      BY <1>1, Arena DEF PoolTypeOK
    <3> QED BY <2>1, <3>1, Counting
  <2> QED BY <1>1, <1>2, <2>1, <2>2 DEF Counted, CountDown
<1>12. BlocksConserved'
  <2>1. (PoolTypeOK => (BlocksConserved <=> Chained /\ Counted))'
    BY ConservedIs, PTL
  <2> QED BY <1>5, <1>10, <1>11, <2>1
<1> QED BY <1>5, <1>12 DEF PoolInv

(* All blocks are in the arena.                                             *)
LEMMA PoolInitInv == PoolInit => PoolInv
<1> SUFFICES ASSUME PoolInit PROVE PoolInv
  OBVIOUS
<1>1. /\ link \in [Blocks -> Address] /\ free_list_head = NoBlock /\ linear_used = 0
      /\ used_count = 0 /\ held = {} /\ reused = 0
  BY DEF PoolInit
<1>2. PoolTypeOK
  <2>1. 0 \in 0 .. TotalBlocks /\ 0 \in 0 .. CountWidth - 1
    BY PoolAssumption
  <2> QED BY <1>1, <2>1 DEF PoolTypeOK, Address
<1>3. FreeBlocks = {}
  BY <1>1 DEF FreeBlocks
<1>4. Cardinality({}) = 0
  BY FS_EmptySet
<1>5. \E s \in [1 .. 0 -> {}] : Distinct(0, s) /\ Chains(link, NoBlock, 0, s)
  <2> DEFINE s == [i \in 1 .. 0 |-> 0]
  <2>1. s \in [1 .. 0 -> {}]
    OBVIOUS
  <2>2. Distinct(0, s) /\ Chains(link, NoBlock, 0, s)
    BY DEF Distinct, Chains
  <2> QED BY <2>1, <2>2
<1>6. Chained
  BY <1>1, <1>3, <1>4, <1>5 DEF Chained
<1>7. Counted
  <2>1. 0 \in 0 .. CountWidth - 1 /\ CountWidth \in Nat /\ CountWidth > 0
    BY PoolAssumption
  <2>2. (0 + CountWidth - 0) % CountWidth = 0
    BY <2>1, Distance
  <2> QED BY <1>1, <1>4, <2>2 DEF Counted
<1> QED BY <1>1, <1>2, <1>6, <1>7, ConservedIs DEF PoolInv

(* Every step.                                                              *)
LEMMA PoolNextInv == PoolInv /\ [PoolNext]_poolVars => PoolInv'
<1> SUFFICES ASSUME PoolInv, [PoolNext]_poolVars PROVE PoolInv'
  OBVIOUS
<1>1. CASE PoolNext
  BY <1>1, AllocFromListInv, AllocFromArenaInv, ScribbleInv, FreeInv DEF PoolNext
<1>2. CASE UNCHANGED poolVars
  BY <1>2 DEF poolVars, PoolInv, PoolTypeOK, BlocksConserved, FreeList
<1> QED BY <1>1, <1>2

(* MemoryPool: no block is lost, handed out twice, or both held and free,   *)
(* in a pool of any size, whatever the user writes; and used_count is what  *)
(* the user holds less the reuses, however wide size_t is.                  *)
THEOREM PoolConservesBlocks == PoolSpec => []BlocksConserved
<1>1. PoolInv => BlocksConserved
  BY DEF PoolInv
<1> QED BY <1>1, PoolInitInv, PoolNextInv, PTL DEF PoolSpec

-----------------------------------------------------------------------------
(* The locked queue.                                                       *)
LockedInv == LockedTypeOK /\ Filled <= Slots

(* The constants.                                                           *)
LEMMA LockedSizes ==
  /\ Slots \in Nat /\ Slots > 0 /\ Width \in Nat /\ Width > Slots /\ Width > 0
  /\ Width % Slots = 0 /\ MaxCount \in Nat /\ MaxCount > 0
BY LockedAssumption

(* The slot k places behind the oldest item; an index that wraps at Width   *)
(* names the slot it would without wrapping.                                *)
At(k) == (read_idx + k) % Slots

(* The indices, and the slots they name.                                    *)
LEMMA LockedIndices ==
  ASSUME LockedTypeOK
  PROVE  /\ write_idx \in 0..(Width - 1) /\ read_idx \in 0..(Width - 1)
         /\ Filled \in 0..(Width - 1) /\ Filled \in Nat
         /\ ring \in [0..(Slots - 1) -> Values]
         /\ \A k \in Nat : At(k) \in 0..(Slots - 1)
         /\ \A k \in Nat : (write_idx + k) % Slots = At(Filled + k)
         /\ \A n \in 0..Width, k \in Nat : (((read_idx + n) % Width) + k) % Slots = At(n + k)
<1>1. /\ write_idx \in 0..(Width - 1) /\ read_idx \in 0..(Width - 1)
      /\ ring \in [0..(Slots - 1) -> Values]
  BY DEF LockedTypeOK
<1>2. Filled \in 0..(Width - 1) /\ Filled = IF write_idx >= read_idx THEN write_idx - read_idx
                                            ELSE write_idx + Width - read_idx
  BY <1>1, LockedSizes, Distance DEF Filled
<1>3. \A k \in Nat : At(k) \in 0..(Slots - 1)
  BY <1>1, LockedSizes DEF At
<1>4. ASSUME NEW k \in Nat PROVE (write_idx + k) % Slots = At(Filled + k)
  <2>1. read_idx + (Filled + k) = write_idx + k \/ read_idx + (Filled + k) = (write_idx + k) + Width
    BY <1>1, <1>2, LockedSizes
  <2>2. write_idx + k \in Nat
    BY <1>1, LockedSizes
  <2>3. ((write_idx + k) + Width) % Slots = (write_idx + k) % Slots
    BY <2>2, LockedSizes, ModMultiple
  <2> QED BY <2>1, <2>3 DEF At
<1>5. ASSUME NEW n \in 0..Width, NEW k \in Nat
      PROVE  (((read_idx + n) % Width) + k) % Slots = At(n + k)
  <2>1. PICK i \in 0..(Width - 1) : i = (read_idx + n) % Width
                                    /\ (i = read_idx + n \/ i + Width = read_idx + n)
    <3>1. (read_idx + n) % Width = (IF read_idx + n < Width THEN read_idx + n ELSE read_idx + n - Width)
          /\ (read_idx + n) % Width \in 0..(Width - 1)
      BY <1>1, LockedSizes, Moves
    <3> QED BY <1>1, <3>1, LockedSizes
  <2>2. i + k \in Nat /\ (read_idx + (n + k) = i + k \/ read_idx + (n + k) = (i + k) + Width)
    BY <1>1, <2>1, LockedSizes
  <2>3. ((i + k) + Width) % Slots = (i + k) % Slots
    BY <2>2, LockedSizes, ModMultiple
  <2> QED BY <2>1, <2>2, <2>3 DEF At
<1>6. Filled \in Nat
  BY <1>2, LockedSizes
<1> QED BY <1>1, <1>2, <1>3, <1>4, <1>5, <1>6

(* Places less than Slots apart are different slots.                        *)
LEMMA AtApart ==
  ASSUME LockedTypeOK, NEW k \in Nat, NEW j \in Nat, k < j, j - k < Slots
  PROVE  At(k) # At(j)
<1>1. read_idx + k \in Nat /\ j - k \in 1..(Slots - 1) /\ read_idx + j = (read_idx + k) + (j - k)
  <2>1. read_idx \in Nat
    BY LockedIndices, LockedSizes
  <2> QED BY <2>1, LockedSizes
<1>2. (read_idx + k) % Slots # ((read_idx + k) + (j - k)) % Slots
  BY <1>1, LockedSizes, ModApart
<1> QED BY <1>1, <1>2 DEF At

(* The stored items.                                                        *)
StoredIs ==
    /\ Stored \in Seq(Values) /\ Len(Stored) = Filled
    /\ \A k \in Nat : k < Filled => Stored[k + 1] = ring[At(k)]

(* They are the slots between the indices.                                  *)
LEMMA StoredAre == LockedTypeOK => StoredIs
<1> SUFFICES ASSUME LockedTypeOK PROVE StoredIs
  OBVIOUS
<1>1. Filled \in Nat /\ read_idx \in Nat /\ ring \in [0..(Slots - 1) -> Values]
  BY LockedIndices, LockedSizes
<1>2. \A k \in Nat : ring[At(k)] \in Values
  BY <1>1, LockedIndices
<1>3. ASSUME NEW i \in 1..Filled
      PROVE  \E k \in Nat : k + 1 = i /\ (read_idx + i - 1) % Slots = At(k)
  <2>1. i - 1 \in Nat /\ (i - 1) + 1 = i /\ read_idx + i - 1 = read_idx + (i - 1)
    BY <1>1
  <2> QED BY <2>1 DEF At
<1>4. \A i \in 1..Filled : Stored[i] = ring[(read_idx + i - 1) % Slots]
  BY DEF Stored
<1>5. Stored \in [1..Filled -> Values]
  BY <1>2, <1>3 DEF Stored
<1>6. Stored \in Seq(Values) /\ Len(Stored) = Filled
  BY <1>1, <1>5, SeqDef, LenProperties
<1>7. ASSUME NEW k \in Nat, k < Filled PROVE Stored[k + 1] = ring[At(k)]
  <2>1. k + 1 \in 1..Filled /\ read_idx + (k + 1) - 1 = read_idx + k
    BY <1>1, <1>7
  <2> QED BY <1>4, <2>1 DEF At
<1> QED BY <1>6, <1>7 DEF StoredIs

(* A call hands a batch over.                                               *)
LEMMA CallHands ==
  ASSUME LockedInv, NEW p \in Writers, CallEnqueue(p)
  PROVE  LockedInv' /\ LockedFIFO!Hand(p)
<1>1. PICK n \in 1 .. MaxCount : \E items \in [1 .. n -> Values] :
         given' = [given EXCEPT ![p] = items]
  BY DEF CallEnqueue
<1>2. PICK items \in [1 .. n -> Values] : given' = [given EXCEPT ![p] = items]
  BY <1>1
<1>3. given[p] = <<>> /\ UNCHANGED <<ring, write_idx, read_idx, taken>>
  BY DEF CallEnqueue
<1>4. LockedInv'
  <2>1. n \in 0 .. MaxCount
    BY LockedSizes
  <2>2. items \in UNION {[1 .. i -> Values] : i \in 0 .. MaxCount}
    BY <2>1
  <2>3. given' \in [Writers -> UNION {[1 .. i -> Values] : i \in 0 .. MaxCount}]
    BY <1>2, <2>2 DEF LockedInv, LockedTypeOK
  <2>4. LockedTypeOK'
    BY <1>3, <2>3 DEF LockedInv, LockedTypeOK
  <2>5. Filled' = Filled
    BY <1>3 DEF Filled
  <2> QED BY <2>4, <2>5 DEF LockedInv
<1>5. UNCHANGED <<Stored, taken>>
  BY <1>3 DEF Stored, Filled
<1> QED BY <1>2, <1>3, <1>4, <1>5 DEF LockedFIFO!Hand

(* As much of the batch as there is room for goes in behind what is stored. *)
LEMMA EnqueuePuts ==
  ASSUME LockedInv, NEW p \in Writers, EnqueueBulk(p)
  PROVE  LockedInv' /\ LockedFIFO!Put(p)
<1>1. LockedTypeOK /\ Filled <= Slots /\ Filled \in Nat
  BY LockedIndices DEF LockedInv
<1>0. PICK items : items = given[p]
  OBVIOUS
<1>2. /\ given[p] # <<>>
      /\ ring' = [s \in 0 .. Slots - 1 |->
                    IF \E i \in 1 .. AtMost(Len(items), Room) : (write_idx + i - 1) % Slots = s
                    THEN items[CHOOSE i \in 1 .. AtMost(Len(items), Room) :
                                  (write_idx + i - 1) % Slots = s]
                    ELSE ring[s]]
      /\ write_idx' = (write_idx + AtMost(Len(items), Room)) % Width
      /\ given' = [given EXCEPT ![p] = <<>>]
      /\ UNCHANGED <<read_idx, taken>>
  BY <1>0 DEF EnqueueBulk
<1>20. items \in Seq(Values) /\ Len(items) \in Nat
  <2>1. PICK m \in 0 .. MaxCount : items \in [1 .. m -> Values]
    <3>1. given[p] \in UNION {[1 .. i -> Values] : i \in 0 .. MaxCount}
      BY <1>1 DEF LockedTypeOK
    <3> QED BY <1>0, <3>1
  <2>2. items \in Seq(Values)
    BY <2>1, LockedSizes, SeqDef
  <2> QED BY <2>2, LenProperties
<1>3. PICK n \in Nat : n = AtMost(Len(items), Room) /\ n <= Len(items) /\ Filled + n <= Slots
  <2>1. Room = Slots - Filled /\ Room \in Nat
    BY <1>1, LockedSizes DEF Room
  <2>2. PICK n \in Nat : n = AtMost(Len(items), Room)
    BY <1>20, <2>1 DEF AtMost
  <2>3. n <= Len(items) /\ n <= Room
    BY <1>20, <2>1, <2>2 DEF AtMost
  <2>4. Filled + n <= Slots
    BY <1>1, <2>1, <2>3, LockedSizes
  <2> QED BY <2>2, <2>3, <2>4
<1>4. PICK s : /\ s = SubSeq(items, 1, n) /\ s \in Seq(Values) /\ Len(s) = n
               /\ \A i \in 1 .. n : s[i] = items[i] /\ items[i] \in Values
  <2>1. \A i \in 1 .. n : items[i] \in Values
    <3>1. \A i \in 1 .. n : i \in 1 .. Len(items)
      BY <1>3, <1>20
    <3> QED BY <1>20, <3>1, ElementOfSeq
  <2>2. /\ SubSeq(items, 1, n) \in Seq(Values)
        /\ Len(SubSeq(items, 1, n)) = IF 1 <= n THEN n - 1 + 1 ELSE 0
        /\ \A i \in 1..(n - 1 + 1) : SubSeq(items, 1, n)[i] = items[1 + i - 1]
    BY <2>1, SubSeqProperties
  <2>3. Len(SubSeq(items, 1, n)) = n
    BY <2>2
  <2>4. \A i \in 1 .. n : i \in 1..(n - 1 + 1) /\ 1 + i - 1 = i
    OBVIOUS
  <2>5. \A i \in 1 .. n : SubSeq(items, 1, n)[i] = items[i]
    BY <2>2, <2>4
  <2> QED BY <2>1, <2>2, <2>3, <2>5
<1>5. /\ ring \in [0..(Slots - 1) -> Values] /\ read_idx \in 0..(Width - 1)
      /\ write_idx \in 0..(Width - 1) /\ n \in 0..Width
  <2>1. n \in 0..Width
    BY <1>1, <1>3, LockedSizes
  <2> QED BY <1>1, <2>1, LockedIndices
<1>6. \A i \in 1 .. n : (write_idx + i - 1) % Slots = At(Filled + (i - 1))
  <2> SUFFICES ASSUME NEW i \in 1 .. n PROVE (write_idx + i - 1) % Slots = At(Filled + (i - 1))
    OBVIOUS
  <2>1. i - 1 \in Nat /\ write_idx + i - 1 = write_idx + (i - 1)
    BY <1>3, <1>5, LockedSizes
  <2> QED BY <1>1, <2>1, LockedIndices
(* Places of the batch are different slots, and no slot of what is stored.  *)
<1>7. ASSUME NEW k \in Nat, k < Filled
      PROVE  ring'[At(k)] = ring[At(k)]
  <2>1. ASSUME NEW i \in 1 .. n PROVE (write_idx + i - 1) % Slots # At(k)
    <3>1. /\ Filled + (i - 1) \in Nat /\ k < Filled + (i - 1)
          /\ (Filled + (i - 1)) - k < Slots
      BY <1>1, <1>3, <1>7, LockedSizes
    <3>2. At(k) # At(Filled + (i - 1))
      BY <1>1, <3>1, AtApart
    <3> QED BY <1>6, <3>2
  <2>2. At(k) \in 0..(Slots - 1)
    BY <1>1, LockedIndices
  <2> QED BY <1>2, <1>3, <2>1, <2>2
<1>8. ASSUME NEW j \in 1 .. n
      PROVE  ring'[At(Filled + (j - 1))] = s[j]
  <2>1. At(Filled + (j - 1)) \in 0..(Slots - 1)
    <3>1. Filled + (j - 1) \in Nat
      BY <1>1, <1>3
    <3> QED BY <1>1, <3>1, LockedIndices
  <2>2. ASSUME NEW i \in 1 .. n, (write_idx + i - 1) % Slots = At(Filled + (j - 1))
        PROVE  i = j
    <3>1. At(Filled + (i - 1)) = At(Filled + (j - 1))
      BY <1>6, <2>2
    <3>2. /\ Filled + (i - 1) \in Nat /\ Filled + (j - 1) \in Nat
          /\ i < j => Filled + (i - 1) < Filled + (j - 1)
                      /\ (Filled + (j - 1)) - (Filled + (i - 1)) < Slots
          /\ j < i => Filled + (j - 1) < Filled + (i - 1)
                      /\ (Filled + (i - 1)) - (Filled + (j - 1)) < Slots
      BY <1>1, <1>3, LockedSizes
    <3>3. ~ (i < j) /\ ~ (j < i)
      BY <1>1, <3>1, <3>2, AtApart
    <3> QED BY <1>3, <3>3
  <2>3. (write_idx + j - 1) % Slots = At(Filled + (j - 1))
    BY <1>6
  <2>4. (CHOOSE i \in 1 .. n : (write_idx + i - 1) % Slots = At(Filled + (j - 1))) = j
    BY <2>2, <2>3
  <2>5. ring'[At(Filled + (j - 1))] = items[j]
    BY <1>2, <1>3, <2>1, <2>3, <2>4
  <2> QED BY <1>4, <2>5
<1>9. ring' \in [0..(Slots - 1) -> Values]
  <2>1. ASSUME NEW x \in 0..(Slots - 1), \E i \in 1 .. n : (write_idx + i - 1) % Slots = x
        PROVE  (CHOOSE i \in 1 .. n : (write_idx + i - 1) % Slots = x) \in 1 .. n
    BY <2>1
  <2>2. \A i \in 1 .. n : items[i] \in Values
    BY <1>4
  <2> QED BY <1>2, <1>3, <1>5, <2>1, <2>2
<1>10. /\ write_idx' = (write_idx + n) % Width /\ write_idx' \in 0..(Width - 1)
       /\ UNCHANGED <<read_idx, taken>>
  BY <1>2, <1>3, <1>5, LockedSizes, Moves
<1>11. Filled' = Filled + n
  <2>1. Filled + n < Width
    BY <1>1, <1>3, LockedSizes
  <2>2. ((write_idx + Width - read_idx) % Width) + n < Width /\ n \in Nat
    BY <1>5, <2>1 DEF Filled
  <2>3. (((write_idx + n) % Width) + Width - read_idx) % Width
          = ((write_idx + Width - read_idx) % Width) + n
    <3> HIDE DEF Filled
    <3>1. Width \in Nat /\ Width > 0
      BY LockedSizes
    <3>2. read_idx \in 0..(Width - 1) /\ write_idx \in 0..(Width - 1)
      BY <1>5
    <3> QED BY <2>2, <3>1, <3>2, DistanceGrows
  <2>4. Filled' = (((write_idx + n) % Width) + Width - read_idx) % Width
    BY <1>10 DEF Filled
  <2> QED BY <2>3, <2>4 DEF Filled
<1>12. LockedInv'
  <2>1. <<>> \in UNION {[1 .. i -> Values] : i \in 0 .. MaxCount}
    <3>1. <<>> \in [1 .. 0 -> Values] /\ 0 \in 0 .. MaxCount
      BY LockedSizes
    <3> QED BY <3>1
  <2>2. given' \in [Writers -> UNION {[1 .. i -> Values] : i \in 0 .. MaxCount}]
    BY <1>1, <1>2, <2>1 DEF LockedTypeOK
  <2>3. LockedTypeOK'
    BY <1>1, <1>5, <1>9, <1>10, <2>2 DEF LockedTypeOK
  <2> QED BY <1>3, <1>11, <2>3 DEF LockedInv
<1>13. StoredIs /\ StoredIs'
  <2>1. LockedTypeOK' => StoredIs'
    BY StoredAre, PTL
  <2> QED BY <1>1, <1>12, <2>1, StoredAre DEF LockedInv
<1>14. s \in Seq(Values) /\ Len(s) = n
  BY <1>4
<1>15. /\ Stored \o s \in Seq(Values) /\ Len(Stored \o s) = Filled + n
       /\ \A i \in 1..(Filled + n) :
             (Stored \o s)[i] = IF i <= Filled THEN Stored[i] ELSE s[i - Filled]
  <2>1. Stored \in Seq(Values) /\ Len(Stored) = Filled
    BY <1>13 DEF StoredIs
  <2>2. /\ Stored \o s \in Seq(Values) /\ Len(Stored \o s) = Len(Stored) + Len(s)
        /\ \A i \in 1..Len(Stored) + Len(s) :
              (Stored \o s)[i] = IF i <= Len(Stored) THEN Stored[i] ELSE s[i - Len(Stored)]
    BY <1>14, <2>1, ConcatProperties
  <2> QED BY <1>14, <2>1, <2>2
<1>16. \A k \in Nat : At(k)' = At(k)
  BY <1>10 DEF At
<1>17. ASSUME NEW i \in 1..(Filled + n)
       PROVE  Stored'[i] = (Stored \o s)[i]
  <2>1. PICK k \in Nat : k = i - 1 /\ i = k + 1 /\ k < Filled + n
    BY <1>1, <1>3
  <2>2. Stored'[i] = ring'[At(k)]
    BY <1>11, <1>13, <1>16, <2>1 DEF StoredIs
  <2>3. CASE k < Filled
    <3>1. i <= Filled /\ Stored[i] = ring[At(k)]
      BY <1>1, <1>13, <2>1, <2>3 DEF StoredIs
    <3> QED BY <1>7, <1>15, <2>2, <2>3, <3>1
  <2>4. CASE ~ (k < Filled)
    <3>1. PICK j \in 1 .. n : j = i - Filled
      BY <1>1, <1>3, <2>1, <2>4
    <3>2. Filled + (j - 1) = k /\ ~ (i <= Filled)
      BY <1>1, <1>3, <2>1, <2>4, <3>1
    <3> QED BY <1>8, <1>15, <2>2, <3>1, <3>2
  <2> QED BY <2>3, <2>4
<1>18. Stored' = Stored \o s
  <2>1. Stored' \in Seq(Values) /\ Len(Stored') = Filled + n
    BY <1>11, <1>13 DEF StoredIs
  <2> QED BY <1>15, <1>17, <2>1, SeqEqual
<1>19. n = IF Len(items) > LockedFIFO!Room THEN LockedFIFO!Room ELSE Len(items)
  <2>1. Len(Stored) = Filled
    BY <1>13 DEF StoredIs
  <2>2. LockedFIFO!Room = Room
    BY <2>1 DEF LockedFIFO!Room, Room
  <2> QED BY <1>3, <2>2 DEF AtMost
<1> QED BY <1>0, <1>2, <1>4, <1>10, <1>12, <1>18, <1>19 DEF LockedFIFO!Put

(* As many items as there are come out at the front.                        *)
LEMMA DequeueTakes ==
  ASSUME LockedInv, DequeueBulk
  PROVE  LockedInv' /\ LockedFIFO!Take
<1>1. LockedTypeOK /\ Filled <= Slots /\ Filled \in Nat /\ StoredIs
  BY LockedIndices, StoredAre DEF LockedInv
<1>2. PICK most \in 1 .. MaxCount :
         /\ AtMost(most, Filled) > 0
         /\ taken' = [i \in 1 .. AtMost(most, Filled) |-> ring[(read_idx + i - 1) % Slots]]
         /\ read_idx' = (read_idx + AtMost(most, Filled)) % Width
         /\ UNCHANGED <<ring, write_idx, given>>
  BY DEF DequeueBulk
<1>3. PICK n \in Nat : n = AtMost(most, Filled) /\ n > 0 /\ n <= most /\ n <= Filled
  <2>1. most \in Nat
    BY LockedSizes
  <2> QED BY <1>1, <1>2, <2>1 DEF AtMost
<1>4. /\ ring \in [0..(Slots - 1) -> Values] /\ read_idx \in 0..(Width - 1)
      /\ write_idx \in 0..(Width - 1) /\ n \in 0..Width
  <2>1. n \in 0..Width
    BY <1>1, <1>3, LockedSizes
  <2> QED BY <1>1, <2>1, LockedIndices
<1>5. read_idx' = (read_idx + n) % Width /\ read_idx' \in 0..(Width - 1)
  BY <1>2, <1>3, <1>4, LockedSizes, Moves
<1>6. Filled' = Filled - n
  <2>1. n <= (write_idx + Width - read_idx) % Width
    BY <1>3 DEF Filled
  <2>2. (write_idx + Width - ((read_idx + n) % Width)) % Width
          = ((write_idx + Width - read_idx) % Width) - n
    <3>1. Width \in Nat /\ Width > 0
      BY LockedSizes
    <3>2. read_idx \in 0..(Width - 1) /\ write_idx \in 0..(Width - 1) /\ n \in Nat
      BY <1>4
    <3> QED BY <2>1, <3>1, <3>2, DistanceShrinks
  <2>3. Filled' = (write_idx + Width - ((read_idx + n) % Width)) % Width
    BY <1>2, <1>5 DEF Filled
  <2> QED BY <2>2, <2>3 DEF Filled
<1>7. \A k \in Nat : At(k)' = At(n + k)
  BY <1>1, <1>4, <1>5, LockedIndices DEF At
<1>8. \A i \in 1 .. n : taken'[i] = Stored[i] /\ Stored[i] \in Values
  <2> SUFFICES ASSUME NEW i \in 1 .. n PROVE taken'[i] = Stored[i] /\ Stored[i] \in Values
    OBVIOUS
  <2>1. i \in 1 .. Filled
    BY <1>1, <1>3
  <2>2. taken'[i] = Stored[i]
    BY <1>2, <1>3, <2>1 DEF Stored
  <2>3. Stored \in Seq(Values) /\ Len(Stored) = Filled
    BY <1>1 DEF StoredIs
  <2> QED BY <2>1, <2>2, <2>3, ElementOfSeq
<1>9. taken' = [i \in 1 .. n |-> ring[(read_idx + i - 1) % Slots]]
  BY <1>2, <1>3
<1>10. taken' \in [1 .. n -> Values]
  BY <1>8, <1>9
<1>11. LockedInv'
  <2>1. n \in 0 .. MaxCount
    BY <1>3, LockedSizes
  <2>2. taken' \in UNION {[1 .. i -> Values] : i \in 0 .. MaxCount}
    BY <1>10, <2>1
  <2>3. LockedTypeOK'
    BY <1>1, <1>2, <1>4, <1>5, <2>2 DEF LockedTypeOK
  <2>4. Filled - n <= Slots
    BY <1>1, <1>3, LockedSizes
  <2> QED BY <1>6, <2>3, <2>4 DEF LockedInv
<1>12. StoredIs'
  <2>1. LockedTypeOK' => StoredIs'
    BY StoredAre, PTL
  <2> QED BY <1>11, <2>1 DEF LockedInv
<1>13. /\ Stored \in Seq(Values) /\ Len(Stored) = Filled
       /\ \A k \in Nat : k < Filled => Stored[k + 1] = ring[At(k)]
       /\ Stored' \in Seq(Values) /\ Len(Stored') = Filled - n
  BY <1>1, <1>6, <1>12 DEF StoredIs
<1>14. ASSUME NEW k \in Nat, k < Filled - n PROVE Stored'[k + 1] = ring[At(n + k)]
  <2>1. k < Filled'
    BY <1>6, <1>14
  <2>2. Stored'[k + 1] = ring'[At(k)']
    BY <1>12, <2>1 DEF StoredIs
  <2> QED BY <1>2, <1>7, <2>2
<1>15. SubSeq(Stored, 1, n) = taken'
  <2>1. /\ SubSeq(Stored, 1, n) \in Seq(Values)
        /\ Len(SubSeq(Stored, 1, n)) = IF 1 <= n THEN n - 1 + 1 ELSE 0
        /\ \A i \in 1..(n - 1 + 1) : SubSeq(Stored, 1, n)[i] = Stored[1 + i - 1]
    BY <1>3, <1>8, SubSeqProperties
  <2>2. Len(SubSeq(Stored, 1, n)) = n
    BY <1>3, <2>1
  <2>3. taken' \in Seq(Values) /\ Len(taken') = n
    BY <1>10, SeqDef, LenProperties
  <2>4. ASSUME NEW i \in 1 .. n PROVE SubSeq(Stored, 1, n)[i] = taken'[i]
    <3>1. 1 + i - 1 = i /\ i \in 1..(n - 1 + 1)
      BY <1>3
    <3> QED BY <1>8, <2>1, <3>1
  <2> QED BY <2>1, <2>2, <2>3, <2>4, SeqEqual
<1>16. SubSeq(Stored, n + 1, Filled) = Stored'
  <2>1. n + 1 \in Int /\ Filled \in Int /\ \A i \in (n + 1)..Filled : Stored[i] \in Values
    <3>1. \A i \in (n + 1)..Filled : i \in 1 .. Filled
      BY <1>1, <1>3
    <3> QED BY <1>1, <1>3, <1>13, <3>1, ElementOfSeq
  <2>2. /\ SubSeq(Stored, n + 1, Filled) \in Seq(Values)
        /\ Len(SubSeq(Stored, n + 1, Filled)) = IF n + 1 <= Filled THEN Filled - (n + 1) + 1 ELSE 0
        /\ \A i \in 1..(Filled - (n + 1) + 1) :
              SubSeq(Stored, n + 1, Filled)[i] = Stored[(n + 1) + i - 1]
    BY <2>1, SubSeqProperties
  <2>3. Len(SubSeq(Stored, n + 1, Filled)) = Filled - n
    BY <1>1, <1>3, <2>2
  <2>4. ASSUME NEW i \in 1..(Filled - n) PROVE SubSeq(Stored, n + 1, Filled)[i] = Stored'[i]
    <3>1. PICK k \in Nat : k + 1 = i /\ k < Filled - n /\ n + k < Filled /\ n + k \in Nat
      <4>1. /\ i - 1 \in Nat /\ (i - 1) + 1 = i /\ i - 1 < Filled - n
            /\ n + (i - 1) < Filled /\ n + (i - 1) \in Nat
        BY <1>1, <1>3
      <4> QED BY <4>1
    <3>2. SubSeq(Stored, n + 1, Filled)[i] = Stored[(n + k) + 1]
      <4>1. (n + 1) + i - 1 = (n + k) + 1 /\ i \in 1..(Filled - (n + 1) + 1)
        BY <1>1, <1>3, <3>1
      <4> QED BY <2>2, <4>1
    <3>3. Stored[(n + k) + 1] = ring[At(n + k)]
      BY <1>13, <3>1
    <3>4. Stored'[k + 1] = ring[At(n + k)]
      BY <1>14, <3>1
    <3> QED BY <3>1, <3>2, <3>3, <3>4
  <2> QED BY <1>13, <2>2, <2>3, <2>4, SeqEqual
<1>17. n \in 1 .. Len(Stored)
  BY <1>1, <1>3, <1>13
<1> QED BY <1>2, <1>11, <1>13, <1>15, <1>16, <1>17 DEF LockedFIFO!Take

(* The queue starts empty.                                                  *)
LEMMA LockedInitImplements == LockedInit => LockedInv /\ LockedFIFO!Init
<1> SUFFICES ASSUME LockedInit PROVE LockedInv /\ LockedFIFO!Init
  OBVIOUS
<1>1. write_idx = 0 /\ read_idx = 0 /\ taken = <<>> /\ given = [p \in Writers |-> <<>>]
  BY DEF LockedInit
<1>2. ring \in [0 .. Slots - 1 -> Values]
  <2>1. (CHOOSE v \in Values : TRUE) \in Values
    BY LockedAssumption
  <2> QED BY <2>1 DEF LockedInit
<1>3. taken \in [1 .. 0 -> Values] /\ 0 \in 0 .. MaxCount /\ 0 \in 0 .. Width - 1
  BY <1>1, LockedSizes
<1>4. LockedTypeOK
  <2>1. given \in [Writers -> UNION {[1 .. i -> Values] : i \in 0 .. MaxCount}]
    BY <1>1, <1>3
  <2> QED BY <1>1, <1>2, <1>3, <2>1 DEF LockedTypeOK
<1>5. Filled = 0
  <2>1. (0 + Width - 0) % Width = 0
    <3>1. 0 \in 0..(Width - 1)
      BY LockedSizes
    <3>2. (0 + Width - 0) % Width = IF 0 >= 0 THEN 0 - 0 ELSE 0 + Width - 0
      BY <3>1, LockedSizes, Distance
    <3> QED BY <3>2
  <2> QED BY <1>1, <2>1 DEF Filled
<1>6. Stored = <<>>
  <2>1. Stored \in Seq(Values) /\ Len(Stored) = 0
    BY <1>4, <1>5, StoredAre DEF StoredIs
  <2> QED BY <2>1, EmptySeq
<1> QED BY <1>1, <1>4, <1>5, <1>6, LockedSizes DEF LockedInv, LockedFIFO!Init

(* Every step.                                                              *)
LEMMA LockedNextImplements ==
  LockedInv /\ [LockedNext]_lockedVars
    => LockedInv' /\ [LockedFIFO!Next]_<<given, Stored, taken>>
<1> SUFFICES ASSUME LockedInv, [LockedNext]_lockedVars
             PROVE  LockedInv' /\ (LockedFIFO!Next \/ UNCHANGED <<given, Stored, taken>>)
  OBVIOUS
<1> USE DEF LockedFIFO!Next
<1>0. CASE \E p \in Writers : CallEnqueue(p)
  BY <1>0, CallHands
<1>1. CASE \E p \in Writers : EnqueueBulk(p)
  BY <1>1, EnqueuePuts
<1>2. CASE DequeueBulk
  BY <1>2, DequeueTakes
<1>3. CASE UNCHANGED lockedVars
  BY <1>3 DEF lockedVars, LockedInv, LockedTypeOK, Filled, Stored
<1> QED BY <1>0, <1>1, <1>2, <1>3 DEF LockedNext

(* MPMCLockedQueue is the same bounded FIFO as the lock-free queue, of any  *)
(* capacity, with any batches and across the overflow of its indices.       *)
THEOREM LockedQueueImplementsFIFO == LockedSpec => LockedImplementsFIFO
BY LockedInitImplements, LockedNextImplements, PTL
   DEF LockedSpec, LockedImplementsFIFO, LockedFIFO!Spec

-----------------------------------------------------------------------------
(* The timers.  TimersInv adds to the two properties of the runs how late a *)
(* timer can be: a repeating timer is put back at interval - age, so        *)
(* ArmedInTime needs that no due value falls below what the timerfd can be  *)
(* set to, and the type that TimePasses, which moves every due value, is    *)
(* stopped in time.  TimersParts is TimersInv with the two queues apart.    *)
(*                                                                         *)
(* First the queues of functors and the front of the heap.                  *)

(* The timers a queue is going to insert.                                   *)
Inserts(q) == {f.timer : f \in {g \in ToSet(q) : g.op = "insert"}}

(* No timer is inserted twice from a queue.                                 *)
Once(q) == \A i, j \in 1 .. Len(q) : q[i] = q[j] /\ q[i].op = "insert" => i = j

(* The constants.                                                           *)
LEMMA TimerBounds ==
  /\ MaxDelay \in Nat /\ MaxDelay >= 1 /\ MaxLag \in Nat /\ MaxLag >= 1
  /\ Off = MaxDelay + 1 /\ Off \in Nat
BY TimersAssumption DEF Off

(* What is queued is in one of the two queues.                              *)
LEMMA QueuedIs == Queued("insert") = Inserts(pending) \cup Inserts(calling)
BY DEF Queued, Inserts

(* A functor at the end of a queue.                                         *)
LEMMA AppendAdds ==
  ASSUME NEW q \in Seq(Functors), NEW f \in Functors
  PROVE  /\ Append(q, f) \in Seq(Functors)
         /\ ToSet(Append(q, f)) = ToSet(q) \cup {f}
         /\ Inserts(Append(q, f)) = Inserts(q) \cup (IF f.op = "insert" THEN {f.timer} ELSE {})
         /\ Once(q) /\ (f.op = "insert" => f.timer \notin Inserts(q)) => Once(Append(q, f))
<1> DEFINE a == Append(q, f)
<1>1. /\ a \in Seq(Functors) /\ Len(a) = Len(q) + 1
      /\ \A i \in 1 .. Len(q) : a[i] = q[i]
      /\ a[Len(q) + 1] = f
  BY AppendProperties
<1>2. Len(q) \in Nat /\ DOMAIN q = 1 .. Len(q) /\ DOMAIN a = 1 .. Len(q) + 1
  BY <1>1, LenProperties
<1> HIDE DEF a
<1>3. ToSet(a) = ToSet(q) \cup {f}
  BY <1>1, <1>2 DEF ToSet
<1>4. Inserts(a) = Inserts(q) \cup (IF f.op = "insert" THEN {f.timer} ELSE {})
  BY <1>3 DEF Inserts
<1>5. ASSUME Once(q), f.op = "insert" => f.timer \notin Inserts(q),
             NEW i \in 1 .. Len(a), NEW j \in 1 .. Len(a), a[i] = a[j], a[i].op = "insert"
      PROVE  i = j
  <2>1. \A k \in 1 .. Len(q) : a[k].op = "insert" => a[k].timer \in Inserts(q)
    BY <1>1, <1>2 DEF Inserts, ToSet
  <2>2. CASE i \in 1 .. Len(q) /\ j \in 1 .. Len(q)
    BY <1>1, <1>5, <2>2 DEF Once
  <2>3. CASE i = Len(q) + 1 /\ j \in 1 .. Len(q)
    BY <1>1, <1>5, <2>1, <2>3
  <2>4. CASE j = Len(q) + 1 /\ i \in 1 .. Len(q)
    BY <1>1, <1>5, <2>1, <2>4
  <2> QED BY <1>1, <1>2, <1>5, <2>2, <2>3, <2>4
<1>6. Once(q) /\ (f.op = "insert" => f.timer \notin Inserts(q)) => Once(a)
  BY <1>5 DEF Once
<1> QED BY <1>1, <1>3, <1>4, <1>6 DEF a

(* The first functor of a queue, and those that follow.                     *)
LEMMA TailDrops ==
  ASSUME NEW q \in Seq(Functors), q # <<>>
  PROVE  /\ Tail(q) \in Seq(Functors) /\ Head(q) \in Functors
         /\ ToSet(Tail(q)) \subseteq ToSet(q) /\ Head(q) \in ToSet(q)
         /\ Inserts(Tail(q)) \subseteq Inserts(q)
         /\ Once(q) => /\ Once(Tail(q))
                       /\ Head(q).op = "insert" => Head(q).timer \notin Inserts(Tail(q))
<1> DEFINE b == Tail(q)
<1>1. /\ Head(q) \in Functors /\ b \in Seq(Functors) /\ Len(b) = Len(q) - 1
      /\ \A i \in 1 .. Len(b) : b[i] = q[i + 1]
  BY HeadTailProperties
<1>2. /\ Len(q) \in Nat \ {0} /\ DOMAIN q = 1 .. Len(q) /\ DOMAIN b = 1 .. Len(q) - 1
      /\ q \in [1 .. Len(q) -> Functors]
  BY <1>1, LenProperties, EmptySeq
<1>3. Head(q) = q[1]
  OBVIOUS
<1> HIDE DEF b
<1>4. \A i \in 1 .. Len(b) : i + 1 \in 1 .. Len(q) /\ i + 1 # 1
  BY <1>1, <1>2
<1>5. ToSet(b) \subseteq ToSet(q) /\ Head(q) \in ToSet(q)
  BY <1>1, <1>2, <1>3, <1>4 DEF ToSet
<1>6. Inserts(b) \subseteq Inserts(q)
  BY <1>5 DEF Inserts
<1>7. ASSUME Once(q) PROVE Once(b)
  <2> SUFFICES ASSUME NEW i \in 1 .. Len(b), NEW j \in 1 .. Len(b), b[i] = b[j], b[i].op = "insert"
               PROVE  i = j
    BY DEF Once
  <2>1. i + 1 = j + 1
    BY <1>1, <1>4, <1>7 DEF Once
  <2> QED BY <1>1, <1>2, <2>1
<1>8. ASSUME Once(q), Head(q).op = "insert", Head(q).timer \in Inserts(b)
      PROVE  FALSE
  <2>1. PICK i \in 1 .. Len(b) : b[i].op = "insert" /\ b[i].timer = Head(q).timer
    BY <1>1, <1>2, <1>8 DEF Inserts, ToSet
  <2>2. b[i] \in Functors /\ b[i] = q[i + 1] /\ i + 1 \in 1 .. Len(q) /\ i + 1 # 1
    BY <1>1, <1>2, <1>4
  <2>3. b[i] = Head(q)
    BY <1>1, <1>8, <2>1, <2>2 DEF Functors
  <2>4. 1 \in 1 .. Len(q) /\ q[i + 1] = q[1] /\ q[1].op = "insert"
    BY <1>2, <1>3, <1>8, <2>2, <2>3
  <2> QED BY <1>8, <2>2, <2>4 DEF Once
<1> QED BY <1>1, <1>5, <1>6, <1>7, <1>8 DEF b

(* An empty queue.                                                          *)
LEMMA EmptyQueue ==
  <<>> \in Seq(Functors) /\ ToSet(<<>>) = {} /\ Inserts(<<>>) = {} /\ Once(<<>>)
<1>1. <<>> \in Seq(Functors) /\ Len(<<>>) = 0
  BY EmptySeq
<1>2. ToSet(<<>>) = {}
  BY DEF ToSet
<1> QED BY <1>1, <1>2 DEF Inserts, Once

(* What due may be.                                                         *)
Dues == [Timers -> -MaxLag - 1 .. MaxDelay]

(* The heap has a front.                                                    *)
LEMMA EarliestIs ==
  ASSUME NEW S, S \subseteq Timers, S # {}, NEW d \in Dues
  PROVE  /\ Earliest(S, d) \in S
         /\ \A u \in S : d[Earliest(S, d)] <= d[u]
<1>1. -MaxLag - 1 \in Int /\ \A t \in S : d[t] \in Int /\ -MaxLag - 1 <= d[t]
  BY TimerBounds DEF Dues
<1>2. \E t \in S : \A u \in S : d[t] <= d[u]
  BY <1>1, LeastInt
<1> QED BY <1>2 DEF Earliest

-----------------------------------------------------------------------------
(* The invariant.                                                          *)

(* No timer is more than MaxLag late, but the one the timerfd has just told *)
(* of; and none in the heap is later than handleRead has been running.      *)
NotLate ==
    /\ \A t \in Queued("insert") : due[t] >= -MaxLag
    /\ qpc = "run" => \A t \in timers : due[t] >= -age
    /\ qpc # "run" => \A t \in timers : due[t] >= -MaxLag \/ fd = 0

TimersInv == TimersTypeOK /\ OneOwner /\ ArmedInTime /\ NotLate

(* Its parts, with the queues apart.                                        *)
HeapType ==
    /\ timers \subseteq Timers /\ due \in Dues
    /\ interval \in [Timers -> 0 .. MaxDelay] /\ fd \in 0 .. Off

RoundType ==
    /\ active \subseteq {"timer", "io"}
    /\ expired \in Seq(Timers) /\ called \in 0 .. Len(expired)
    /\ age \in 0 .. MaxLag

QueueType ==
    /\ pending \in Seq(Functors) /\ calling \in Seq(Functors)
    /\ Once(pending) /\ Once(calling)
    /\ Inserts(pending) \cap Inserts(calling) = {}

Owners ==
    /\ timers = activeTimers
    /\ timers \cap ToSet(expired) = {}
    /\ Inserts(pending) \cap (timers \cup ToSet(expired)) = {}
    /\ Inserts(calling) \cap (timers \cup ToSet(expired)) = {}
    /\ IsInjective(expired)

TimersParts ==
    /\ qpc \in {"poll", "handle", "run", "pending", "call", "dead"}
    /\ HeapType /\ RoundType /\ QueueType /\ Owners /\ ArmedInTime
    /\ \A t \in Inserts(pending) \cup Inserts(calling) : due[t] >= -MaxLag
    /\ qpc = "run" => \A t \in timers : due[t] >= -age
    /\ qpc # "run" => \A t \in timers : due[t] >= -MaxLag \/ fd = 0

(* The two say the same.                                                    *)
LEMMA TimersPartsInv == TimersInv <=> TimersParts
<1>1. Queued("insert") = Inserts(pending) \cup Inserts(calling)
  BY QueuedIs
<1>2. ASSUME pending \in Seq(Functors), calling \in Seq(Functors)
      PROVE  Inserts(pending) \cap Inserts(calling) = {} <=>
               \A f \in ToSet(pending) \cap ToSet(calling) : f.op # "insert"
  <2>1. ToSet(pending) \subseteq Functors /\ ToSet(calling) \subseteq Functors
    <3>1. /\ \A i \in DOMAIN pending : pending[i] \in Functors
          /\ \A i \in DOMAIN calling : calling[i] \in Functors
      BY <1>2, LenProperties
    <3> QED BY <3>1 DEF ToSet
  <2>2. ASSUME NEW f \in Functors, NEW g \in Functors, f.op = g.op, f.timer = g.timer
        PROVE  f = g
    BY <2>2 DEF Functors
  <2>3. ASSUME Inserts(pending) \cap Inserts(calling) # {}
        PROVE  \E f \in ToSet(pending) \cap ToSet(calling) : f.op = "insert"
    <3>1. PICK f \in ToSet(pending), g \in ToSet(calling) :
             f.op = "insert" /\ g.op = "insert" /\ f.timer = g.timer
      BY <2>3 DEF Inserts
    <3>2. f = g
      BY <2>1, <2>2, <3>1
    <3> QED BY <3>1, <3>2
  <2>4. ASSUME NEW f \in ToSet(pending) \cap ToSet(calling), f.op = "insert"
        PROVE  f.timer \in Inserts(pending) \cap Inserts(calling)
    BY <2>4 DEF Inserts
  <2> QED BY <2>3, <2>4
<1>3. OneOwner <=> /\ Owners /\ Once(pending) /\ Once(calling)
                   /\ \A f \in ToSet(pending) \cap ToSet(calling) : f.op # "insert"
  BY <1>1 DEF OneOwner, Owners, Once
<1>4. Owners => activeTimers = timers
  BY DEF Owners
<1> QED BY <1>1, <1>2, <1>3, <1>4 DEF TimersInv, TimersParts, TimersTypeOK, HeapType, RoundType, QueueType, NotLate, Dues

(* What handleRead holds are timers.                                        *)
LEMMA ExpiredType ==
  ASSUME RoundType
  PROVE  ToSet(expired) \subseteq Timers /\ Len(expired) \in Nat
<1>1. Len(expired) \in Nat /\ \A i \in DOMAIN expired : expired[i] \in Timers
  BY LenProperties DEF RoundType
<1> QED BY <1>1 DEF ToSet

-----------------------------------------------------------------------------
(* insert sets the timerfd no later than the timer, and leaves it no later  *)
(* than any other.                                                          *)
LEMMA InsertArms ==
  ASSUME HeapType, NEW t \in Timers, NEW d \in -MaxLag .. MaxDelay, insert(t, d)
  PROVE  /\ timers' = timers \cup {t} /\ activeTimers' = activeTimers \cup {t}
         /\ fd' \in 0 .. Off
         /\ fd' = fd \/ \A u \in timers : d < due[u]
         /\ timers = {} \/ (fd # Off /\ \A u \in timers : fd <= due[u] \/ fd <= 1)
            => /\ fd' # Off /\ (fd' <= d \/ fd' <= 1)
               /\ \A u \in timers : fd' <= due[u] \/ fd' <= 1
<1> DEFINE e == Earliest(timers, due)
<1>1. timers # {} => e \in timers /\ (\A u \in timers : due[e] <= due[u]) /\ due[e] \in Int
  BY EarliestIs, TimerBounds DEF HeapType, Dues
<1>2. /\ timers' = timers \cup {t} /\ activeTimers' = activeTimers \cup {t}
      /\ fd' = IF timers = {} \/ d < due[e] THEN Armed(d) ELSE fd
  BY DEF insert
<1> HIDE DEF e
<1>3. Armed(d) \in 1 .. MaxDelay /\ (Armed(d) = d \/ Armed(d) = 1)
  BY TimerBounds DEF Armed
<1>4. fd \in 0 .. Off /\ \A u \in timers : due[u] \in Int
  BY TimerBounds DEF HeapType, Dues
<1>5. CASE timers = {}
  BY <1>2, <1>3, <1>5, TimerBounds
<1>6. CASE timers # {} /\ d < due[e]
  <2>1. fd' = Armed(d) /\ \A u \in timers : d < due[u]
    BY <1>1, <1>2, <1>4, <1>6
  <2> QED BY <1>2, <1>3, <1>4, <2>1, TimerBounds
<1>7. CASE timers # {} /\ ~ (d < due[e])
  <2>1. fd' = fd /\ due[e] <= d
    BY <1>1, <1>2, <1>7, TimerBounds
  <2>2. fd <= due[e] \/ fd <= 1 => fd <= d \/ fd <= 1
    BY <1>1, <1>4, <1>7, <2>1
  <2> QED BY <1>1, <1>2, <1>4, <1>7, <2>1, <2>2
<1> QED BY <1>5, <1>6, <1>7

(* A timer of its own that goes into the heap.                              *)
LEMMA InsertOwned ==
  ASSUME TimersParts, NEW t \in Timers \ (timers \cup ToSet(expired)), NEW d \in -MaxLag .. MaxDelay,
         qpc = "run" => d >= -age,
         insert(t, d), due' \in Dues, interval' \in [Timers -> 0 .. MaxDelay],
         due'[t] = d, \A u \in Timers \ {t} : due'[u] = due[u],
         UNCHANGED <<expired, age, qpc>>, RoundType', QueueType',
         Inserts(pending') \subseteq Inserts(pending), Inserts(calling') \subseteq Inserts(calling),
         t \notin Inserts(pending'), t \notin Inserts(calling')
  PROVE  TimersParts'
<1>1. /\ HeapType /\ RoundType /\ Owners /\ ArmedInTime /\ timers \subseteq Timers
      /\ age \in 0 .. MaxLag /\ \A u \in Timers : due[u] \in Int
  BY TimerBounds DEF TimersParts, HeapType, RoundType, Dues
<1>2. /\ timers' = timers \cup {t} /\ activeTimers' = activeTimers \cup {t}
      /\ fd' \in 0 .. Off
      /\ fd' = fd \/ \A u \in timers : d < due[u]
      /\ timers = {} \/ (fd # Off /\ \A u \in timers : fd <= due[u] \/ fd <= 1)
         => /\ fd' # Off /\ (fd' <= d \/ fd' <= 1)
            /\ \A u \in timers : fd' <= due[u] \/ fd' <= 1
  BY <1>1, InsertArms
<1>3. \A u \in timers : u # t /\ due'[u] = due[u]
  BY <1>1
<1>4. HeapType'
  BY <1>1, <1>2 DEF HeapType
<1>5. Owners'
  BY <1>1, <1>2 DEF Owners
<1>6. ArmedInTime'
  <2> SUFFICES ASSUME qpc # "run"
               PROVE  fd' # Off /\ \A u \in timers' : fd' <= due'[u] \/ fd' <= 1
    BY DEF ArmedInTime
  <2>1. timers = {} \/ (fd # Off /\ \A u \in timers : fd <= due[u] \/ fd <= 1)
    BY <1>1 DEF ArmedInTime
  <2> QED BY <1>2, <1>3, <2>1
<1>7. \A u \in Inserts(pending') \cup Inserts(calling') : due'[u] >= -MaxLag
  <2> SUFFICES ASSUME NEW u \in Inserts(pending') \cup Inserts(calling') PROVE due'[u] >= -MaxLag
    OBVIOUS
  <2>1. u # t /\ due[u] >= -MaxLag
    BY DEF TimersParts
  <2>2. u \in Timers
    <3>1. \A f \in ToSet(pending) \cup ToSet(calling) : f \in Functors
      <4>1. pending \in Seq(Functors) /\ calling \in Seq(Functors)
        BY DEF TimersParts, QueueType
      <4>2. /\ \A i \in DOMAIN pending : pending[i] \in Functors
            /\ \A i \in DOMAIN calling : calling[i] \in Functors
        BY <4>1, LenProperties
      <4> QED BY <4>2 DEF ToSet
    <3>2. \E f \in ToSet(pending) \cup ToSet(calling) : u = f.timer
      BY DEF Inserts
    <3> QED BY <3>1, <3>2 DEF Functors
  <2> QED BY <2>1, <2>2
<1>8. qpc = "run" => \A u \in timers' : due'[u] >= -age
  BY <1>2, <1>3 DEF TimersParts
<1>9. qpc # "run" => \A u \in timers' : due'[u] >= -MaxLag \/ fd' = 0
  <2> SUFFICES ASSUME qpc # "run", NEW u \in timers', ~ (due'[u] >= -MaxLag)
               PROVE  fd' = 0
    OBVIOUS
  <2>1. u \in timers /\ due'[u] = due[u]
    BY <1>2, <1>3, TimerBounds
  <2>2. fd = 0 /\ ~ (d < due[u])
    BY <1>1, <2>1, TimerBounds DEF TimersParts
  <2> QED BY <1>2, <2>1, <2>2
<1> QED BY <1>4, <1>5, <1>6, <1>7, <1>8, <1>9 DEF TimersParts

(* What a queue inserts are timers.                                         *)
LEMMA InsertsAre ==
  ASSUME NEW q \in Seq(Functors)
  PROVE  Inserts(q) \subseteq Timers
<1>1. \A f \in ToSet(q) : f \in Functors
  BY LenProperties DEF ToSet
<1> QED BY <1>1 DEF Inserts, Functors

(* A step that leaves the heap and the functors as they are, or drops some. *)
LEMMA HeapSame ==
  ASSUME TimersParts, UNCHANGED heapVars, RoundType', QueueType',
         ToSet(expired') \subseteq ToSet(expired), IsInjective(expired'),
         qpc' \in {"poll", "handle", "run", "pending", "call", "dead"},
         qpc = "run" <=> qpc' = "run", age' = age,
         Inserts(pending') \subseteq Inserts(pending) \cup Inserts(calling),
         Inserts(calling') \subseteq Inserts(pending) \cup Inserts(calling)
  PROVE  TimersParts'
<1> USE DEF heapVars
<1>1. HeapType' /\ ArmedInTime'
  BY DEF TimersParts, HeapType, ArmedInTime
<1>2. Owners'
  BY DEF TimersParts, Owners
<1>3. \A t \in Inserts(pending') \cup Inserts(calling') : due'[t] >= -MaxLag
  BY DEF TimersParts
<1>4. qpc' = "run" => \A t \in timers' : due'[t] >= -age'
  BY DEF TimersParts
<1>5. qpc' # "run" => \A t \in timers' : due'[t] >= -MaxLag \/ fd' = 0
  BY DEF TimersParts
<1> QED BY <1>1, <1>2, <1>3, <1>4, <1>5 DEF TimersParts

(* A cancel takes out of the heap what is there, and the timerfd may then   *)
(* come too early but not too late.                                         *)
LEMMA CancelOwned ==
  ASSUME TimersParts, NEW t \in Timers, cancelInLoop(t),
         UNCHANGED <<expired, age, qpc>>, RoundType', QueueType',
         Inserts(pending') \subseteq Inserts(pending), Inserts(calling') \subseteq Inserts(calling)
  PROVE  TimersParts'
<1>0. IsInjective(expired) /\ qpc \in {"poll", "handle", "run", "pending", "call", "dead"}
  BY DEF TimersParts, Owners
<1>1. CASE t \notin activeTimers
  <2>1. UNCHANGED heapVars
    BY <1>1 DEF cancelInLoop
  <2> QED BY <1>0, <2>1, HeapSame
<1>2. CASE t \in activeTimers
  <2>1. /\ timers' = timers \ {t} /\ activeTimers' = activeTimers \ {t} /\ fd' = fd
        /\ due' = [due EXCEPT ![t] = 0] /\ interval' = [interval EXCEPT ![t] = 0]
    BY <1>2 DEF cancelInLoop
  <2>2. HeapType /\ Owners /\ ArmedInTime
    BY DEF TimersParts
  <2>3. due' \in Dues /\ \A u \in Timers : u # t => due'[u] = due[u]
    BY <2>1, <2>2, TimerBounds DEF HeapType, Dues
  <2>4. HeapType'
    BY <2>1, <2>2, <2>3, TimerBounds DEF HeapType
  <2>5. timers \subseteq Timers /\ timers' \subseteq timers /\ \A u \in timers' : due'[u] = due[u]
    BY <2>1, <2>2, <2>3 DEF HeapType
  <2>6. Owners'
    BY <2>1, <2>2 DEF Owners
  <2>7. ArmedInTime'
    BY <2>1, <2>2, <2>5 DEF ArmedInTime
  <2>8. \A u \in Inserts(pending') \cup Inserts(calling') : due'[u] >= -MaxLag
    <3> SUFFICES ASSUME NEW u \in Inserts(pending') \cup Inserts(calling')
                 PROVE  due'[u] >= -MaxLag
      OBVIOUS
    <3>1. u \in Timers
      <4>1. pending \in Seq(Functors) /\ calling \in Seq(Functors)
        BY DEF TimersParts, QueueType
      <4> QED BY <4>1, InsertsAre
    <3>2. u \notin timers /\ t \in timers
      BY <1>2, <2>2 DEF Owners
    <3>3. due'[u] = due[u]
      BY <2>3, <3>1, <3>2
    <3> QED BY <3>3 DEF TimersParts
  <2>9. qpc = "run" => \A u \in timers' : due'[u] >= -age
    BY <2>5 DEF TimersParts
  <2>10. qpc # "run" => \A u \in timers' : due'[u] >= -MaxLag \/ fd' = 0
    BY <2>1, <2>5 DEF TimersParts
  <2> QED BY <1>0, <2>4, <2>6, <2>7, <2>8, <2>9, <2>10 DEF TimersParts
<1> QED BY <1>1, <1>2

(* Whatever a callback does with the timers.                                *)
LEMMA UseOwned ==
  ASSUME TimersParts, Use, UNCHANGED <<qpc, expired, age, pending, calling>>, RoundType'
  PROVE  TimersParts'
<1>1. QueueType'
  BY DEF TimersParts, QueueType
<1>2. CASE AddHere
  <2>1. PICK t \in Timers \ Alive, d \in 0 .. MaxDelay, i \in 0 .. MaxDelay :
           /\ insert(t, d)
           /\ due' = [due EXCEPT ![t] = d]
           /\ interval' = [interval EXCEPT ![t] = i]
    BY <1>2 DEF AddHere
  <2>2. t \in Timers \ (timers \cup ToSet(expired)) /\ t \notin Inserts(pending) /\ t \notin Inserts(calling)
    BY QueuedIs DEF Alive
  <2>3. due \in Dues /\ interval \in [Timers -> 0 .. MaxDelay] /\ age \in 0 .. MaxLag
    BY DEF TimersParts, HeapType, RoundType
  <2>4. d \in -MaxLag .. MaxDelay /\ d >= -age /\ d \in -MaxLag - 1 .. MaxDelay
    BY <2>3, TimerBounds
  <2>5. due' \in Dues /\ due'[t] = d /\ \A u \in Timers \ {t} : due'[u] = due[u]
    BY <2>1, <2>3, <2>4 DEF Dues
  <2>6. interval' \in [Timers -> 0 .. MaxDelay]
    BY <2>1, <2>3
  <2> QED BY <1>1, <2>1, <2>2, <2>4, <2>5, <2>6, InsertOwned
<1>3. CASE \E t \in Timers : cancelInLoop(t)
  BY <1>1, <1>3, CancelOwned
<1>4. CASE UNCHANGED heapVars
  <2>1. IsInjective(expired) /\ qpc \in {"poll", "handle", "run", "pending", "call", "dead"}
    BY DEF TimersParts, Owners
  <2> QED BY <1>1, <1>4, <2>1, HeapSame
<1> QED BY <1>2, <1>3, <1>4 DEF Use

-----------------------------------------------------------------------------
(* The steps of the loop thread.                                            *)
(* Poll changes no timer.                                                   *)
LEMMA PollOwned == ASSUME TimersParts, Poll PROVE TimersParts'
<1>1. UNCHANGED <<heapVars, expired, called, age, pending, calling>> /\ qpc' = "handle" /\ qpc = "poll"
  BY DEF Poll
<1>2. active' \subseteq {"timer", "io"}
  BY DEF Poll
<1>3. RoundType' /\ QueueType'
  BY <1>1, <1>2 DEF TimersParts, RoundType, QueueType
<1>4. IsInjective(expired)
  BY DEF TimersParts, Owners
<1> QED BY <1>1, <1>3, <1>4, HeapSame

(* A callback of another channel.                                           *)
LEMMA HandleIoOwned == ASSUME TimersParts, HandleIo PROVE TimersParts'
<1>1. Use /\ active' = active \ {"io"} /\ UNCHANGED <<qpc, expired, called, age, pending, calling>>
  BY DEF HandleIo
<1>2. RoundType'
  BY <1>1 DEF TimersParts, RoundType
<1> QED BY <1>1, <1>2, UseOwned

(* A callback of a timer.                                                   *)
LEMMA RunExpiredOwned == ASSUME TimersParts, RunExpired PROVE TimersParts'
<1>1. /\ Use /\ called' = called + 1 /\ called < Len(expired)
      /\ UNCHANGED <<qpc, active, expired, age, pending, calling>>
  BY DEF RunExpired
<1>2. RoundType /\ Len(expired) \in Nat
  BY ExpiredType DEF TimersParts
<1>3. called' \in 0 .. Len(expired)
  BY <1>1, <1>2 DEF RoundType
<1>4. RoundType'
  BY <1>1, <1>2, <1>3 DEF RoundType
<1> QED BY <1>1, <1>4, UseOwned

(* What has expired changes hands, and what has not is not late.            *)
LEMMA HandleReadOwned == ASSUME TimersParts, HandleRead PROVE TimersParts'
<1> DEFINE E == {t \in timers : due[t] <= 0}
<1>1. /\ qpc = "handle" /\ active' = active \ {"timer"} /\ fd' = (IF fd = 0 THEN Off ELSE fd)
      /\ timers' = timers \ E /\ activeTimers' = activeTimers \ E
      /\ called' = 0 /\ age' = 0 /\ qpc' = "run"
      /\ UNCHANGED <<due, interval, pending, calling>>
  BY DEF HandleRead, ActiveAfter
<1>2. PICK s \in SetToSeqs(E) : expired' = s
  BY DEF HandleRead
<1>3. HeapType /\ RoundType /\ Owners /\ QueueType
  BY DEF TimersParts
<1>4. Cardinality(E) \in Nat
  <2>1. IsFiniteSet(Timers) /\ E \subseteq Timers
    BY <1>3, TimersAssumption DEF HeapType
  <2> QED BY <2>1, FS_Subset, FS_CardinalityType
<1>5. /\ s \in [1 .. Cardinality(E) -> E]
      /\ \A i, j \in 1 .. Cardinality(E) : i # j => s[i] # s[j]
  BY DEF SetToSeqs
<1>6. s \in Seq(Timers) /\ ToSet(s) \subseteq E /\ IsInjective(s)
  <2>1. DOMAIN s = 1 .. Cardinality(E) /\ \A i \in 1 .. Cardinality(E) : s[i] \in E
    BY <1>5
  <2>2. E \subseteq Timers
    BY <1>3 DEF HeapType
  <2>3. s \in [1 .. Cardinality(E) -> Timers]
    BY <1>5, <2>2
  <2> QED BY <1>4, <1>5, <2>1, <2>3, SeqDef DEF ToSet, IsInjective
<1>7. \A t \in timers' : t \in timers /\ due[t] \in Int /\ due[t] > 0
  BY <1>1, <1>3, TimerBounds DEF HeapType, Dues
<1>8. E \subseteq timers
  OBVIOUS
<1> HIDE DEF E
<1>9. HeapType'
  BY <1>1, <1>3, <1>7, TimerBounds DEF HeapType
<1>10. RoundType'
  <2>1. Len(s) \in Nat
    BY <1>6, LenProperties
  <2> QED BY <1>1, <1>2, <1>3, <1>6, <2>1, TimerBounds DEF RoundType
<1>11. QueueType'
  BY <1>1, <1>3 DEF QueueType
<1>12. Owners'
  BY <1>1, <1>2, <1>3, <1>6, <1>8 DEF Owners
<1>13. ArmedInTime'
  BY <1>1 DEF ArmedInTime
<1>14. \A t \in Inserts(pending') \cup Inserts(calling') : due'[t] >= -MaxLag
  BY <1>1 DEF TimersParts
<1>15. \A t \in timers' : due'[t] >= -age'
  BY <1>1, <1>7
<1> QED BY <1>1, <1>9, <1>10, <1>11, <1>12, <1>13, <1>14, <1>15 DEF TimersParts

(* The repeating timers come back, and the timerfd is set to the front.     *)
LEMMA ResetOwned == ASSUME TimersParts, Reset PROVE TimersParts'
<1>1. /\ qpc = "run" /\ qpc' = "handle"
      /\ due' = [t \in Timers |-> IF t \in Repeating THEN interval[t] - age
                                  ELSE IF t \in ToSet(expired) THEN 0 ELSE due[t]]
      /\ interval' = [t \in Timers |->
                        IF t \in ToSet(expired) \ Repeating THEN 0 ELSE interval[t]]
      /\ timers' = timers \cup Repeating /\ activeTimers' = activeTimers \cup Repeating
      /\ fd' = FdAfterReset(timers', due')
      /\ expired' = <<>> /\ called' = 0 /\ age' = 0
      /\ UNCHANGED <<active, pending, calling>>
  BY DEF Reset
<1>2. HeapType /\ RoundType /\ Owners /\ QueueType /\ ToSet(expired) \subseteq Timers
  BY ExpiredType DEF TimersParts
<1>3. Repeating \subseteq ToSet(expired) /\ \A t \in Repeating : interval[t] > 0
  BY DEF Repeating
<1>4. /\ age \in 0 .. MaxLag /\ MaxLag \in Nat /\ MaxDelay \in Nat
      /\ \A t \in Timers : due[t] \in -MaxLag - 1 .. MaxDelay /\ interval[t] \in 0 .. MaxDelay
  BY <1>2, TimerBounds DEF RoundType, HeapType, Dues
<1>5. ASSUME NEW t \in Timers
      PROVE  /\ due'[t] \in -MaxLag - 1 .. MaxDelay
             /\ t \in Repeating => due'[t] >= -MaxLag
             /\ t \notin ToSet(expired) => due'[t] = due[t]
  <2>1. CASE t \in Repeating
    <3>1. due'[t] = interval[t] - age /\ interval[t] > 0 /\ t \in ToSet(expired)
      BY <1>1, <1>3, <2>1
    <3>2. interval[t] \in 0 .. MaxDelay /\ age \in 0 .. MaxLag
      BY <1>4
    <3> QED BY <1>4, <3>1, <3>2
  <2>2. CASE t \notin Repeating /\ t \in ToSet(expired)
    BY <1>1, <1>4, <2>2
  <2>3. CASE t \notin Repeating /\ t \notin ToSet(expired)
    BY <1>1, <1>4, <2>3
  <2> QED BY <1>3, <2>1, <2>2, <2>3
<1>6. due' \in Dues /\ timers' \subseteq Timers
  <2>1. due' \in [Timers -> -MaxLag - 1 .. MaxDelay]
    BY <1>1, <1>5
  <2> QED BY <1>1, <1>2, <1>3, <2>1 DEF Dues, HeapType
<1>7. interval' \in [Timers -> 0 .. MaxDelay]
  BY <1>1, <1>4
<1>8. /\ fd' \in 0 .. Off
      /\ timers' # {} => fd' # Off /\ \A t \in timers' : fd' <= due'[t] \/ fd' <= 1
  <2>1. CASE timers' = {}
    BY <1>1, <1>2, <2>1 DEF FdAfterReset, HeapType
  <2>2. CASE timers' # {}
    <3>1. PICK e \in timers' : e = Earliest(timers', due') /\ \A u \in timers' : due'[e] <= due'[u]
      BY <1>6, <2>2, EarliestIs
    <3>2. fd' = Armed(due'[e])
      BY <1>1, <2>2, <3>1 DEF FdAfterReset
    <3>3. \A u \in timers' : due'[u] \in -MaxLag - 1 .. MaxDelay
      BY <1>5, <1>6
    <3>4. fd' \in 1 .. MaxDelay /\ (fd' <= due'[e] \/ fd' <= 1)
      BY <3>2, <3>3, TimerBounds DEF Armed
    <3> QED BY <3>1, <3>3, <3>4, TimerBounds
  <2> QED BY <2>1, <2>2
<1>9. HeapType'
  BY <1>6, <1>7, <1>8 DEF HeapType
<1>10. RoundType' /\ IsInjective(expired') /\ ToSet(expired') = {}
  <2>1. <<>> \in Seq(Timers) /\ Len(<<>>) = 0 /\ ToSet(<<>>) = {} /\ IsInjective(<<>>)
    <3>1. <<>> \in Seq(Timers) /\ Len(<<>>) = 0
      BY EmptySeq
    <3>2. ToSet(<<>>) = {} /\ IsInjective(<<>>)
      BY DEF ToSet, IsInjective
    <3> QED BY <3>1, <3>2
  <2> QED BY <1>1, <1>2, <2>1, TimerBounds DEF RoundType
<1>11. QueueType'
  BY <1>1, <1>2 DEF QueueType
<1>12. Owners'
  BY <1>1, <1>2, <1>3, <1>10 DEF Owners
<1>13. ArmedInTime'
  BY <1>8 DEF ArmedInTime
<1>14. \A t \in Inserts(pending') \cup Inserts(calling') : due'[t] >= -MaxLag
  <2> SUFFICES ASSUME NEW t \in Inserts(pending) \cup Inserts(calling) PROVE due'[t] >= -MaxLag
    BY <1>1
  <2>1. t \in Timers /\ t \notin ToSet(expired)
    BY <1>2, InsertsAre DEF QueueType, Owners
  <2> QED BY <1>5, <2>1 DEF TimersParts
<1>15. \A t \in timers' : due'[t] >= -MaxLag
  <2> SUFFICES ASSUME NEW t \in timers' PROVE due'[t] >= -MaxLag
    OBVIOUS
  <2>1. CASE t \in Repeating
    BY <1>5, <1>6, <2>1
  <2>2. CASE t \notin Repeating
    <3>1. t \in timers /\ t \notin ToSet(expired) /\ t \in Timers
      BY <1>1, <1>2, <1>6, <2>2 DEF Owners
    <3>2. due'[t] = due[t] /\ due[t] >= -age
      BY <1>1, <1>5, <3>1 DEF TimersParts
    <3>3. due[t] \in Int /\ age \in 0 .. MaxLag /\ MaxLag \in Nat
      BY <1>4, <3>1
    <3> QED BY <3>2, <3>3
  <2> QED BY <2>1, <2>2
<1> QED BY <1>1, <1>9, <1>10, <1>11, <1>12, <1>13, <1>14, <1>15 DEF TimersParts

(* The end of the round.                                                   *)
LEMMA HandledOwned == ASSUME TimersParts, Handled PROVE TimersParts'
<1>1. UNCHANGED <<heapVars, roundVars, pending, calling>> /\ qpc' = "pending" /\ qpc = "handle"
  BY DEF Handled
<1>2. RoundType' /\ QueueType' /\ IsInjective(expired)
  BY <1>1 DEF TimersParts, RoundType, QueueType, Owners, roundVars
<1> QED BY <1>1, <1>2, HeapSame DEF roundVars

(* The queue changes its name.                                              *)
LEMMA SwapOwned == ASSUME TimersParts, Swap PROVE TimersParts'
<1>1. /\ UNCHANGED <<heapVars, roundVars>> /\ calling' = pending /\ pending' = <<>>
      /\ qpc = "pending" /\ qpc' = "call"
  BY DEF Swap
<1>2. RoundType' /\ IsInjective(expired)
  BY <1>1 DEF TimersParts, RoundType, Owners, roundVars
<1>3. QueueType'
  BY <1>1, EmptyQueue DEF TimersParts, QueueType
<1> QED BY <1>1, <1>2, <1>3, EmptyQueue, HeapSame DEF roundVars

(* A functor is called once, and its timer changes hands.                   *)
LEMMA CallFunctorOwned == ASSUME TimersParts, CallFunctor PROVE TimersParts'
<1>1. /\ qpc = "call" /\ UNCHANGED <<roundVars, pending>>
      /\ HeapType /\ RoundType /\ QueueType /\ Owners
      /\ qpc \in {"poll", "handle", "run", "pending", "call", "dead"}
  BY DEF CallFunctor, TimersParts
<1>2. RoundType' /\ UNCHANGED <<expired, age>> /\ IsInjective(expired)
  BY <1>1 DEF RoundType, Owners, roundVars
<1>3. CASE calling = <<>>
  <2>1. qpc' = "poll" /\ UNCHANGED <<heapVars, calling>>
    BY <1>3 DEF CallFunctor
  <2>2. QueueType'
    BY <1>1, <2>1 DEF QueueType
  <2> QED BY <1>1, <1>2, <2>1, <2>2, HeapSame
<1>4. CASE calling # <<>>
  <2>1. PICK f : f = Head(calling) /\ Call(f) /\ calling' = Tail(calling) /\ UNCHANGED qpc
    BY <1>4 DEF CallFunctor
  <2>2. /\ calling' \in Seq(Functors) /\ f \in Functors
        /\ f \in ToSet(calling) /\ Inserts(calling') \subseteq Inserts(calling)
        /\ Once(calling') /\ (f.op = "insert" => f.timer \notin Inserts(calling'))
    BY <1>1, <1>4, <2>1, TailDrops DEF QueueType
  <2>3. QueueType'
    BY <1>1, <2>2 DEF QueueType
  <2>4. f.timer \in Timers /\ f.op \in {"insert", "cancel"}
    BY <2>2 DEF Functors
  <2>5. CASE f.op = "insert"
    <3>1. insert(f.timer, due[f.timer]) /\ UNCHANGED <<due, interval>>
      BY <2>1, <2>5 DEF Call
    <3>2. f.timer \in Inserts(calling)
      BY <2>2, <2>5 DEF Inserts
    <3>3. /\ f.timer \in Timers \ (timers \cup ToSet(expired))
          /\ f.timer \notin Inserts(pending') /\ f.timer \notin Inserts(calling')
      BY <1>1, <2>2, <2>4, <2>5, <3>2 DEF Owners, QueueType
    <3>4. due[f.timer] \in -MaxLag .. MaxDelay
      <4>1. due[f.timer] \in -MaxLag - 1 .. MaxDelay
        BY <1>1, <2>4 DEF HeapType, Dues
      <4>2. due[f.timer] >= -MaxLag
        BY <3>2 DEF TimersParts
      <4> QED BY <4>1, <4>2, TimerBounds
    <3>5. due' \in Dues /\ interval' \in [Timers -> 0 .. MaxDelay]
      BY <1>1, <3>1 DEF HeapType
    <3>6. Inserts(pending') \subseteq Inserts(pending)
      BY <1>1
    <3> QED BY <1>1, <1>2, <2>1, <2>2, <2>3, <3>1, <3>3, <3>4, <3>5, <3>6, InsertOwned
  <2>6. CASE f.op = "cancel"
    <3>1. cancelInLoop(f.timer)
      BY <2>1, <2>6 DEF Call
    <3> QED BY <1>1, <1>2, <2>1, <2>2, <2>3, <2>4, <3>1, CancelOwned
  <2> QED BY <2>4, <2>5, <2>6
<1> QED BY <1>3, <1>4

(* The destructor leaves no timer behind but those that leak in a functor.  *)
LEMMA DestroyTimersOwned == ASSUME TimersParts, DestroyTimers PROVE TimersParts'
<1>1. /\ timers' = {} /\ activeTimers' = {} /\ pending' = <<>>
      /\ due' = [t \in Timers |-> 0] /\ interval' = [t \in Timers |-> 0]
      /\ fd' = Off /\ qpc' = "dead" /\ UNCHANGED <<roundVars, calling>>
  BY DEF DestroyTimers
<1>2. RoundType /\ QueueType /\ Owners
  BY DEF TimersParts
<1>3. HeapType'
  BY <1>1, TimerBounds DEF HeapType, Dues
<1>4. RoundType'
  BY <1>1, <1>2 DEF RoundType, roundVars
<1>5. QueueType' /\ Inserts(pending') = {}
  BY <1>1, <1>2, EmptyQueue DEF QueueType
<1>6. Owners' /\ ArmedInTime'
  BY <1>1, <1>2, <1>5 DEF Owners, ArmedInTime, roundVars
<1>7. \A t \in Inserts(pending') \cup Inserts(calling') : due'[t] >= -MaxLag
  <2> SUFFICES ASSUME NEW t \in Inserts(calling) PROVE due'[t] >= -MaxLag
    BY <1>1, <1>5
  <2>1. t \in Timers
    BY <1>2, InsertsAre DEF QueueType
  <2> QED BY <1>1, <2>1, TimerBounds
<1> QED BY <1>1, <1>3, <1>4, <1>5, <1>6, <1>7 DEF TimersParts

-----------------------------------------------------------------------------
(* The steps of the other threads, and of time.                             *)
(* The new timer is nobody's: its functor owns it.                          *)
LEMMA AddElsewhereOwned == ASSUME TimersParts, AddElsewhere PROVE TimersParts'
<1>1. PICK t \in Timers \ Alive, d \in 0 .. MaxDelay, i \in 0 .. MaxDelay :
         /\ due' = [due EXCEPT ![t] = d]
         /\ interval' = [interval EXCEPT ![t] = i]
         /\ pending' = Append(pending, [op |-> "insert", timer |-> t])
  BY DEF AddElsewhere
<1>2. UNCHANGED <<timers, activeTimers, fd, roundVars, qpc, calling>>
  BY DEF AddElsewhere
<1>3. HeapType /\ RoundType /\ QueueType /\ Owners /\ ArmedInTime
  BY DEF TimersParts
<1>4. t \notin timers /\ t \notin ToSet(expired) /\ t \notin Inserts(pending) /\ t \notin Inserts(calling)
  BY QueuedIs DEF Alive
<1>5. PICK f : f = [op |-> "insert", timer |-> t]
  OBVIOUS
<1>6. f \in Functors /\ f.op = "insert" /\ f.timer = t
  BY <1>5 DEF Functors
<1>7. /\ pending' \in Seq(Functors) /\ Once(pending')
      /\ Inserts(pending') = Inserts(pending) \cup {t}
  BY <1>1, <1>3, <1>4, <1>5, <1>6, AppendAdds DEF QueueType
<1>8. due' \in Dues /\ due'[t] = d /\ \A u \in Timers \ {t} : due'[u] = due[u]
  <2>1. d \in -MaxLag - 1 .. MaxDelay
    BY TimerBounds
  <2> QED BY <1>1, <1>3, <2>1 DEF HeapType, Dues
<1>9. HeapType'
  BY <1>1, <1>2, <1>3, <1>8 DEF HeapType
<1>10. RoundType' /\ QueueType'
  BY <1>2, <1>3, <1>4, <1>7 DEF RoundType, QueueType, roundVars
<1>11. Owners'
  BY <1>2, <1>3, <1>4, <1>7 DEF Owners, roundVars
<1>12. \A u \in timers : u \in Timers \ {t} /\ due'[u] = due[u]
  BY <1>3, <1>4, <1>8 DEF HeapType
<1>13. ArmedInTime'
  BY <1>2, <1>3, <1>12 DEF ArmedInTime
<1>14. \A u \in Inserts(pending') \cup Inserts(calling') : due'[u] >= -MaxLag
  <2> SUFFICES ASSUME NEW u \in Inserts(pending') \cup Inserts(calling') PROVE due'[u] >= -MaxLag
    OBVIOUS
  <2>1. CASE u = t
    BY <1>8, <2>1, TimerBounds
  <2>2. CASE u # t
    <3>1. u \in Inserts(pending) \cup Inserts(calling) /\ u \in Timers
      BY <1>2, <1>3, <1>7, <2>2, InsertsAre DEF QueueType
    <3> QED BY <1>8, <2>2, <3>1 DEF TimersParts
  <2> QED BY <2>1, <2>2
<1>15. UNCHANGED <<qpc, timers, age, fd>>
  BY <1>2 DEF roundVars
<1>16. qpc' = "run" => \A u \in timers' : due'[u] >= -age'
  BY <1>12, <1>15 DEF TimersParts
<1>17. qpc' # "run" => \A u \in timers' : due'[u] >= -MaxLag \/ fd' = 0
  BY <1>12, <1>15 DEF TimersParts
<1> QED BY <1>9, <1>10, <1>11, <1>13, <1>14, <1>15, <1>16, <1>17 DEF TimersParts

(* A functor that cancels owns nothing.                                     *)
LEMMA CancelElsewhereOwned == ASSUME TimersParts, CancelElsewhere PROVE TimersParts'
<1>1. PICK t \in Timers : pending' = Append(pending, [op |-> "cancel", timer |-> t])
  BY DEF CancelElsewhere
<1>2. UNCHANGED <<heapVars, roundVars, qpc, calling>>
  BY DEF CancelElsewhere
<1>3. RoundType /\ QueueType /\ Owners /\ qpc \in {"poll", "handle", "run", "pending", "call", "dead"}
  BY DEF TimersParts
<1>4. PICK f : f = [op |-> "cancel", timer |-> t]
  OBVIOUS
<1>5. f \in Functors /\ f.op = "cancel"
  BY <1>4 DEF Functors
<1>6. pending' \in Seq(Functors) /\ Once(pending') /\ Inserts(pending') = Inserts(pending)
  BY <1>1, <1>3, <1>4, <1>5, AppendAdds DEF QueueType
<1>7. RoundType' /\ QueueType' /\ IsInjective(expired)
  BY <1>2, <1>3, <1>6 DEF RoundType, QueueType, Owners, roundVars
<1> QED BY <1>2, <1>3, <1>6, <1>7, HeapSame DEF roundVars

(* The guard keeps the thread from being later than it is.                  *)
LEMMA TimePassesOwned == ASSUME TimersParts, TimePasses PROVE TimersParts'
<1>1. /\ \A t \in Waiting : InTime(t)
      /\ qpc = "run" => age < MaxLag
      /\ due' = [t \in Timers |-> IF t \in Waiting THEN due[t] - 1 ELSE due[t]]
      /\ fd' = IF fd \in {0, Off} THEN fd ELSE fd - 1
      /\ age' = IF qpc = "run" THEN age + 1 ELSE age
      /\ UNCHANGED <<timers, activeTimers, interval, active, expired, called, qpc,
                     pending, calling>>
  BY DEF TimePasses
<1>2. HeapType /\ RoundType /\ QueueType /\ Owners /\ ArmedInTime
  BY DEF TimersParts
<1>3. Waiting = timers \cup Inserts(pending) \cup Inserts(calling) /\ Waiting \subseteq Timers
  BY <1>2, QueuedIs, InsertsAre DEF Waiting, QueueType, HeapType
<1>4. /\ MaxLag \in Nat /\ MaxLag >= 1 /\ MaxDelay \in Nat /\ Off = MaxDelay + 1
      /\ age \in 0 .. MaxLag /\ fd \in 0 .. Off
      /\ \A t \in Timers : due[t] \in -MaxLag - 1 .. MaxDelay
  BY <1>2, TimerBounds DEF HeapType, RoundType, Dues
<1>5. age' \in 0 .. MaxLag /\ fd' \in 0 .. Off
  BY <1>1, <1>4
<1>6. ASSUME NEW t \in timers
      PROVE  /\ due'[t] = due[t] - 1 /\ due[t] \in -MaxLag .. MaxDelay
             /\ due[t] > -MaxLag \/ fd \notin {0, Off}
  <2>1. t \in Timers /\ t \in Waiting /\ InTime(t)
    BY <1>1, <1>3
  <2>2. due'[t] = due[t] - 1 /\ (due[t] > -MaxLag \/ fd \notin {0, Off})
    BY <1>1, <2>1 DEF InTime
  <2>3. due[t] >= -MaxLag
    <3>1. CASE qpc = "run"
      <4>1. due[t] >= -age
        BY <3>1 DEF TimersParts
      <4> QED BY <1>4, <2>1, <4>1
    <3>2. CASE qpc # "run"
      <4>1. due[t] >= -MaxLag \/ fd = 0
        BY <3>2 DEF TimersParts
      <4> QED BY <1>4, <2>1, <2>2, <4>1
    <3> QED BY <3>1, <3>2
  <2> QED BY <1>4, <2>1, <2>2, <2>3
<1>7. ASSUME NEW t \in Inserts(pending) \cup Inserts(calling)
      PROVE  due'[t] = due[t] - 1 /\ due[t] > -MaxLag
  <2>1. t \in Timers /\ t \in Waiting /\ InTime(t) /\ t \notin timers
    BY <1>1, <1>2, <1>3 DEF Owners
  <2> QED BY <1>1, <2>1 DEF InTime
<1>8. due' \in Dues
  <2>1. ASSUME NEW t \in Timers PROVE due'[t] \in -MaxLag - 1 .. MaxDelay
    <3>1. CASE t \in timers
      BY <1>4, <1>6, <3>1
    <3>2. CASE t \in Inserts(pending) \cup Inserts(calling)
      <4>1. due'[t] = due[t] - 1 /\ due[t] > -MaxLag
        BY <1>7, <3>2
      <4> QED BY <1>4, <4>1
    <3>3. CASE t \notin Waiting
      BY <1>1, <1>4, <3>3
    <3> QED BY <1>3, <3>1, <3>2, <3>3
  <2> QED BY <1>1, <2>1 DEF Dues
<1>9. HeapType'
  BY <1>1, <1>2, <1>5, <1>8 DEF HeapType
<1>10. RoundType' /\ QueueType'
  BY <1>1, <1>2, <1>5 DEF RoundType, QueueType
<1>11. Owners'
  BY <1>1, <1>2 DEF Owners
<1>12. ArmedInTime'
  <2> SUFFICES ASSUME qpc # "run", NEW t \in timers
               PROVE  fd' # Off /\ (fd' <= due'[t] \/ fd' <= 1)
    BY <1>1 DEF ArmedInTime
  <2>1. fd # Off /\ (fd <= due[t] \/ fd <= 1)
    BY <1>2 DEF ArmedInTime
  <2>2. due'[t] = due[t] - 1 /\ due[t] \in Int
    BY <1>4, <1>6
  <2>3. CASE fd = 0
    BY <1>1, <1>4, <2>3
  <2>4. CASE fd # 0
    <3>1. fd' = fd - 1
      BY <1>1, <2>1, <2>4
    <3> QED BY <1>4, <2>1, <2>2, <3>1
  <2> QED BY <2>3, <2>4
<1>13. \A t \in Inserts(pending') \cup Inserts(calling') : due'[t] >= -MaxLag
  <2> SUFFICES ASSUME NEW t \in Inserts(pending) \cup Inserts(calling) PROVE due'[t] >= -MaxLag
    BY <1>1
  <2>1. due'[t] = due[t] - 1 /\ due[t] > -MaxLag /\ t \in Timers
    BY <1>3, <1>7
  <2> QED BY <1>4, <2>1
<1>14. qpc' = "run" => \A t \in timers' : due'[t] >= -age'
  <2> SUFFICES ASSUME qpc = "run", NEW t \in timers PROVE due'[t] >= -age'
    BY <1>1
  <2>1. due[t] >= -age /\ age' = age + 1
    BY <1>1 DEF TimersParts
  <2> QED BY <1>4, <1>6, <2>1
<1>15. qpc' # "run" => \A t \in timers' : due'[t] >= -MaxLag \/ fd' = 0
  <2> SUFFICES ASSUME qpc # "run", NEW t \in timers, ~ (due'[t] >= -MaxLag) PROVE fd' = 0
    BY <1>1
  <2>1. due[t] = -MaxLag /\ fd \notin {0, Off}
    BY <1>4, <1>6
  <2>2. fd <= due[t] \/ fd <= 1
    BY <1>2 DEF ArmedInTime
  <2>3. fd = 1
    BY <1>4, <2>1, <2>2
  <2> QED BY <1>1, <2>1, <2>3
<1>16. qpc' \in {"poll", "handle", "run", "pending", "call", "dead"}
  BY <1>1 DEF TimersParts
<1> QED BY <1>9, <1>10, <1>11, <1>12, <1>13, <1>14, <1>15, <1>16 DEF TimersParts

-----------------------------------------------------------------------------
(* No timer yet.                                                            *)
LEMMA TimersInitInv == TimersInit => TimersInv
<1> SUFFICES ASSUME TimersInit PROVE TimersParts
  BY TimersPartsInv
<1>1. HeapType
  BY TimerBounds DEF TimersInit, HeapType, Dues
<1>2. RoundType /\ IsInjective(expired) /\ ToSet(expired) = {}
  <2>1. <<>> \in Seq(Timers) /\ Len(<<>>) = 0 /\ ToSet(<<>>) = {} /\ IsInjective(<<>>)
    <3>1. <<>> \in Seq(Timers) /\ Len(<<>>) = 0
      BY EmptySeq
    <3>2. ToSet(<<>>) = {} /\ IsInjective(<<>>)
      BY DEF ToSet, IsInjective
    <3> QED BY <3>1, <3>2
  <2> QED BY <2>1, TimerBounds DEF TimersInit, RoundType
<1>3. QueueType /\ Inserts(pending) = {} /\ Inserts(calling) = {}
  BY EmptyQueue DEF TimersInit, QueueType
<1> QED BY <1>1, <1>2, <1>3 DEF TimersInit, TimersParts, Owners, ArmedInTime

(* Every step keeps the parts, and so the invariant.                        *)
LEMMA TimersNextParts == ASSUME TimersParts, [TimersNext]_timerVars PROVE TimersParts'
<1>1. CASE LoopStep
  BY <1>1, PollOwned, HandleIoOwned, HandleReadOwned, RunExpiredOwned, ResetOwned,
     HandledOwned, SwapOwned, CallFunctorOwned DEF LoopStep
<1>2. CASE DestroyTimers
  BY <1>2, DestroyTimersOwned
<1>3. CASE AddElsewhere
  BY <1>3, AddElsewhereOwned
<1>4. CASE CancelElsewhere
  BY <1>4, CancelElsewhereOwned
<1>5. CASE TimePasses
  BY <1>5, TimePassesOwned
<1>6. CASE UNCHANGED timerVars
  <2>1. RoundType' /\ QueueType' /\ IsInjective(expired)
    BY <1>6 DEF TimersParts, RoundType, QueueType, Owners, timerVars, roundVars
  <2>2. qpc \in {"poll", "handle", "run", "pending", "call", "dead"}
    BY DEF TimersParts
  <2> QED BY <1>6, <2>1, <2>2, HeapSame DEF timerVars, roundVars
<1> QED BY <1>1, <1>2, <1>3, <1>4, <1>5, <1>6 DEF TimersNext

(* The same of the invariant.                                               *)
LEMMA TimersNextInv == TimersInv /\ [TimersNext]_timerVars => TimersInv'
<1>1. (TimersInv <=> TimersParts)'
  BY TimersPartsInv, PTL
<1> QED BY <1>1, TimersPartsInv, TimersNextParts

(* The invariant holds of every state the timers reach.                     *)
THEOREM TimersInvariance == TimersSpec => []TimersInv
BY TimersInitInv, TimersNextInv, PTL DEF TimersSpec

(* No timer is more than MaxLag + 1 ticks late, and the heap, the queues    *)
(* and what handleRead holds are timers.                                    *)
THEOREM TimersTypeCorrect == TimersSpec => []TimersTypeOK
<1>1. TimersInv => TimersTypeOK
  BY DEF TimersInv
<1> QED BY <1>1, TimersInvariance, PTL

(* While there is a timer the timerfd is set, and in time for the earliest. *)
THEOREM TimerfdArmedInTime == TimersSpec => []ArmedInTime
<1>1. TimersInv => ArmedInTime
  BY DEF TimersInv
<1> QED BY <1>1, TimersInvariance, PTL

(* Every timer has one owner, so none is deleted twice or used after it.    *)
THEOREM TimersHaveOneOwner == TimersSpec => []OneOwner
<1>1. TimersInv => OneOwner
  BY DEF TimersInv
<1> QED BY <1>1, TimersInvariance, PTL

-----------------------------------------------------------------------------
(* The timer list.                                                         *)

(* Who owns a node, and where a node may be, also when a call has raced.    *)
OwnNodes ==
    /\ \A n \in alive : owner[n] \in Clients
    /\ \A c \in Clients : timer[c] # Null =>
          timer[c] \in alive /\ owner[timer[c]] = c /\ timer[c] \notin ToSet(batch)
    /\ \A c \in Clients : cpc[c] # "idle" =>
          node[c] \in Nodes /\ (node[c] \in alive => owner[node[c]] = c)

Apart ==
    /\ IsInjective(batch)
    /\ ToSet(batch) \cap Listed = {}
    /\ \A c \in Clients : cpc[c] = "add" => node[c] \notin Listed \cup ToSet(batch)
    /\ raced \/ \A c \in Clients : cpc[c] # "idle" => node[c] \notin ToSet(batch)

ListInv == ListTypeOK /\ ListIntact /\ InOrder /\ NoDangling /\ OwnNodes /\ Apart

-----------------------------------------------------------------------------
(* The links.                                                               *)

(* l links the m nodes of s and no others.                                  *)
Chain(l, s, m) ==
    /\ l \in [head : Pointer, tail : Pointer, prev : [Nodes -> Pointer], next : [Nodes -> Pointer]]
    /\ m \in Nat /\ s \in [1..m -> Nodes]
    /\ \A i, j \in 1..m : s[i] = s[j] => i = j
    /\ l.head = IF m = 0 THEN Null ELSE s[1]
    /\ l.tail = IF m = 0 THEN Null ELSE s[m]
    /\ \A i \in 1..m : /\ l.prev[s[i]] = IF i = 1 THEN Null ELSE s[i - 1]
                       /\ l.next[s[i]] = IF i = m THEN Null ELSE s[i + 1]
    /\ \A n \in Nodes : (\A i \in 1..m : s[i] # n) => l.prev[n] = Null /\ l.next[n] = Null

(* The orders are the sequences of different nodes.                         *)
LEMMA OrdersAre ==
  /\ \A s \in Orders : \E m \in Nat :
        s \in [1..m -> Nodes] /\ \A i, j \in 1..m : s[i] = s[j] => i = j
  /\ \A m \in Nat : \A s \in [1..m -> Nodes] :
        (\A i, j \in 1..m : s[i] = s[j] => i = j) => s \in Orders
<1>1. ASSUME NEW s \in Orders
      PROVE  \E m \in Nat : s \in [1..m -> Nodes] /\ \A i, j \in 1..m : s[i] = s[j] => i = j
  <2>1. PICK S \in SUBSET Nodes : s \in SetToSeqs(S)
    BY DEF Orders
  <2>2. Cardinality(S) \in Nat
    BY ListAssumption, FS_Subset, FS_CardinalityType
  <2>3. /\ s \in [1..Cardinality(S) -> S]
        /\ \A i, j \in 1..Cardinality(S) : i # j => s[i] # s[j]
    BY <2>1 DEF SetToSeqs
  <2>4. s \in [1..Cardinality(S) -> Nodes]
    BY <2>3
  <2> QED BY <2>2, <2>3, <2>4
<1>2. ASSUME NEW m \in Nat, NEW s \in [1..m -> Nodes],
             \A i, j \in 1..m : s[i] = s[j] => i = j
      PROVE  s \in Orders
  <2> DEFINE S == {s[i] : i \in 1..m}
  <2>1. s \in Bijection(1..m, S)
    BY <1>2 DEF Bijection, Injection, Surjection, IsInjective
  <2>2. ExistsBijection(1..m, S)
    BY <2>1 DEF ExistsBijection
  <2>3. Cardinality(S) = m
    BY <2>2, FS_CountingElements
  <2>4. S \in SUBSET Nodes /\ s \in [1..m -> S]
    OBVIOUS
  <2>5. s \in SetToSeqs(S)
    BY <1>2, <2>3, <2>4 DEF SetToSeqs
  <2> QED BY <2>4, <2>5 DEF Orders
<1> QED BY <1>1, <1>2

(* A function on 1..m is a sequence.                                        *)
LEMMA Listing ==
  ASSUME NEW m \in Nat, NEW s \in [1..m -> Nodes]
  PROVE  s \in Seq(Nodes) /\ Len(s) = m /\ (s = <<>> <=> m = 0)
         /\ ToSet(s) = {s[i] : i \in 1..m}
<1>1. s \in Seq(Nodes)
  BY SeqDef
<1>2. DOMAIN s = 1..Len(s) /\ Len(s) \in Nat
  BY <1>1, LenProperties
<1>3. Len(s) = m
  BY <1>2
<1>4. s = <<>> <=> m = 0
  BY <1>1, <1>3, EmptySeq
<1> QED BY <1>1, <1>2, <1>3, <1>4 DEF ToSet

(* Walking l forwards gives the n nodes of t.                               *)
Walk(l, t, n) ==
    /\ n \in Nat /\ t \in [1..n -> Nodes]
    /\ l.head = IF n = 0 THEN Null ELSE t[1]
    /\ \A i \in 1..n : l.next[t[i]] = IF i = n THEN Null ELSE t[i + 1]

(* The nodes of a list come in one order only.                              *)
LEMMA ChainUnique ==
  ASSUME NEW l, NEW s, NEW m, Chain(l, s, m), NEW t, NEW n, Walk(l, t, n)
  PROVE  n = m /\ t = s
<1>1. /\ Null \notin Nodes /\ m \in Nat /\ n \in Nat /\ t \in [1..n -> Nodes]
      /\ l.head = IF n = 0 THEN Null ELSE t[1]
      /\ \A i \in 1..n : l.next[t[i]] = IF i = n THEN Null ELSE t[i + 1]
  BY ListAssumption DEF Chain, Walk
<1>2. /\ s \in [1..m -> Nodes] /\ l.head = IF m = 0 THEN Null ELSE s[1]
      /\ \A i \in 1..m : l.next[s[i]] = IF i = m THEN Null ELSE s[i + 1]
  BY DEF Chain
<1>3. \A i \in 1..m : i \in 1..n /\ t[i] = s[i]
  <2> DEFINE T == {i \in 1..m : ~(i \in 1..n /\ t[i] = s[i])}
  <2>1. SUFFICES T = {}
    OBVIOUS
  <2>2. SUFFICES ASSUME T # {} PROVE FALSE
    OBVIOUS
  <2>3. PICK k \in T : \A j \in T : k <= j
    <3>1. T \subseteq Nat
      OBVIOUS
    <3> HIDE DEF T
    <3> QED BY <2>2, <3>1, LeastNat
  <2>4. k \in 1..m /\ ~(k \in 1..n /\ t[k] = s[k])
    OBVIOUS
  <2>5. CASE k = 1
    BY <1>1, <1>2, <2>4, <2>5
  <2>6. CASE k # 1
    <3>1. k - 1 \in 1..m /\ ~(k <= k - 1)
      BY <1>1, <2>4, <2>6
    <3>2. k - 1 \in 1..n /\ t[k - 1] = s[k - 1]
      BY <2>3, <3>1
    <3>3. l.next[s[k - 1]] = s[k] /\ s[k] \in Nodes
      <4>1. k - 1 # m /\ (k - 1) + 1 = k
        BY <2>4
      <4> QED BY <1>2, <2>4, <3>1, <4>1
    <3>4. l.next[t[k - 1]] = IF k - 1 = n THEN Null ELSE t[k]
      <4>1. (k - 1) + 1 = k
        BY <2>4
      <4> QED BY <1>1, <3>2, <4>1
    <3>5. k - 1 # n /\ t[k] = s[k]
      BY <1>1, <3>2, <3>3, <3>4
    <3> QED BY <1>1, <2>4, <3>2, <3>5
  <2> QED BY <2>5, <2>6
<1>4. n = m
  <2>1. CASE m = 0
    BY <1>1, <1>2, <2>1
  <2>2. CASE m # 0
    <3>1. m \in 1..m /\ m \in 1..n /\ t[m] = s[m]
      BY <1>1, <1>3, <2>2
    <3>2. l.next[t[m]] = Null
      BY <1>2, <3>1
    <3>3. ASSUME m # n PROVE FALSE
      <4>1. m + 1 \in 1..n
        BY <1>1, <3>1, <3>3
      <4>2. l.next[t[m]] = t[m + 1] /\ t[m + 1] \in Nodes
        BY <1>1, <3>1, <3>3, <4>1
      <4> QED BY <1>1, <3>2, <4>2
    <3> QED BY <3>3
  <2> QED BY <2>1, <2>2
<1> QED BY <1>1, <1>2, <1>3, <1>4

(* Order finds the nodes of a list.                                         *)
LEMMA OrderIs ==
  ASSUME NEW l, NEW s, NEW m, Chain(l, s, m)
  PROVE  /\ Order(l) = s /\ s \in Orders /\ Links(l, s)
         /\ Len(s) = m /\ s \in Seq(Nodes) /\ (s = <<>> <=> m = 0)
         /\ ToSet(s) = {s[i] : i \in 1..m}
<1>1. m \in Nat /\ s \in [1..m -> Nodes] /\ \A i, j \in 1..m : s[i] = s[j] => i = j
  BY DEF Chain
<1>2. s \in Seq(Nodes) /\ Len(s) = m /\ (s = <<>> <=> m = 0) /\ ToSet(s) = {s[i] : i \in 1..m}
  BY <1>1, Listing
<1>3. s \in Orders
  BY <1>1, OrdersAre
<1>4. Links(l, s)
  BY <1>2 DEF Links, Chain
<1>5. ASSUME NEW t \in Orders, Links(l, t) PROVE t = s
  <2>1. PICK n \in Nat : t \in [1..n -> Nodes]
    BY OrdersAre, Zenon
  <2>2. Len(t) = n /\ (t = <<>> <=> n = 0)
    BY <2>1, Listing
  <2>3. Walk(l, t, n)
    BY <1>5, <2>1, <2>2 DEF Links, Walk
  <2> QED BY <2>3, ChainUnique
<1>6. Order(l) = s
  BY <1>3, <1>4, <1>5 DEF Order
<1> QED BY <1>2, <1>3, <1>4, <1>6

(* What a node does not share with s.                                       *)
Outside(n, s, m) == \A i \in 1..m : s[i] # n

(* s with n at place k.                                                     *)
With(s, m, k, n) ==
    [i \in 1..(m + 1) |-> IF i < k THEN s[i] ELSE IF i = k THEN n ELSE s[i - 1]]

(* r is l with n linked between its neighbours at place k.                  *)
LinkedAt(r, l, s, m, k, n) ==
    /\ r \in [head : Pointer, tail : Pointer, prev : [Nodes -> Pointer], next : [Nodes -> Pointer]]
    /\ k \in 1..(m + 1)
    /\ r.head = IF k = 1 THEN n ELSE l.head
    /\ r.tail = IF k = m + 1 THEN n ELSE l.tail
    /\ r.prev[n] = IF k = 1 THEN Null ELSE s[k - 1]
    /\ r.next[n] = IF k = m + 1 THEN Null ELSE s[k]
    /\ k # m + 1 => r.prev[s[k]] = n
    /\ k # 1 => r.next[s[k - 1]] = n
    /\ \A x \in Nodes \ {n} : (k # m + 1 => x # s[k]) => r.prev[x] = l.prev[x]
    /\ \A x \in Nodes \ {n} : (k # 1 => x # s[k - 1]) => r.next[x] = l.next[x]

(* Linking a node that is not in the list puts it at place k.               *)
LEMMA LinkedChain ==
  ASSUME NEW l, NEW s, NEW m, Chain(l, s, m), NEW n \in Nodes, Outside(n, s, m),
         NEW k, NEW r, LinkedAt(r, l, s, m, k, n)
  PROVE  Chain(r, With(s, m, k, n), m + 1)
<1> DEFINE t == With(s, m, k, n)
<1>1. /\ m \in Nat /\ s \in [1..m -> Nodes] /\ k \in 1..(m + 1)
      /\ \A i, j \in 1..m : s[i] = s[j] => i = j
      /\ \A i \in 1..m : s[i] # n
  BY DEF Chain, LinkedAt, Outside
<1>2. /\ t \in [1..(m + 1) -> Nodes] /\ m + 1 \in Nat
      /\ \A i \in 1..(k - 1) : i \in 1..m /\ i \in 1..(m + 1) /\ t[i] = s[i]
      /\ \A i \in k..m : i \in 1..m /\ i + 1 \in 1..(m + 1) /\ t[i + 1] = s[i]
      /\ t[k] = n
  <2>1. \A i \in 1..(m + 1) : (IF i < k THEN s[i] ELSE IF i = k THEN n ELSE s[i - 1]) \in Nodes
    BY <1>1
  <2>2. t \in [1..(m + 1) -> Nodes]
    BY <2>1 DEF With
  <2>3. \A i \in 1..(m + 1) : t[i] = IF i < k THEN s[i] ELSE IF i = k THEN n ELSE s[i - 1]
    BY DEF With
  <2> HIDE DEF t
  <2>4. \A i \in k..m : t[i + 1] = s[i]
    <3> SUFFICES ASSUME NEW i \in k..m PROVE t[i + 1] = s[i]
      OBVIOUS
    <3>1. i + 1 \in 1..(m + 1) /\ ~(i + 1 < k) /\ i + 1 # k /\ (i + 1) - 1 = i
      BY <1>1
    <3> QED BY <2>3, <3>1
  <2> QED BY <1>1, <2>2, <2>3, <2>4
<1> HIDE DEF t
<1>3. \A i \in 1..(m + 1) : \/ i \in 1..(k - 1) \/ i = k
                            \/ \E j \in k..m : i = j + 1
  <2> SUFFICES ASSUME NEW i \in 1..(m + 1), ~(i \in 1..(k - 1)), i # k
               PROVE  \E j \in k..m : i = j + 1
    OBVIOUS
  <2>1. i - 1 \in k..m /\ i = (i - 1) + 1
    BY <1>1
  <2> QED BY <2>1
<1>4. ASSUME NEW i \in 1..(m + 1), NEW j \in 1..(m + 1), t[i] = t[j] PROVE i = j
  <2>1. ASSUME NEW a \in k..m, NEW b \in 1..(k - 1), t[a + 1] = t[b] PROVE FALSE
    <3>1. a \in 1..m /\ b \in 1..m /\ a # b /\ s[a] = s[b]
      BY <1>1, <1>2, <2>1
    <3> QED BY <1>1, <3>1
  <2>2. ASSUME NEW a \in k..m, NEW b \in k..m, t[a + 1] = t[b + 1] PROVE a = b
    <3>1. a \in 1..m /\ b \in 1..m /\ s[a] = s[b]
      BY <1>2, <2>2
    <3> QED BY <1>1, <3>1
  <2>3. ASSUME NEW a \in 1..(k - 1), NEW b \in 1..(k - 1), t[a] = t[b] PROVE a = b
    BY <1>1, <1>2, <2>3
  <2>4. (\A a \in 1..(k - 1) : t[a] # n) /\ (\A a \in k..m : t[a + 1] # n)
    BY <1>1, <1>2
  <2>5. CASE i = k
    BY <1>2, <1>3, <1>4, <2>4, <2>5
  <2>6. CASE i \in 1..(k - 1)
    BY <1>2, <1>3, <1>4, <2>1, <2>3, <2>4, <2>6
  <2>7. CASE \E a \in k..m : i = a + 1
    <3>1. PICK a \in k..m : i = a + 1
      BY <2>7
    <3>2. j # k
      BY <1>2, <1>4, <2>4, <3>1
    <3>3. j \notin 1..(k - 1)
      BY <1>4, <2>1, <3>1
    <3>4. PICK b \in k..m : j = b + 1
      BY <1>3, <3>2, <3>3
    <3> QED BY <1>4, <2>2, <3>1, <3>4
  <2> QED BY <1>3, <2>5, <2>6, <2>7
<1>5. \A x \in Nodes : (\A i \in 1..(m + 1) : t[i] # x) => x # n /\ \A i \in 1..m : s[i] # x
  <2> SUFFICES ASSUME NEW x \in Nodes, \A i \in 1..(m + 1) : t[i] # x, NEW i \in 1..m
               PROVE  x # n /\ s[i] # x
    BY <1>1, <1>2, k \in 1..(m + 1)
  <2>1. i \in 1..(k - 1) \/ i \in k..m
    BY <1>1
  <2> QED BY <1>1, <1>2, <2>1
<1>6. /\ l.head = IF m = 0 THEN Null ELSE s[1]
      /\ l.tail = IF m = 0 THEN Null ELSE s[m]
      /\ \A i \in 1..m : /\ l.prev[s[i]] = IF i = 1 THEN Null ELSE s[i - 1]
                         /\ l.next[s[i]] = IF i = m THEN Null ELSE s[i + 1]
      /\ \A x \in Nodes : (\A i \in 1..m : s[i] # x) => l.prev[x] = Null /\ l.next[x] = Null
  BY DEF Chain
<1>7. /\ r \in [head : Pointer, tail : Pointer, prev : [Nodes -> Pointer], next : [Nodes -> Pointer]]
      /\ r.head = IF k = 1 THEN n ELSE l.head
      /\ r.tail = IF k = m + 1 THEN n ELSE l.tail
      /\ r.prev[n] = IF k = 1 THEN Null ELSE s[k - 1]
      /\ r.next[n] = IF k = m + 1 THEN Null ELSE s[k]
      /\ k # m + 1 => r.prev[s[k]] = n
      /\ k # 1 => r.next[s[k - 1]] = n
      /\ \A x \in Nodes \ {n} : (k # m + 1 => x # s[k]) => r.prev[x] = l.prev[x]
      /\ \A x \in Nodes \ {n} : (k # 1 => x # s[k - 1]) => r.next[x] = l.next[x]
  BY DEF LinkedAt
<1>8. r.head = t[1]
  <2>1. CASE k = 1
    BY <1>2, <1>7, <2>1
  <2>2. CASE k # 1
    <3>1. 1 \in 1..(k - 1) /\ m # 0
      BY <1>1, <2>2
    <3> QED BY <1>2, <1>6, <1>7, <2>2, <3>1
  <2> QED BY <2>1, <2>2
<1>9. r.tail = t[m + 1]
  <2>1. CASE k = m + 1
    BY <1>2, <1>7, <2>1
  <2>2. CASE k # m + 1
    <3>1. m \in k..m /\ m # 0
      BY <1>1, <2>2
    <3> QED BY <1>2, <1>6, <1>7, <2>2, <3>1
  <2> QED BY <2>1, <2>2
<1>10. ASSUME NEW i \in 1..(m + 1)
       PROVE  /\ r.prev[t[i]] = IF i = 1 THEN Null ELSE t[i - 1]
              /\ r.next[t[i]] = IF i = m + 1 THEN Null ELSE t[i + 1]
  <2>1. CASE i \in 1..(k - 1)
    <3>1. i \in 1..m /\ t[i] = s[i] /\ s[i] \in Nodes \ {n} /\ i # m + 1
      BY <1>1, <1>2, <2>1
    <3>2. k # m + 1 => s[i] # s[k]
      BY <1>1, <2>1
    <3>3. r.prev[s[i]] = IF i = 1 THEN Null ELSE s[i - 1]
      BY <1>6, <1>7, <3>1, <3>2
    <3>4. i # 1 => i - 1 \in 1..(k - 1)
      BY <1>1, <2>1
    <3>5. CASE i = k - 1
      <4>1. k # 1 /\ r.next[s[i]] = n /\ t[i + 1] = n
        BY <1>1, <1>2, <1>7, <2>1, <3>5
      <4> QED BY <1>2, <3>1, <3>3, <3>4, <4>1
    <3>6. CASE i # k - 1
      <4>1. i + 1 \in 1..(k - 1) /\ i # m /\ s[i] # s[k - 1]
        BY <1>1, <2>1, <3>6
      <4>2. r.next[s[i]] = s[i + 1]
        BY <1>6, <1>7, <3>1, <4>1
      <4> QED BY <1>2, <3>1, <3>3, <3>4, <4>1, <4>2
    <3> QED BY <3>5, <3>6
  <2>2. CASE i = k
    <3>1. t[i] = n /\ (i = m + 1 <=> k = m + 1) /\ (i = 1 <=> k = 1)
      BY <1>2, <2>2
    <3>2. k # 1 => k - 1 \in 1..(k - 1)
      BY <1>1
    <3>3. k # m + 1 => k \in k..m
      BY <1>1
    <3> QED BY <1>2, <1>7, <2>2, <3>1, <3>2, <3>3
  <2>3. CASE \E j \in k..m : i = j + 1
    <3>1. PICK j \in k..m : i = j + 1
      BY <2>3
    <3>2. j \in 1..m /\ t[i] = s[j] /\ s[j] \in Nodes \ {n} /\ i # 1 /\ i - 1 = j /\ k # m + 1
          /\ (i = m + 1 <=> j = m)
      BY <1>1, <1>2, <3>1
    <3>3. k # 1 => s[j] # s[k - 1]
      BY <1>1, <3>1
    <3>4. r.next[s[j]] = IF j = m THEN Null ELSE s[j + 1]
      BY <1>6, <1>7, <3>2, <3>3
    <3>5. j # m => j + 1 \in k..m
      BY <1>1, <3>1
    <3>6. CASE j = k
      BY <1>2, <1>7, <3>1, <3>2, <3>4, <3>5, <3>6
    <3>7. CASE j # k
      <4>1. s[j] # s[k] /\ j # 1 /\ j - 1 \in k..m /\ (j - 1) + 1 = j
        BY <1>1, <3>1, <3>7
      <4>2. r.prev[s[j]] = s[j - 1]
        BY <1>6, <1>7, <3>2, <4>1
      <4> QED BY <1>2, <3>1, <3>2, <3>4, <3>5, <4>1, <4>2
    <3> QED BY <3>6, <3>7
  <2> QED BY <1>3, <2>1, <2>2, <2>3
<1>11. ASSUME NEW x \in Nodes, \A i \in 1..(m + 1) : t[i] # x
       PROVE  r.prev[x] = Null /\ r.next[x] = Null
  <2>1. x # n /\ \A i \in 1..m : s[i] # x
    BY <1>5, <1>11
  <2>2. (k # m + 1 => x # s[k]) /\ (k # 1 => x # s[k - 1])
    BY <1>1, <2>1
  <2> QED BY <1>6, <1>7, <2>1, <2>2
<1> QED BY <1>2, <1>4, <1>7, <1>8, <1>9, <1>10, <1>11, m + 1 # 0 DEF Chain, t

(* add_timer links the node behind those that expire no later and before    *)
(* the first that does.                                                     *)
LEMMA InsertedChain ==
  ASSUME NEW l, NEW s, NEW m, Chain(l, s, m), NEW n \in Nodes, Outside(n, s, m),
         expire \in [Nodes -> Nat], NEW r, r = Inserted(l, n)
  PROVE  \E k \in 1..(m + 1) :
            /\ Chain(r, With(s, m, k, n), m + 1)
            /\ \A i \in 1..(k - 1) : expire[s[i]] <= expire[n]
            /\ k # m + 1 => expire[n] < expire[s[k]]
<1> DEFINE later == {i \in 1..m : expire[n] < expire[s[i]]}
           f == CHOOSE k \in later : \A j \in later : k <= j
           p == l.prev
           q == l.next
<1>1. /\ Order(l) = s /\ Len(s) = m /\ (s = <<>> <=> m = 0)
  BY OrderIs
<1>2. /\ l \in [head : Pointer, tail : Pointer, prev : [Nodes -> Pointer], next : [Nodes -> Pointer]]
      /\ m \in Nat /\ s \in [1..m -> Nodes]
      /\ \A i, j \in 1..m : s[i] = s[j] => i = j
      /\ \A i \in 1..m : s[i] # n
      /\ \A x \in Nodes : (\A i \in 1..m : s[i] # x) => l.prev[x] = Null /\ l.next[x] = Null
      /\ l.head = (IF m = 0 THEN Null ELSE s[1]) /\ l.tail = IF m = 0 THEN Null ELSE s[m]
  BY DEF Chain, Outside
<1>3. /\ p \in [Nodes -> Pointer] /\ q \in [Nodes -> Pointer]
      /\ l.head \in Pointer /\ l.tail \in Pointer
      /\ p[n] = Null /\ q[n] = Null /\ Nodes \subseteq Pointer /\ Null \in Pointer
  BY <1>2 DEF Pointer
<1>4. r = IF s = <<>> THEN [l EXCEPT !.head = n, !.tail = n]
          ELSE IF later = {}
          THEN [l EXCEPT !.next = [q EXCEPT ![s[m]] = n, ![n] = Null],
                         !.prev = [p EXCEPT ![n] = s[m]], !.tail = n]
          ELSE IF f = 1
          THEN [l EXCEPT !.next = [q EXCEPT ![n] = s[1]], !.prev = [p EXCEPT ![s[1]] = n],
                         !.head = n]
          ELSE [l EXCEPT !.next = [q EXCEPT ![s[f - 1]] = n, ![n] = s[f]],
                         !.prev = [p EXCEPT ![s[f]] = n, ![n] = s[f - 1]]]
  BY <1>1 DEF Inserted
<1>5. later # {} => f \in later /\ \A j \in later : f <= j
  <2>1. later \subseteq Nat
    OBVIOUS
  <2> HIDE DEF later
  <2>2. later # {} => \E k \in later : \A j \in later : k <= j
    BY <2>1, LeastNat
  <2> QED BY <2>2
<1>6. ASSUME NEW i \in 1..m, i \notin later PROVE expire[s[i]] <= expire[n]
  <2>1. expire[s[i]] \in Nat /\ expire[n] \in Nat
    BY <1>2
  <2> QED BY <1>6, <2>1
<1> HIDE DEF f, p, q
<1>7. CASE m = 0
  <2>1. r = [l EXCEPT !.head = n, !.tail = n]
    BY <1>1, <1>4, <1>7
  <2>2. r.head = n /\ r.tail = n /\ r.prev = p /\ r.next = q
    BY <1>2, <2>1 DEF p, q
  <2>3. r \in [head : Pointer, tail : Pointer, prev : [Nodes -> Pointer], next : [Nodes -> Pointer]]
    BY <1>2, <1>3, <2>1
  <2>4. LinkedAt(r, l, s, m, 1, n)
    BY <1>3, <1>7, <2>2, <2>3 DEF LinkedAt, p, q
  <2>5. Chain(r, With(s, m, 1, n), m + 1)
    BY <2>4, LinkedChain
  <2> QED BY <1>7, <2>5, 1 \in 1..(0 + 1)
<1>8. CASE m # 0 /\ later = {}
  <2>1. r = [l EXCEPT !.next = [q EXCEPT ![s[m]] = n, ![n] = Null],
                      !.prev = [p EXCEPT ![n] = s[m]], !.tail = n]
    BY <1>1, <1>4, <1>8
  <2>2. m \in 1..m /\ s[m] \in Nodes \ {n} /\ m + 1 \in 1..(m + 1) /\ (m + 1) - 1 = m
        /\ m + 1 # 1 /\ m + 1 # 0
    BY <1>2, <1>8
  <2>3. /\ r.head = l.head /\ r.tail = n /\ r.prev = [p EXCEPT ![n] = s[m]]
        /\ r.next = [[q EXCEPT ![s[m]] = n] EXCEPT ![n] = Null]
    BY <1>2, <2>1
  <2>4. r \in [head : Pointer, tail : Pointer, prev : [Nodes -> Pointer], next : [Nodes -> Pointer]]
    <3>1. /\ [p EXCEPT ![n] = s[m]] \in [Nodes -> Pointer]
          /\ [[q EXCEPT ![s[m]] = n] EXCEPT ![n] = Null] \in [Nodes -> Pointer]
      BY <1>3, <2>2
    <3> QED BY <1>2, <1>3, <2>1, <3>1
  <2>5. LinkedAt(r, l, s, m, m + 1, n)
    BY <1>2, <1>3, <1>8, <2>2, <2>3, <2>4 DEF LinkedAt, p, q
  <2>6. Chain(r, With(s, m, m + 1, n), m + 1)
    BY <2>5, LinkedChain
  <2> QED BY <1>6, <1>8, <2>2, <2>6
<1>9. CASE m # 0 /\ later # {} /\ f = 1
  <2>1. r = [l EXCEPT !.next = [q EXCEPT ![n] = s[1]], !.prev = [p EXCEPT ![s[1]] = n],
                      !.head = n]
    BY <1>1, <1>4, <1>9
  <2>2. 1 \in 1..m /\ s[1] \in Nodes \ {n} /\ 1 \in 1..(m + 1) /\ m + 1 # 1
        /\ expire[n] < expire[s[1]]
    BY <1>2, <1>5, <1>9
  <2>3. /\ r.head = n /\ r.tail = l.tail /\ r.prev = [p EXCEPT ![s[1]] = n]
        /\ r.next = [q EXCEPT ![n] = s[1]]
    BY <1>2, <2>1
  <2>4. r \in [head : Pointer, tail : Pointer, prev : [Nodes -> Pointer], next : [Nodes -> Pointer]]
    <3>1. /\ [q EXCEPT ![n] = s[1]] \in [Nodes -> Pointer]
          /\ [p EXCEPT ![s[1]] = n] \in [Nodes -> Pointer]
      BY <1>3, <2>2
    <3> QED BY <1>2, <1>3, <2>1, <3>1
  <2>5. LinkedAt(r, l, s, m, 1, n)
    BY <1>3, <2>2, <2>3, <2>4 DEF LinkedAt, p, q
  <2>6. Chain(r, With(s, m, 1, n), m + 1)
    BY <2>5, LinkedChain
  <2>7. \A i \in 1..(1 - 1) : FALSE
    OBVIOUS
  <2> QED BY <2>2, <2>6, <2>7
<1>10. CASE m # 0 /\ later # {} /\ f # 1
  <2>1. r = [l EXCEPT !.next = [q EXCEPT ![s[f - 1]] = n, ![n] = s[f]],
                      !.prev = [p EXCEPT ![s[f]] = n, ![n] = s[f - 1]]]
    BY <1>1, <1>4, <1>10
  <2>2. f \in 1..m /\ f - 1 \in 1..m /\ f \in 1..(m + 1) /\ f # m + 1
        /\ s[f] \in Nodes \ {n} /\ s[f - 1] \in Nodes \ {n}
        /\ expire[n] < expire[s[f]]
    BY <1>2, <1>5, <1>10
  <2>3. /\ r.head = l.head /\ r.tail = l.tail
        /\ r.prev = [[p EXCEPT ![s[f]] = n] EXCEPT ![n] = s[f - 1]]
        /\ r.next = [[q EXCEPT ![s[f - 1]] = n] EXCEPT ![n] = s[f]]
    BY <1>2, <2>1
  <2>4. r \in [head : Pointer, tail : Pointer, prev : [Nodes -> Pointer], next : [Nodes -> Pointer]]
    <3>1. /\ [[q EXCEPT ![s[f - 1]] = n] EXCEPT ![n] = s[f]] \in [Nodes -> Pointer]
          /\ [[p EXCEPT ![s[f]] = n] EXCEPT ![n] = s[f - 1]] \in [Nodes -> Pointer]
      BY <1>3, <2>2
    <3> QED BY <1>2, <1>3, <2>1, <3>1
  <2>5. LinkedAt(r, l, s, m, f, n)
    BY <1>3, <1>10, <2>2, <2>3, <2>4 DEF LinkedAt, p, q
  <2>6. Chain(r, With(s, m, f, n), m + 1)
    BY <2>5, LinkedChain
  <2>7. \A i \in 1..(f - 1) : i \in 1..m /\ i \notin later
    BY <1>2, <1>5, <1>10, <2>2
  <2> QED BY <1>6, <2>2, <2>6, <2>7
<1> QED BY <1>7, <1>8, <1>9, <1>10

(* s without its k-th node.                                                 *)
Without(s, m, k) == [i \in 1..(m - 1) |-> IF i < k THEN s[i] ELSE s[i + 1]]

(* r is l with the k-th node taken out from between its neighbours.         *)
CutAt(r, l, s, m, k) ==
    /\ r \in [head : Pointer, tail : Pointer, prev : [Nodes -> Pointer], next : [Nodes -> Pointer]]
    /\ r.head = IF k # 1 THEN l.head ELSE IF k = m THEN Null ELSE s[k + 1]
    /\ r.tail = IF k # m THEN l.tail ELSE IF k = 1 THEN Null ELSE s[k - 1]
    /\ r.prev[s[k]] = Null /\ r.next[s[k]] = Null
    /\ k # m => r.prev[s[k + 1]] = IF k = 1 THEN Null ELSE s[k - 1]
    /\ k # 1 => r.next[s[k - 1]] = IF k = m THEN Null ELSE s[k + 1]
    /\ \A x \in Nodes \ {s[k]} : (k # m => x # s[k + 1]) => r.prev[x] = l.prev[x]
    /\ \A x \in Nodes \ {s[k]} : (k # 1 => x # s[k - 1]) => r.next[x] = l.next[x]

(* Cutting out the k-th node leaves the others as they were.                *)
LEMMA CutChain ==
  ASSUME NEW l, NEW s, NEW m, Chain(l, s, m), NEW k \in 1..m, NEW r, CutAt(r, l, s, m, k)
  PROVE  Chain(r, Without(s, m, k), m - 1)
<1> DEFINE t == Without(s, m, k)
<1>1. /\ m \in Nat /\ s \in [1..m -> Nodes] /\ k \in 1..m
      /\ \A i, j \in 1..m : s[i] = s[j] => i = j
      /\ l.head = IF m = 0 THEN Null ELSE s[1]
      /\ l.tail = IF m = 0 THEN Null ELSE s[m]
      /\ \A i \in 1..m : /\ l.prev[s[i]] = IF i = 1 THEN Null ELSE s[i - 1]
                         /\ l.next[s[i]] = IF i = m THEN Null ELSE s[i + 1]
      /\ \A x \in Nodes : (\A i \in 1..m : s[i] # x) => l.prev[x] = Null /\ l.next[x] = Null
  BY DEF Chain
<1>2. /\ r \in [head : Pointer, tail : Pointer, prev : [Nodes -> Pointer], next : [Nodes -> Pointer]]
      /\ r.head = IF k # 1 THEN l.head ELSE IF k = m THEN Null ELSE s[k + 1]
      /\ r.tail = IF k # m THEN l.tail ELSE IF k = 1 THEN Null ELSE s[k - 1]
      /\ r.prev[s[k]] = Null /\ r.next[s[k]] = Null
      /\ k # m => r.prev[s[k + 1]] = IF k = 1 THEN Null ELSE s[k - 1]
      /\ k # 1 => r.next[s[k - 1]] = IF k = m THEN Null ELSE s[k + 1]
      /\ \A x \in Nodes \ {s[k]} : (k # m => x # s[k + 1]) => r.prev[x] = l.prev[x]
      /\ \A x \in Nodes \ {s[k]} : (k # 1 => x # s[k - 1]) => r.next[x] = l.next[x]
  BY DEF CutAt
<1>3. /\ t \in [1..(m - 1) -> Nodes] /\ m - 1 \in Nat
      /\ \A i \in 1..(k - 1) : i \in 1..m /\ i \in 1..(m - 1) /\ t[i] = s[i]
      /\ \A i \in (k + 1)..m : i \in 1..m /\ i - 1 \in 1..(m - 1) /\ t[i - 1] = s[i]
  <2>1. \A i \in 1..(m - 1) : (IF i < k THEN s[i] ELSE s[i + 1]) \in Nodes
    <3>1. \A i \in 1..(m - 1) : i \in 1..m /\ i + 1 \in 1..m
      BY <1>1
    <3>2. \A i \in 1..m : s[i] \in Nodes
      BY <1>1
    <3> QED BY <3>1, <3>2
  <2>2. t \in [1..(m - 1) -> Nodes]
    BY <2>1 DEF Without
  <2>3. \A i \in 1..(m - 1) : t[i] = IF i < k THEN s[i] ELSE s[i + 1]
    BY DEF Without
  <2> HIDE DEF t
  <2>4. \A i \in (k + 1)..m : t[i - 1] = s[i]
    <3> SUFFICES ASSUME NEW i \in (k + 1)..m PROVE t[i - 1] = s[i]
      OBVIOUS
    <3>1. i - 1 \in 1..(m - 1) /\ ~(i - 1 < k) /\ (i - 1) + 1 = i
      BY <1>1
    <3> QED BY <2>3, <3>1
  <2> QED BY <1>1, <2>2, <2>3, <2>4
<1> HIDE DEF t
<1>4. \A i \in 1..(m - 1) : \/ i \in 1..(k - 1) /\ i \in 1..m
                            \/ \E j \in (k + 1)..m : i = j - 1 /\ j \in 1..m
  <2> SUFFICES ASSUME NEW i \in 1..(m - 1), ~(i \in 1..(k - 1))
               PROVE  \E j \in (k + 1)..m : i = j - 1 /\ j \in 1..m
    BY <1>1
  <2>1. i + 1 \in (k + 1)..m /\ i = (i + 1) - 1 /\ i + 1 \in 1..m
    BY <1>1
  <2> QED BY <2>1
<1>5. ASSUME NEW i \in 1..(m - 1), NEW j \in 1..(m - 1), t[i] = t[j] PROVE i = j
  <2>1. ASSUME NEW a \in (k + 1)..m, NEW b \in 1..(k - 1), t[a - 1] = t[b] PROVE FALSE
    <3>1. a \in 1..m /\ b \in 1..m /\ a # b /\ s[a] = s[b]
      BY <1>1, <1>3, <2>1
    <3> QED BY <1>1, <3>1
  <2>2. ASSUME NEW a \in (k + 1)..m, NEW b \in (k + 1)..m, t[a - 1] = t[b - 1] PROVE a = b
    <3>1. a \in 1..m /\ b \in 1..m /\ s[a] = s[b]
      BY <1>3, <2>2
    <3> QED BY <1>1, <3>1
  <2>3. ASSUME NEW a \in 1..(k - 1), NEW b \in 1..(k - 1), t[a] = t[b] PROVE a = b
    BY <1>1, <1>3, <2>3
  <2>4. CASE i \in 1..(k - 1)
    BY <1>4, <1>5, <2>1, <2>3, <2>4
  <2>5. CASE \E a \in (k + 1)..m : i = a - 1
    <3>1. PICK a \in (k + 1)..m : i = a - 1
      BY <2>5
    <3>2. j \notin 1..(k - 1)
      BY <1>5, <2>1, <3>1
    <3>3. PICK b \in (k + 1)..m : j = b - 1
      BY <1>4, <3>2
    <3> QED BY <1>5, <2>2, <3>1, <3>3
  <2> QED BY <1>4, <2>4, <2>5
<1>6. r.head = IF m - 1 = 0 THEN Null ELSE t[1]
  <2>1. CASE k = 1
    <3>1. k # m => k + 1 \in (k + 1)..m /\ (k + 1) - 1 = 1 /\ m - 1 # 0
      BY <1>1, <2>1
    <3> QED BY <1>1, <1>2, <1>3, <2>1, <3>1
  <2>2. CASE k # 1
    <3>1. 1 \in 1..(k - 1) /\ m # 0 /\ m - 1 # 0
      BY <1>1, <2>2
    <3> QED BY <1>1, <1>2, <1>3, <2>2, <3>1
  <2> QED BY <2>1, <2>2
<1>7. r.tail = IF m - 1 = 0 THEN Null ELSE t[m - 1]
  <2>1. CASE k = m
    <3>1. k # 1 => k - 1 \in 1..(k - 1) /\ k - 1 = m - 1 /\ m - 1 # 0
      BY <1>1, <2>1
    <3> QED BY <1>1, <1>2, <1>3, <2>1, <3>1
  <2>2. CASE k # m
    <3>1. m \in (k + 1)..m /\ m # 0 /\ m - 1 # 0
      BY <1>1, <2>2
    <3> QED BY <1>1, <1>2, <1>3, <2>2, <3>1
  <2> QED BY <2>1, <2>2
<1>8. ASSUME NEW i \in 1..(m - 1)
      PROVE  /\ r.prev[t[i]] = IF i = 1 THEN Null ELSE t[i - 1]
             /\ r.next[t[i]] = IF i = m - 1 THEN Null ELSE t[i + 1]
  <2>1. CASE i \in 1..(k - 1)
    <3>1. i \in 1..m /\ t[i] = s[i] /\ s[i] \in Nodes \ {s[k]} /\ i # m
      BY <1>1, <1>3, <2>1
    <3>2. k # m => s[i] # s[k + 1]
      BY <1>1, <2>1
    <3>3. r.prev[s[i]] = IF i = 1 THEN Null ELSE s[i - 1]
      <4>1. r.prev[s[i]] = l.prev[s[i]]
        BY <1>2, <3>1, <3>2
      <4> QED BY <1>1, <3>1, <4>1
    <3>4. i # 1 => i - 1 \in 1..(k - 1)
      BY <1>1, <2>1
    <3>5. CASE i = k - 1
      <4>1. k # 1 /\ i + 1 = k /\ (i = m - 1 <=> k = m)
        BY <1>1, <2>1, <3>5
      <4>2. r.next[s[i]] = IF k = m THEN Null ELSE s[k + 1]
        BY <1>2, <3>5, <4>1
      <4>3. k # m => k + 1 \in (k + 1)..m /\ (k + 1) - 1 = k
        BY <1>1
      <4> QED BY <1>3, <3>1, <3>3, <3>4, <4>1, <4>2, <4>3
    <3>6. CASE i # k - 1
      <4>1. i + 1 \in 1..(k - 1) /\ i # m - 1 /\ s[i] # s[k - 1]
        BY <1>1, <2>1, <3>6
      <4>2. r.next[s[i]] = s[i + 1]
        BY <1>1, <1>2, <3>1, <4>1
      <4> QED BY <1>3, <3>1, <3>3, <3>4, <4>1, <4>2
    <3> QED BY <3>5, <3>6
  <2>2. CASE \E j \in (k + 1)..m : i = j - 1
    <3>1. PICK j \in (k + 1)..m : i = j - 1
      BY <2>2
    <3>2. j \in 1..m /\ t[i] = s[j] /\ s[j] \in Nodes \ {s[k]} /\ j # 1 /\ k # m
          /\ (i = m - 1 <=> j = m) /\ i + 1 = j
      BY <1>1, <1>3, <3>1
    <3>3. k # 1 => s[j] # s[k - 1]
      BY <1>1, <3>1
    <3>4. r.next[s[j]] = IF j = m THEN Null ELSE s[j + 1]
      <4>1. r.next[s[j]] = l.next[s[j]]
        BY <1>2, <3>2, <3>3
      <4> QED BY <1>1, <3>2, <4>1
    <3>5. j # m => j + 1 \in (k + 1)..m /\ (j + 1) - 1 = j
      BY <1>1, <3>1
    <3>6. CASE j = k + 1
      <4>1. i = k /\ (k # 1 => k - 1 \in 1..(k - 1))
        BY <1>1, <3>1, <3>6
      <4>2. r.prev[s[j]] = IF k = 1 THEN Null ELSE s[k - 1]
        BY <1>2, <3>2, <3>6
      <4> QED BY <1>3, <3>1, <3>2, <3>4, <3>5, <4>1, <4>2
    <3>7. CASE j # k + 1
      <4>1. s[j] # s[k + 1] /\ i # 1 /\ j - 1 \in (k + 1)..m /\ (j - 1) - 1 = i - 1
        BY <1>1, <3>1, <3>7
      <4>2. r.prev[s[j]] = s[j - 1]
        BY <1>1, <1>2, <3>2, <4>1
      <4>3. t[i - 1] = s[j - 1]
        BY <1>3, <4>1
      <4> QED BY <1>3, <3>1, <3>2, <3>4, <3>5, <4>1, <4>2, <4>3
    <3> QED BY <3>6, <3>7
  <2> QED BY <1>4, <2>1, <2>2
<1>9. ASSUME NEW x \in Nodes, \A i \in 1..(m - 1) : t[i] # x
      PROVE  r.prev[x] = Null /\ r.next[x] = Null
  <2>1. \A i \in 1..m : i # k => s[i] # x
    <3> SUFFICES ASSUME NEW i \in 1..m, i # k PROVE s[i] # x
      OBVIOUS
    <3>1. i \in 1..(k - 1) \/ i \in (k + 1)..m
      BY <1>1
    <3> QED BY <1>3, <1>9, <3>1
  <2>2. CASE x = s[k]
    BY <1>2, <2>2
  <2>3. CASE x # s[k]
    <3>1. (k # m => x # s[k + 1]) /\ (k # 1 => x # s[k - 1])
      BY <1>1, <2>1
    <3>2. \A i \in 1..m : s[i] # x
      BY <2>1, <2>3
    <3> QED BY <1>1, <1>2, <2>3, <3>1, <3>2
  <2> QED BY <2>2, <2>3
<1> QED BY <1>2, <1>3, <1>5, <1>6, <1>7, <1>8, <1>9 DEF Chain, t

(* Taking a node out of the list, or one that is not in it.                 *)
LEMMA UnlinkedChain ==
  ASSUME NEW l, NEW s, NEW m, Chain(l, s, m), NEW n \in Nodes, NEW r, r = Unlinked(l, n)
  PROVE  /\ Outside(n, s, m) => r = l
         /\ \A k \in 1..m : s[k] = n => Chain(r, Without(s, m, k), m - 1)
<1>1. /\ l \in [head : Pointer, tail : Pointer, prev : [Nodes -> Pointer], next : [Nodes -> Pointer]]
      /\ m \in Nat /\ s \in [1..m -> Nodes] /\ Null \notin Nodes
      /\ \A i, j \in 1..m : s[i] = s[j] => i = j
      /\ l.head = IF m = 0 THEN Null ELSE s[1]
      /\ l.tail = IF m = 0 THEN Null ELSE s[m]
      /\ \A i \in 1..m : /\ l.prev[s[i]] = IF i = 1 THEN Null ELSE s[i - 1]
                         /\ l.next[s[i]] = IF i = m THEN Null ELSE s[i + 1]
      /\ \A x \in Nodes : (\A i \in 1..m : s[i] # x) => l.prev[x] = Null /\ l.next[x] = Null
  BY ListAssumption DEF Chain
<1> DEFINE p == l.prev
           q == l.next
           pn == p[n]
           qn == q[n]
<1>2. /\ p \in [Nodes -> Pointer] /\ q \in [Nodes -> Pointer]
      /\ pn \in Pointer /\ qn \in Pointer /\ l.head \in Pointer /\ l.tail \in Pointer
      /\ Null \in Pointer
  BY <1>1 DEF Pointer
<1>3. /\ r.head = IF pn = Null /\ l.head = n THEN qn ELSE l.head
      /\ r.tail = IF qn = Null /\ l.tail = n THEN pn ELSE l.tail
      /\ r.prev = [Store(p, qn, pn) EXCEPT ![n] = Null]
      /\ r.next = [Store(q, pn, qn) EXCEPT ![n] = Null]
      /\ r = [head |-> r.head, tail |-> r.tail, prev |-> r.prev, next |-> r.next]
  BY DEF Unlinked
<1> HIDE DEF p, q, pn, qn
<1>4. ASSUME Outside(n, s, m) PROVE r = l
  <2>1. pn = Null /\ qn = Null /\ \A i \in 1..m : s[i] # n
    BY <1>1, <1>4 DEF Outside, p, q, pn, qn
  <2>2. l.head # n /\ l.tail # n
    BY <1>1, <2>1
  <2>3. r.prev = [p EXCEPT ![n] = Null] /\ r.next = [q EXCEPT ![n] = Null]
    BY <1>3, <2>1 DEF Store
  <2>4. r.prev = p /\ r.next = q
    BY <1>2, <2>1, <2>3 DEF pn, qn
  <2>5. r.head = l.head /\ r.tail = l.tail
    BY <1>3, <2>2
  <2> QED BY <1>1, <1>3, <2>4, <2>5 DEF p, q
<1>5. ASSUME NEW k \in 1..m, s[k] = n PROVE Chain(r, Without(s, m, k), m - 1)
  <2>1. /\ pn = IF k = 1 THEN Null ELSE s[k - 1]
        /\ qn = IF k = m THEN Null ELSE s[k + 1]
    BY <1>1, <1>5 DEF p, q, pn, qn
  <2>2. /\ k # 1 => k - 1 \in 1..m /\ s[k - 1] \in Nodes /\ s[k - 1] # n
        /\ k # m => k + 1 \in 1..m /\ s[k + 1] \in Nodes /\ s[k + 1] # n
    BY <1>1, <1>5
  <2>3. (pn = Null <=> k = 1) /\ (qn = Null <=> k = m)
    BY <1>1, <2>1, <2>2
  <2>4. (l.head = n <=> k = 1) /\ (l.tail = n <=> k = m)
    BY <1>1, <1>5
  <2>5. Store(p, qn, pn) \in [Nodes -> Pointer] /\ Store(q, pn, qn) \in [Nodes -> Pointer]
    BY <1>2, <2>1, <2>2, <2>3 DEF Store
  <2>6. r.head \in Pointer /\ r.tail \in Pointer
        /\ r.prev \in [Nodes -> Pointer] /\ r.next \in [Nodes -> Pointer]
    BY <1>2, <1>3, <2>5
  <2>7. r \in [head : Pointer, tail : Pointer, prev : [Nodes -> Pointer], next : [Nodes -> Pointer]]
    BY <1>3, <2>6
  <2>8. /\ r.head = IF k # 1 THEN l.head ELSE IF k = m THEN Null ELSE s[k + 1]
        /\ r.tail = IF k # m THEN l.tail ELSE IF k = 1 THEN Null ELSE s[k - 1]
    BY <1>3, <2>1, <2>3, <2>4
  <2>9. /\ r.prev[n] = Null
        /\ k # m => r.prev[s[k + 1]] = pn
        /\ \A x \in Nodes \ {n} : (k # m => x # s[k + 1]) => r.prev[x] = p[x]
    BY <1>2, <1>3, <2>1, <2>2, <2>3, <2>5 DEF Store
  <2>10. /\ r.next[n] = Null
         /\ k # 1 => r.next[s[k - 1]] = qn
         /\ \A x \in Nodes \ {n} : (k # 1 => x # s[k - 1]) => r.next[x] = q[x]
    BY <1>2, <1>3, <2>1, <2>2, <2>3, <2>5 DEF Store
  <2>11. CutAt(r, l, s, m, k)
    BY <1>5, <2>1, <2>7, <2>8, <2>9, <2>10 DEF CutAt, p, q
  <2> QED BY <2>11, CutChain
<1> QED BY <1>4, <1>5

(* s without its first k nodes.                                             *)
Rest(s, m, k) == [i \in 1..(m - k) |-> s[i + k]]

(* The first k nodes leave the list at once.                                *)
LEMMA PoppedChain ==
  ASSUME NEW l, NEW s, NEW m, Chain(l, s, m), NEW k \in 1..m,
         NEW q \in [1..k -> Nodes], \A i \in 1..k : q[i] = s[i],
         NEW r, r = Popped(l, q)
  PROVE  Chain(r, Rest(s, m, k), m - k)
<1> DEFINE t == Rest(s, m, k)
<1>1. /\ l \in [head : Pointer, tail : Pointer, prev : [Nodes -> Pointer], next : [Nodes -> Pointer]]
      /\ m \in Nat /\ s \in [1..m -> Nodes] /\ Null \notin Nodes /\ k \in 1..m
      /\ \A i, j \in 1..m : s[i] = s[j] => i = j
      /\ l.head = IF m = 0 THEN Null ELSE s[1]
      /\ l.tail = IF m = 0 THEN Null ELSE s[m]
      /\ \A i \in 1..m : /\ l.prev[s[i]] = IF i = 1 THEN Null ELSE s[i - 1]
                         /\ l.next[s[i]] = IF i = m THEN Null ELSE s[i + 1]
      /\ \A x \in Nodes : (\A i \in 1..m : s[i] # x) => l.prev[x] = Null /\ l.next[x] = Null
  BY ListAssumption DEF Chain
<1>2. Order(l) = s /\ Len(s) = m
  BY OrderIs
<1>3. Len(q) = k /\ ToSet(q) = {q[i] : i \in 1..k}
  <2>1. k \in Nat
    BY <1>1
  <2> QED BY <2>1, Listing
<1>4. /\ t \in [1..(m - k) -> Nodes] /\ m - k \in Nat
      /\ \A i \in 1..(m - k) : i + k \in 1..m /\ t[i] = s[i + k]
  <2>1. \A i \in 1..(m - k) : i + k \in 1..m /\ s[i + k] \in Nodes
    BY <1>1
  <2> QED BY <1>1, <2>1 DEF Rest
<1> HIDE DEF t
<1>5. SubSeq(s, k + 1, m) = t
  <2> DEFINE u == SubSeq(s, k + 1, m)
  <2>1. \A i \in (k + 1)..m : s[i] \in Nodes
    BY <1>1
  <2>2. k + 1 \in Int /\ m \in Int
    BY <1>1
  <2>3. /\ u \in Seq(Nodes)
        /\ Len(u) = IF k + 1 <= m THEN m - (k + 1) + 1 ELSE 0
        /\ \A i \in 1..(m - (k + 1) + 1) : u[i] = s[(k + 1) + i - 1]
    BY <2>1, <2>2, SubSeqProperties
  <2> HIDE DEF u
  <2>4. Len(u) = m - k
    BY <1>1, <2>3
  <2>5. u \in [1..(m - k) -> Nodes]
    BY <2>3, <2>4, LenProperties
  <2>6. \A i \in 1..(m - k) : u[i] = s[i + k]
    <3> SUFFICES ASSUME NEW i \in 1..(m - k) PROVE u[i] = s[i + k]
      OBVIOUS
    <3>1. i \in 1..(m - (k + 1) + 1) /\ (k + 1) + i - 1 = i + k
      BY <1>1
    <3> QED BY <2>3, <3>1
  <2>7. u = t
    BY <1>4, <2>5, <2>6
  <2> QED BY <2>7 DEF u
<1>6. Len(t) = m - k /\ (t = <<>> <=> m - k = 0)
  BY <1>4, Listing
<1> DEFINE Q == {q[i] : i \in 1..k}
           h == IF m - k = 0 THEN Null ELSE t[1]
           P == [x \in Nodes |-> IF x \in Q THEN Null ELSE l.prev[x]]
           N == [x \in Nodes |-> IF x \in Q THEN Null ELSE l.next[x]]
<1>7. r = [head |-> h, tail |-> IF m - k = 0 THEN Null ELSE l.tail,
           prev |-> Store(P, h, Null), next |-> N]
  BY <1>2, <1>3, <1>5, <1>6 DEF Popped
<1>8. Q = {s[i] : i \in 1..k}
  OBVIOUS
<1>9. /\ P \in [Nodes -> Pointer] /\ N \in [Nodes -> Pointer]
      /\ \A x \in Nodes : P[x] = IF x \in Q THEN Null ELSE l.prev[x]
      /\ \A x \in Nodes : N[x] = IF x \in Q THEN Null ELSE l.next[x]
  BY <1>1 DEF Pointer
<1>10. m - k # 0 => 1 \in 1..(m - k)
  BY <1>1
<1>11. h \in Pointer /\ (h = Null <=> m - k = 0) /\ (m - k # 0 => h = t[1])
  BY <1>1, <1>4, <1>10 DEF Pointer
<1>12. /\ r.head = h /\ r.tail = (IF m - k = 0 THEN Null ELSE l.tail)
       /\ r.prev = Store(P, h, Null) /\ r.next = N
  BY <1>7
<1> HIDE DEF h, P, N, Q
<1>13. /\ r.prev \in [Nodes -> Pointer]
       /\ \A x \in Nodes : r.prev[x] = IF x \in Q \/ x = h THEN Null ELSE l.prev[x]
  <2>1. CASE h = Null
    BY <1>1, <1>9, <1>12, <2>1 DEF Store
  <2>2. CASE h # Null
    <3>1. h \in Nodes /\ r.prev = [P EXCEPT ![h] = Null]
      BY <1>11, <1>12, <2>2 DEF Store, Pointer
    <3> QED BY <1>9, <3>1 DEF Pointer
  <2> QED BY <2>1, <2>2
<1>14. r \in [head : Pointer, tail : Pointer, prev : [Nodes -> Pointer], next : [Nodes -> Pointer]]
  <2>1. r.head \in Pointer /\ r.tail \in Pointer /\ r.next \in [Nodes -> Pointer]
    BY <1>1, <1>9, <1>11, <1>12 DEF Pointer
  <2>2. r = [head |-> r.head, tail |-> r.tail, prev |-> r.prev, next |-> r.next]
    BY <1>7
  <2> QED BY <1>13, <2>1, <2>2
<1>15. \A i, j \in 1..(m - k) : t[i] = t[j] => i = j
  <2> SUFFICES ASSUME NEW i \in 1..(m - k), NEW j \in 1..(m - k), t[i] = t[j] PROVE i = j
    OBVIOUS
  <2>1. i + k = j + k
    BY <1>1, <1>4
  <2> QED BY <1>1, <2>1
<1>16. r.tail = IF m - k = 0 THEN Null ELSE t[m - k]
  <2>1. m - k # 0 => m - k \in 1..(m - k) /\ (m - k) + k = m /\ m # 0
    BY <1>1
  <2> QED BY <1>1, <1>4, <1>12, <2>1
<1>17. ASSUME NEW i \in 1..(m - k)
       PROVE  /\ r.prev[t[i]] = IF i = 1 THEN Null ELSE t[i - 1]
              /\ r.next[t[i]] = IF i = m - k THEN Null ELSE t[i + 1]
  <2>1. i + k \in 1..m /\ t[i] = s[i + k] /\ s[i + k] \in Nodes
    BY <1>1, <1>4
  <2>2. s[i + k] \notin Q
    <3>1. \A j \in 1..k : j \in 1..m /\ j # i + k
      BY <1>1
    <3> QED BY <1>1, <1>8, <2>1, <3>1
  <2>3. r.next[t[i]] = IF i = m - k THEN Null ELSE t[i + 1]
    <3>1. i + k = m <=> i = m - k
      BY <1>1
    <3>2. i # m - k => i + 1 \in 1..(m - k) /\ (i + 1) + k = (i + k) + 1
      BY <1>1
    <3>3. r.next[t[i]] = l.next[s[i + k]]
      BY <1>9, <1>12, <2>1, <2>2
    <3>4. l.next[s[i + k]] = IF i + k = m THEN Null ELSE s[(i + k) + 1]
      BY <1>1, <2>1
    <3>5. i # m - k => t[i + 1] = s[(i + k) + 1]
      BY <1>4, <3>2
    <3> QED BY <3>1, <3>3, <3>4, <3>5
  <2>4. m - k # 0
    BY <1>1
  <2>5. CASE i = 1
    BY <1>11, <1>13, <2>1, <2>3, <2>4, <2>5
  <2>6. CASE i # 1
    <3>1. t[i] # h /\ i - 1 \in 1..(m - k) /\ (i - 1) + k = (i + k) - 1 /\ i + k # 1
      BY <1>1, <1>10, <1>11, <1>15, <2>4, <2>6
    <3> QED BY <1>1, <1>4, <1>13, <2>1, <2>2, <2>3, <2>6, <3>1
  <2> QED BY <2>5, <2>6
<1>18. ASSUME NEW x \in Nodes, \A i \in 1..(m - k) : t[i] # x
       PROVE  r.prev[x] = Null /\ r.next[x] = Null
  <2>1. CASE x \in Q
    BY <1>9, <1>12, <1>13, <2>1
  <2>2. CASE x \notin Q
    <3>1. \A i \in 1..m : s[i] # x
      <4> SUFFICES ASSUME NEW i \in 1..m PROVE s[i] # x
        OBVIOUS
      <4>1. CASE i \in 1..k
        BY <1>8, <2>2, <4>1
      <4>2. CASE i \notin 1..k
        <5>1. i - k \in 1..(m - k) /\ (i - k) + k = i
          BY <1>1, <4>2
        <5> QED BY <1>4, <1>18, <5>1
      <4> QED BY <4>1, <4>2
    <3> QED BY <1>1, <1>9, <1>12, <1>13, <2>2, <3>1
  <2> QED BY <2>1, <2>2
<1>19. r.head = IF m - k = 0 THEN Null ELSE t[1]
  BY <1>12 DEF h
<1> QED BY <1>4, <1>14, <1>15, <1>16, <1>17, <1>18, <1>19 DEF Chain, t

(* What tick takes is a prefix of the list.                                 *)
LEMMA DueIs ==
  ASSUME NEW m \in Nat, NEW s \in [1..m -> Nodes], expire \in [Nodes -> Nat], NEW cur \in Nat
  PROVE  \E k \in 0..m : /\ Due(s, cur) \in [1..k -> Nodes]
                         /\ \A i \in 1..k : Due(s, cur)[i] = s[i]
<1> DEFINE T == {k \in 0..m : k = m \/ expire[s[k + 1]] > cur}
           P(k) == /\ \A i \in 1..k : expire[s[i]] <= cur
                   /\ k = m \/ expire[s[k + 1]] > cur
<1>1. PICK f \in T : \A k \in T : f <= k
  <2>1. T \subseteq Nat /\ m \in T
    OBVIOUS
  <2> HIDE DEF T
  <2> QED BY <2>1, LeastNat
<1>2. \A i \in 1..f : expire[s[i]] <= cur
  <2> SUFFICES ASSUME NEW i \in 1..f PROVE expire[s[i]] <= cur
    OBVIOUS
  <2>1. i - 1 \in 0..m /\ ~(f <= i - 1) /\ (i - 1) + 1 = i /\ i - 1 # m /\ i \in 1..m
    OBVIOUS
  <2>2. i - 1 \notin T
    <3> HIDE DEF T
    <3> QED BY <1>1, <2>1
  <2>3. ~(expire[s[i]] > cur) /\ expire[s[i]] \in Nat
    BY <2>1, <2>2
  <2> QED BY <2>3
<1>3. f \in 0..m /\ P(f)
  BY <1>2
<1> DEFINE k == CHOOSE j \in 0..m : P(j)
<1>4. k \in 0..m
  <2> HIDE DEF P
  <2> QED BY <1>3
<1>5. Len(s) = m
  BY Listing
<1>6. Due(s, cur) = SubSeq(s, 1, k)
  BY <1>5 DEF Due
<1> DEFINE u == SubSeq(s, 1, k)
<1> HIDE DEF k
<1>7. /\ u \in Seq(Nodes)
      /\ Len(u) = IF 1 <= k THEN k - 1 + 1 ELSE 0
      /\ \A i \in 1..(k - 1 + 1) : u[i] = s[1 + i - 1]
  <2>1. \A i \in 1..k : s[i] \in Nodes
    BY <1>4
  <2>2. 1 \in Int /\ k \in Int
    BY <1>4
  <2> HIDE DEF u
  <2> QED BY <2>1, <2>2, SubSeqProperties DEF u
<1> HIDE DEF u
<1>8. Len(u) = k
  BY <1>4, <1>7
<1>9. u \in [1..k -> Nodes]
  BY <1>7, <1>8, LenProperties
<1>10. \A i \in 1..k : u[i] = s[i]
  <2> SUFFICES ASSUME NEW i \in 1..k PROVE u[i] = s[i]
    OBVIOUS
  <2>1. i \in 1..(k - 1 + 1) /\ 1 + i - 1 = i
    BY <1>4
  <2> QED BY <1>7, <2>1
<1> QED BY <1>4, <1>6, <1>9, <1>10 DEF u

-----------------------------------------------------------------------------
(* The invariant.                                                           *)

(* The nodes of s, and s in order but for those of loose.                   *)
Span(s, m) == {s[i] : i \in 1..m}

Sorted(s, m, e, loose) ==
    \A i, j \in 1..m : i < j /\ s[i] \notin loose /\ s[j] \notin loose => e[s[i]] <= e[s[j]]

ToMove == {node[c] : c \in {x \in Clients : cpc[x] = "adjust"}}

(* The list is s.                                                           *)
Picture(s, m) ==
    /\ Chain(list, s, m) /\ Span(s, m) \subseteq alive
    /\ mixed \/ Sorted(s, m, expire, ToMove)

(* A list that can be walked is the picture of its order.                   *)
LEMMA Pictures ==
  ASSUME ListTypeOK, ListIntact, InOrder
  PROVE  \E m, s : Picture(s, m) /\ Order(list) = s /\ Listed = Span(s, m)
<1> DEFINE o == Order(list)
<1>1. o \in Orders /\ Links(list, o)
  BY DEF ListIntact, Order
<1>2. PICK m \in Nat : o \in [1..m -> Nodes] /\ \A i, j \in 1..m : o[i] = o[j] => i = j
  <2> HIDE DEF o
  <2> QED BY <1>1, OrdersAre, Zenon
<1>3. Len(o) = m /\ (o = <<>> <=> m = 0) /\ ToSet(o) = Span(o, m)
  <2> HIDE DEF o
  <2> QED BY <1>2, Listing DEF Span
<1>4. Listed = Span(o, m)
  BY <1>3 DEF Listed
<1>5. Chain(list, o, m)
  <2>1. \A n \in Nodes : (\A i \in 1..m : o[i] # n) => list.prev[n] = Null /\ list.next[n] = Null
    <3> SUFFICES ASSUME NEW n \in Nodes, \A i \in 1..m : o[i] # n
                 PROVE  list.prev[n] = Null /\ list.next[n] = Null
      OBVIOUS
    <3>1. n \notin Listed
      BY <1>4 DEF Span
    <3> QED BY <3>1 DEF ListIntact
  <2> HIDE DEF o
  <2> QED BY <1>1, <1>2, <1>3, <2>1 DEF Chain, Links, ListTypeOK
<1>6. Span(o, m) \subseteq alive
  BY <1>4 DEF ListIntact
<1>7. mixed \/ Sorted(o, m, expire, ToMove)
  BY <1>3 DEF InOrder, Sorted, ToMove
<1> QED BY <1>4, <1>5, <1>6, <1>7 DEF Picture

(* And a list that has a picture can be walked.                             *)
LEMMA PictureAfter ==
  ASSUME NEW s, NEW m, Picture(s, m)'
  PROVE  ListIntact' /\ InOrder' /\ Listed' = Span(s, m) /\ m \in Nat /\ s \in [1..m -> Nodes]
<1>1. /\ Chain(list', s, m) /\ Span(s, m) \subseteq alive'
      /\ mixed' \/ Sorted(s, m, expire', ToMove')
  BY DEF Picture
<1>2. /\ Order(list') = s /\ s \in Orders /\ Links(list', s) /\ Len(s) = m
      /\ ToSet(s) = Span(s, m)
  BY <1>1, OrderIs DEF Span
<1>3. Listed' = Span(s, m)
  BY <1>2 DEF Listed
<1>4. \A n \in Nodes \ Span(s, m) : list'.prev[n] = Null /\ list'.next[n] = Null
  BY <1>1 DEF Chain, Span
<1>5. ListIntact'
  BY <1>1, <1>2, <1>3, <1>4 DEF ListIntact
<1>6. InOrder'
  BY <1>1, <1>2 DEF InOrder, Sorted, ToMove
<1>7. m \in Nat /\ s \in [1..m -> Nodes]
  BY <1>1 DEF Chain
<1> QED BY <1>3, <1>5, <1>6, <1>7

(* What linking a node adds.                                                *)
LEMMA WithSpan ==
  ASSUME NEW m \in Nat, NEW s \in [1..m -> Nodes], NEW n \in Nodes, NEW k \in 1..(m + 1)
  PROVE  Span(With(s, m, k, n), m + 1) = Span(s, m) \cup {n}
<1> DEFINE t == With(s, m, k, n)
<1>1. \A i \in 1..(m + 1) : t[i] = IF i < k THEN s[i] ELSE IF i = k THEN n ELSE s[i - 1]
  BY DEF With
<1> HIDE DEF t
<1>2. Span(t, m + 1) \subseteq Span(s, m) \cup {n}
  <2> SUFFICES ASSUME NEW i \in 1..(m + 1) PROVE t[i] \in Span(s, m) \cup {n}
    BY DEF Span
  <2>1. i < k => i \in 1..m
    OBVIOUS
  <2>2. i > k => i - 1 \in 1..m
    OBVIOUS
  <2> QED BY <1>1, <2>1, <2>2 DEF Span
<1>3. Span(s, m) \cup {n} \subseteq Span(t, m + 1)
  <2>1. t[k] = n
    BY <1>1
  <2>2. ASSUME NEW i \in 1..m PROVE s[i] \in Span(t, m + 1)
    <3>1. i < k => i \in 1..(m + 1) /\ t[i] = s[i]
      BY <1>1
    <3>2. i >= k => i + 1 \in 1..(m + 1) /\ t[i + 1] = s[i]
      BY <1>1
    <3> QED BY <3>1, <3>2 DEF Span
  <2> QED BY <2>1, <2>2 DEF Span
<1> QED BY <1>2, <1>3 DEF t

(* A node placed after those that expire no later and before those that do. *)
LEMMA WithOrdered ==
  ASSUME NEW m \in Nat, NEW s \in [1..m -> Nodes], NEW n \in Nodes, NEW k \in 1..(m + 1),
         NEW e \in [Nodes -> Nat], Sorted(s, m, e, {}),
         \A i \in 1..(k - 1) : e[s[i]] <= e[n],
         k # m + 1 => e[n] < e[s[k]],
         NEW loose
  PROVE  Sorted(With(s, m, k, n), m + 1, e, loose)
<1> DEFINE t == With(s, m, k, n)
<1>1. \A i \in 1..(m + 1) : t[i] = IF i < k THEN s[i] ELSE IF i = k THEN n ELSE s[i - 1]
  BY DEF With
<1>2. \A i, j \in 1..m : i < j => e[s[i]] <= e[s[j]]
  BY DEF Sorted
<1>3. \A i \in 1..m : e[s[i]] \in Nat
  OBVIOUS
<1>4. \A i \in 1..m : i >= k => e[n] <= e[s[i]]
  <2> SUFFICES ASSUME NEW i \in 1..m, i >= k PROVE e[n] <= e[s[i]]
    OBVIOUS
  <2>1. k \in 1..m /\ e[n] < e[s[k]] /\ e[n] \in Nat
    OBVIOUS
  <2>2. i = k \/ k < i
    OBVIOUS
  <2> QED BY <1>2, <1>3, <2>1, <2>2
<1> HIDE DEF t
<1>5. ASSUME NEW i \in 1..(m + 1), NEW j \in 1..(m + 1), i < j PROVE e[t[i]] <= e[t[j]]
  <2>1. CASE i < k /\ j < k
    <3>1. i \in 1..m /\ j \in 1..m /\ t[i] = s[i] /\ t[j] = s[j]
      BY <1>1, <2>1
    <3> QED BY <1>2, <1>5, <3>1
  <2>2. CASE i < k /\ j = k
    <3>1. i \in 1..(k - 1) /\ t[i] = s[i] /\ t[j] = n
      BY <1>1, <2>2
    <3> QED BY <3>1
  <2>3. CASE i < k /\ j > k
    <3>1. i \in 1..m /\ j - 1 \in 1..m /\ i < j - 1 /\ t[i] = s[i] /\ t[j] = s[j - 1]
      BY <1>1, <2>3
    <3> QED BY <1>2, <3>1
  <2>4. CASE i = k
    <3>1. j - 1 \in 1..m /\ j - 1 >= k /\ t[i] = n /\ t[j] = s[j - 1]
      BY <1>1, <1>5, <2>4
    <3> QED BY <1>4, <3>1
  <2>5. CASE i > k
    <3>1. i - 1 \in 1..m /\ j - 1 \in 1..m /\ i - 1 < j - 1 /\ t[i] = s[i - 1] /\ t[j] = s[j - 1]
      BY <1>1, <1>5, <2>5
    <3> QED BY <1>2, <3>1
  <2> QED BY <1>5, <2>1, <2>2, <2>3, <2>4, <2>5
<1>6. Sorted(t, m + 1, e, loose)
  BY <1>5 DEF Sorted
<1> QED BY <1>6 DEF t

(* A node taken out.                                                        *)
LEMMA WithoutOrdered ==
  ASSUME NEW m \in Nat, NEW s \in [1..m -> Nodes], NEW k \in 1..m,
         \A i, j \in 1..m : s[i] = s[j] => i = j, NEW e, NEW loose
  PROVE  /\ Span(Without(s, m, k), m - 1) = Span(s, m) \ {s[k]}
         /\ Sorted(s, m, e, loose \cup {s[k]}) => Sorted(Without(s, m, k), m - 1, e, loose)
<1> DEFINE t == Without(s, m, k)
<1>1. \A i \in 1..(m - 1) : t[i] = IF i < k THEN s[i] ELSE s[i + 1]
  BY DEF Without
<1> HIDE DEF t
<1>2. Span(t, m - 1) \subseteq Span(s, m) \ {s[k]}
  <2> SUFFICES ASSUME NEW i \in 1..(m - 1) PROVE t[i] \in Span(s, m) \ {s[k]}
    BY DEF Span
  <2>1. CASE i < k
    <3>1. i \in 1..m /\ i # k /\ t[i] = s[i]
      BY <1>1, <2>1
    <3> QED BY <3>1 DEF Span
  <2>2. CASE ~(i < k)
    <3>1. i + 1 \in 1..m /\ i + 1 # k /\ t[i] = s[i + 1]
      BY <1>1, <2>2
    <3> QED BY <3>1 DEF Span
  <2> QED BY <2>1, <2>2
<1>3. Span(s, m) \ {s[k]} \subseteq Span(t, m - 1)
  <2> SUFFICES ASSUME NEW i \in 1..m, i # k PROVE s[i] \in Span(t, m - 1)
    BY DEF Span
  <2>1. CASE i < k
    <3>1. i \in 1..(m - 1) /\ t[i] = s[i]
      BY <1>1, <2>1
    <3> QED BY <3>1 DEF Span
  <2>2. CASE ~(i < k)
    <3>1. i - 1 \in 1..(m - 1) /\ ~(i - 1 < k) /\ (i - 1) + 1 = i
      BY <2>2
    <3>2. t[i - 1] = s[i]
      BY <1>1, <3>1
    <3> QED BY <3>1, <3>2 DEF Span
  <2> QED BY <2>1, <2>2
<1>4. ASSUME Sorted(s, m, e, loose \cup {s[k]}),
             NEW i \in 1..(m - 1), NEW j \in 1..(m - 1), i < j,
             t[i] \notin loose, t[j] \notin loose
      PROVE  e[t[i]] <= e[t[j]]
  <2>1. \A a, b \in 1..m : a < b /\ a # k /\ b # k /\ s[a] \notin loose /\ s[b] \notin loose
           => e[s[a]] <= e[s[b]]
    BY <1>4 DEF Sorted
  <2>2. CASE i < k /\ j < k
    <3>1. i \in 1..m /\ j \in 1..m /\ i # k /\ j # k /\ t[i] = s[i] /\ t[j] = s[j]
      BY <1>1, <2>2
    <3> QED BY <1>4, <2>1, <3>1
  <2>3. CASE i < k /\ ~(j < k)
    <3>1. i \in 1..m /\ j + 1 \in 1..m /\ i < j + 1 /\ i # k /\ j + 1 # k
          /\ t[i] = s[i] /\ t[j] = s[j + 1]
      BY <1>1, <2>3
    <3> QED BY <1>4, <2>1, <3>1
  <2>4. CASE ~(i < k)
    <3>1. i + 1 \in 1..m /\ j + 1 \in 1..m /\ i + 1 < j + 1 /\ i + 1 # k /\ j + 1 # k
          /\ t[i] = s[i + 1] /\ t[j] = s[j + 1]
      BY <1>1, <1>4, <2>4
    <3> QED BY <1>4, <2>1, <3>1
  <2> QED BY <2>2, <2>3, <2>4
<1> QED BY <1>2, <1>3, <1>4 DEF Sorted, t

(* The first nodes taken out.                                               *)
LEMMA RestOrdered ==
  ASSUME NEW m \in Nat, NEW s \in [1..m -> Nodes], NEW k \in 1..m,
         \A i, j \in 1..m : s[i] = s[j] => i = j, NEW e, NEW loose
  PROVE  /\ Span(Rest(s, m, k), m - k) = Span(s, m) \ {s[i] : i \in 1..k}
         /\ Sorted(s, m, e, loose) => Sorted(Rest(s, m, k), m - k, e, loose)
<1> DEFINE t == Rest(s, m, k)
<1>1. \A i \in 1..(m - k) : i + k \in 1..m /\ t[i] = s[i + k] /\ i + k \notin 1..k
  BY DEF Rest
<1> HIDE DEF t
<1>2. Span(t, m - k) \subseteq Span(s, m) \ {s[i] : i \in 1..k}
  <2> SUFFICES ASSUME NEW i \in 1..(m - k), NEW j \in 1..k PROVE t[i] \in Span(s, m) /\ t[i] # s[j]
    BY DEF Span
  <2>1. j \in 1..m /\ j # i + k
    OBVIOUS
  <2> QED BY <1>1, <2>1 DEF Span
<1>3. Span(s, m) \ {s[i] : i \in 1..k} \subseteq Span(t, m - k)
  <2> SUFFICES ASSUME NEW i \in 1..m, s[i] \notin {s[j] : j \in 1..k} PROVE s[i] \in Span(t, m - k)
    BY DEF Span
  <2>1. i \notin 1..k
    OBVIOUS
  <2>2. i - k \in 1..(m - k) /\ (i - k) + k = i
    BY <2>1
  <2> QED BY <1>1, <2>2 DEF Span
<1>4. ASSUME Sorted(s, m, e, loose) PROVE Sorted(t, m - k, e, loose)
  <2> SUFFICES ASSUME NEW i \in 1..(m - k), NEW j \in 1..(m - k), i < j,
                      t[i] \notin loose, t[j] \notin loose
               PROVE  e[t[i]] <= e[t[j]]
    BY DEF Sorted
  <2>1. i + k < j + k
    OBVIOUS
  <2> QED BY <1>1, <1>4, <2>1 DEF Sorted
<1> QED BY <1>2, <1>3, <1>4 DEF t

(* A new node is nobody's.                                                  *)
LEMMA MakeKeeps ==
  ASSUME NEW c \in Clients, ListInv, Make(c) PROVE ListInv'
<1>1. PICK m, s : Picture(s, m) /\ Order(list) = s /\ Listed = Span(s, m)
  BY Pictures DEF ListInv
<1>2. PICK n \in Nodes \ (alive \cup Held \cup ToSet(batch)), t \in Times :
         /\ alive' = alive \cup {n}
         /\ expire' = [expire EXCEPT ![n] = t]
         /\ owner' = [owner EXCEPT ![n] = c]
         /\ timer' = [timer EXCEPT ![c] = n]
         /\ cpc' = [cpc EXCEPT ![c] = "add"] /\ node' = [node EXCEPT ![c] = n]
  BY DEF Make, Calls
<1>3. /\ list' = list /\ batch' = batch /\ raced' = raced /\ mixed' = mixed
      /\ cpc[c] = "idle" /\ timer[c] = Null /\ Null \notin Nodes
  BY ListAssumption DEF Make
<1>4. ListTypeOK
  BY DEF ListInv
<1>5. \A d \in Clients : cpc[d] # "idle" => node[d] # n
  BY <1>2 DEF Held
<1>6. \A d \in Clients \ {c} : timer'[d] = timer[d] /\ cpc'[d] = cpc[d] /\ node'[d] = node[d]
  BY <1>2, <1>4 DEF ListTypeOK
<1>7. timer'[c] = n /\ cpc'[c] = "add" /\ node'[c] = n
  BY <1>2, <1>4 DEF ListTypeOK
<1>8. owner'[n] = c /\ expire'[n] = t /\ \A x \in Nodes \ {n} : owner'[x] = owner[x] /\ expire'[x] = expire[x]
  BY <1>2, <1>4 DEF ListTypeOK
<1>9. n \notin Listed
  BY <1>1, <1>2 DEF Picture
<1>10. Picture(s, m)'
  <2>1. ToMove' = ToMove
    BY <1>3, <1>6, <1>7 DEF ToMove
  <2>2. Chain(list, s, m) /\ Span(s, m) \subseteq alive
    BY <1>1 DEF Picture
  <2>3. \A i \in 1..m : s[i] \in Nodes \ {n}
    BY <1>1, <1>9, <2>2 DEF Span, Chain
  <2>4. Sorted(s, m, expire, ToMove) => Sorted(s, m, expire', ToMove)
    BY <1>8, <2>3 DEF Sorted
  <2> QED BY <1>1, <1>2, <1>3, <2>1, <2>2, <2>4 DEF Picture
<1>11. ListIntact' /\ InOrder' /\ Listed' = Listed
  BY <1>1, <1>10, PictureAfter
<1>12. ListTypeOK'
  <2>1. /\ expire' \in [Nodes -> 0 .. MaxTime] /\ owner' \in [Nodes -> Clients \cup {Null}]
        /\ alive' \subseteq Nodes
    BY <1>2, <1>4 DEF ListTypeOK, Times
  <2>2. timer' \in [Clients -> Pointer] /\ node' \in [Clients -> Pointer]
    BY <1>2, <1>4 DEF ListTypeOK, Pointer
  <2>3. cpc' \in [Clients -> {"idle", "add", "read", "adjust"}]
    BY <1>2, <1>4 DEF ListTypeOK
  <2> QED BY <1>3, <1>4, <2>1, <2>2, <2>3 DEF ListTypeOK
<1>13. OwnNodes'
  <2>1. OwnNodes /\ alive \subseteq Nodes
    BY <1>4 DEF ListInv, ListTypeOK
  <2>2. \A x \in alive' : owner'[x] \in Clients
    BY <1>2, <1>8, <2>1 DEF OwnNodes
  <2>3. \A d \in Clients : timer'[d] # Null =>
           timer'[d] \in alive' /\ owner'[timer'[d]] = d /\ timer'[d] \notin ToSet(batch)
    BY <1>2, <1>6, <1>7, <1>8, <2>1 DEF OwnNodes
  <2>4. \A d \in Clients : cpc'[d] # "idle" =>
           node'[d] \in Nodes /\ (node'[d] \in alive' => owner'[node'[d]] = d)
    BY <1>2, <1>5, <1>6, <1>7, <1>8, <2>1 DEF OwnNodes
  <2> QED BY <1>3, <2>2, <2>3, <2>4 DEF OwnNodes
<1>14. Apart'
  <2>1. Apart
    BY DEF ListInv
  <2> QED BY <1>2, <1>3, <1>6, <1>7, <1>9, <1>11, <2>1 DEF Apart
<1>15. NoDangling'
  <2>1. NoDangling /\ alive \subseteq Nodes
    BY <1>4 DEF ListInv, ListTypeOK
  <2>2. ASSUME ~raced PROVE \A d \in Clients : cpc'[d] # "idle" => HoldsOwn(d)'
    <3>1. \A d \in Clients : cpc[d] # "idle" => node[d] \in alive /\ owner[node[d]] = d
      BY <2>1, <2>2 DEF NoDangling, HoldsOwn
    <3> QED BY <1>2, <1>6, <1>7, <1>8, <2>1, <3>1 DEF HoldsOwn
  <2>3. ToSet(batch') = ToSet(batch)
    BY <1>3
  <2> QED BY <1>2, <1>3, <1>13, <2>1, <2>2, <2>3 DEF NoDangling, OwnNodes
<1> QED BY <1>11, <1>12, <1>13, <1>14, <1>15 DEF ListInv

(* The client has the node its own data points to.                          *)
LEMMA ReadTimerKeeps ==
  ASSUME NEW c \in Clients, ListInv, ReadTimer(c) PROVE ListInv'
<1>1. PICK m, s : Picture(s, m) /\ Order(list) = s /\ Listed = Span(s, m)
  BY Pictures DEF ListInv
<1>2. /\ cpc[c] = "idle" /\ timer[c] # Null
      /\ cpc' = [cpc EXCEPT ![c] = "read"] /\ node' = [node EXCEPT ![c] = timer[c]]
      /\ list' = list /\ expire' = expire /\ owner' = owner /\ alive' = alive /\ timer' = timer
      /\ batch' = batch /\ raced' = raced /\ mixed' = mixed
  BY DEF ReadTimer, Calls, memory
<1>3. ListTypeOK /\ OwnNodes /\ Apart /\ NoDangling
  BY DEF ListInv
<1>4. \A d \in Clients \ {c} : cpc'[d] = cpc[d] /\ node'[d] = node[d]
  BY <1>2, <1>3 DEF ListTypeOK
<1>5. cpc'[c] = "read" /\ node'[c] = timer[c]
  BY <1>2, <1>3 DEF ListTypeOK
<1>6. timer[c] \in alive /\ owner[timer[c]] = c /\ timer[c] \notin ToSet(batch) /\ timer[c] \in Nodes
  BY <1>2, <1>3 DEF OwnNodes, ListTypeOK, Pointer
<1>7. Picture(s, m)'
  <2>1. ToMove' = ToMove
    BY <1>2, <1>4, <1>5 DEF ToMove
  <2> QED BY <1>1, <1>2, <2>1 DEF Picture
<1>8. ListIntact' /\ InOrder' /\ Listed' = Listed
  BY <1>1, <1>7, PictureAfter
<1>9. ListTypeOK'
  BY <1>2, <1>3, <1>6 DEF ListTypeOK, Pointer
<1>10. OwnNodes'
  BY <1>2, <1>3, <1>4, <1>5, <1>6 DEF OwnNodes
<1>11. Apart'
  BY <1>2, <1>3, <1>4, <1>5, <1>6, <1>8 DEF Apart
<1>12. NoDangling'
  BY <1>2, <1>3, <1>4, <1>5, <1>6 DEF NoDangling, HoldsOwn
<1> QED BY <1>8, <1>9, <1>10, <1>11, <1>12 DEF ListInv

(* The node may be out of order until its adjust_timer.                     *)
LEMMA SetExpireKeeps ==
  ASSUME NEW c \in Clients, ListInv, SetExpire(c) PROVE ListInv'
<1>1. PICK m, s : Picture(s, m) /\ Order(list) = s /\ Listed = Span(s, m)
  BY Pictures DEF ListInv
<1>2. PICK t \in Times : expire' = [expire EXCEPT ![node[c]] = t]
  BY DEF SetExpire
<1>3. /\ cpc[c] = "read" /\ HoldsOwn(c)
      /\ cpc' = [cpc EXCEPT ![c] = "adjust"] /\ node' = [node EXCEPT ![c] = node[c]]
      /\ list' = list /\ owner' = owner /\ alive' = alive /\ timer' = timer
      /\ batch' = batch /\ raced' = raced /\ mixed' = mixed
  BY DEF SetExpire, Calls
<1>4. ListTypeOK /\ OwnNodes /\ Apart /\ NoDangling
  BY DEF ListInv
<1>5. node' = node /\ \A d \in Clients \ {c} : cpc'[d] = cpc[d]
  BY <1>3, <1>4 DEF ListTypeOK
<1>6. cpc'[c] = "adjust"
  BY <1>3, <1>4 DEF ListTypeOK
<1>7. Picture(s, m)'
  <2>1. ToMove' = ToMove \cup {node[c]}
    BY <1>3, <1>5, <1>6 DEF ToMove
  <2>2. Chain(list, s, m) /\ Span(s, m) \subseteq alive
    BY <1>1 DEF Picture
  <2>3. \A x \in Nodes : x # node[c] => expire'[x] = expire[x]
    BY <1>2, <1>4 DEF ListTypeOK
  <2>4. \A i \in 1..m : s[i] \in Nodes
    BY <2>2 DEF Chain
  <2>5. Sorted(s, m, expire, ToMove) => Sorted(s, m, expire', ToMove')
    BY <2>1, <2>3, <2>4 DEF Sorted
  <2> QED BY <1>1, <1>3, <2>2, <2>5 DEF Picture
<1>8. ListIntact' /\ InOrder' /\ Listed' = Listed
  BY <1>1, <1>7, PictureAfter
<1>9. ListTypeOK'
  <2>1. expire' \in [Nodes -> 0 .. MaxTime]
    <3>1. t \in 0 .. MaxTime
      BY ListAssumption DEF Times
    <3> QED BY <1>2, <1>4, <3>1 DEF ListTypeOK
  <2>2. cpc' \in [Clients -> {"idle", "add", "read", "adjust"}]
    BY <1>3, <1>4 DEF ListTypeOK
  <2> QED BY <1>3, <1>4, <1>5, <2>1, <2>2 DEF ListTypeOK
<1>10. OwnNodes'
  BY <1>3, <1>4, <1>5, <1>6 DEF OwnNodes
<1>11. Apart'
  BY <1>3, <1>4, <1>5, <1>6, <1>8 DEF Apart
<1>12. NoDangling'
  BY <1>3, <1>4, <1>5, <1>6 DEF NoDangling, HoldsOwn
<1> QED BY <1>8, <1>9, <1>10, <1>11, <1>12 DEF ListInv

-----------------------------------------------------------------------------
(* Nothing in the list but node[c] waits for adjust_timer.                  *)
LEMMA OthersInPlace ==
  ASSUME NEW c \in Clients, NEW s, NEW m, Picture(s, m), Listed = Span(s, m),
         ~mixed, Dirty(c) = {}
  PROVE  Sorted(s, m, expire, {node[c]})
<1>1. \A i \in 1..m : s[i] \in ToMove => s[i] = node[c]
  <2> SUFFICES ASSUME NEW i \in 1..m, s[i] \in ToMove, s[i] # node[c] PROVE FALSE
    OBVIOUS
  <2>1. s[i] \in Listed
    BY DEF Span
  <2>2. s[i] \in Dirty(c)
    BY <2>1 DEF Dirty, ToMove
  <2> QED BY <2>2
<1> QED BY <1>1 DEF Picture, Sorted

(* The node goes where it belongs, unless another one is out of place.      *)
LEMMA AddTimerKeeps ==
  ASSUME NEW c \in Clients, ListInv, AddTimer(c) PROVE ListInv'
<1>1. PICK m, s : Picture(s, m) /\ Order(list) = s /\ Listed = Span(s, m)
  BY Pictures DEF ListInv
<1>2. /\ cpc[c] = "add" /\ HoldsOwn(c)
      /\ cpc' = [cpc EXCEPT ![c] = "idle"] /\ node' = [node EXCEPT ![c] = Null]
      /\ mixed' = (mixed \/ Dirty(c) # {})
      /\ expire' = expire /\ owner' = owner /\ alive' = alive /\ timer' = timer
      /\ batch' = batch /\ raced' = raced
  BY DEF AddTimer, Calls
<1>3. list' = Inserted(list, node[c])
  BY DEF AddTimer
<1>4. ListTypeOK /\ OwnNodes /\ Apart /\ NoDangling
  BY DEF ListInv
<1>5. Chain(list, s, m) /\ Span(s, m) \subseteq alive /\ m \in Nat /\ s \in [1..m -> Nodes]
  BY <1>1 DEF Picture, Chain
<1>6. node[c] \in Nodes /\ node[c] \in alive /\ owner[node[c]] = c /\ node[c] \notin Listed
      /\ node[c] \notin ToSet(batch)
  BY <1>2, <1>4 DEF OwnNodes, HoldsOwn, Apart
<1>7. expire \in [Nodes -> Nat]
  BY <1>4, ListAssumption DEF ListTypeOK
<1>8. Outside(node[c], s, m)
  BY <1>1, <1>6 DEF Outside, Span
<1>9. PICK k \in 1..(m + 1) :
         /\ Chain(list', With(s, m, k, node[c]), m + 1)
         /\ \A i \in 1..(k - 1) : expire[s[i]] <= expire[node[c]]
         /\ k # m + 1 => expire[node[c]] < expire[s[k]]
  BY <1>3, <1>5, <1>6, <1>7, <1>8, InsertedChain
<1>20. PICK t : t = With(s, m, k, node[c])
  OBVIOUS
<1>10. ASSUME Sorted(s, m, expire, {})
       PROVE  Sorted(t, m + 1, expire, ToMove')
  BY <1>5, <1>6, <1>7, <1>9, <1>10, <1>20, WithOrdered
<1>11. Span(t, m + 1) = Span(s, m) \cup {node[c]}
  BY <1>5, <1>6, <1>9, <1>20, WithSpan
<1>12. ASSUME ~mixed' PROVE Sorted(s, m, expire, {})
  <2>1. Sorted(s, m, expire, {node[c]})
    BY <1>1, <1>2, <1>12, OthersInPlace
  <2> QED BY <1>8, <2>1 DEF Sorted, Outside
<1>13. Picture(t, m + 1)'
  <2>1. Chain(list', t, m + 1)
    BY <1>9, <1>20
  <2> QED BY <1>2, <1>5, <1>6, <1>10, <1>11, <1>12, <2>1 DEF Picture
<1>14. ListIntact' /\ InOrder' /\ Listed' = Listed \cup {node[c]}
  BY <1>1, <1>11, <1>13, PictureAfter
<1>15. /\ \A d \in Clients \ {c} : cpc'[d] = cpc[d] /\ node'[d] = node[d]
       /\ cpc'[c] = "idle" /\ node'[c] = Null
  BY <1>2, <1>4 DEF ListTypeOK
<1>16. ListTypeOK'
  <2>1. list' \in [head : Pointer, tail : Pointer, prev : [Nodes -> Pointer], next : [Nodes -> Pointer]]
    BY <1>9 DEF Chain
  <2> QED BY <1>2, <1>4, <2>1 DEF ListTypeOK, Pointer
<1>17. OwnNodes'
  BY <1>2, <1>4, <1>15 DEF OwnNodes
<1>18. Apart'
  <2>1. ASSUME NEW d \in Clients, cpc'[d] = "add" PROVE node'[d] \notin Listed' \cup ToSet(batch')
    <3>1. d # c /\ cpc[d] = "add" /\ node'[d] = node[d]
      BY <1>15, <2>1
    <3>2. node[d] # node[c]
      BY <1>4, <1>6, <3>1 DEF OwnNodes
    <3> QED BY <1>2, <1>4, <1>14, <3>1, <3>2 DEF Apart
  <2> QED BY <1>2, <1>4, <1>6, <1>14, <1>15, <2>1 DEF Apart
<1>19. NoDangling'
  BY <1>2, <1>4, <1>15 DEF NoDangling, HoldsOwn
<1> QED BY <1>14, <1>16, <1>17, <1>18, <1>19 DEF ListInv

(* In place, or taken out and inserted; out of the list, nothing happens.   *)
LEMMA AdjustTimerKeeps ==
  ASSUME NEW c \in Clients, ListInv, AdjustTimer(c) PROVE ListInv'
<1>1. PICK m, s : Picture(s, m) /\ Order(list) = s /\ Listed = Span(s, m)
  BY Pictures DEF ListInv
<1>2. /\ cpc[c] = "adjust" /\ HoldsOwn(c)
      /\ cpc' = [cpc EXCEPT ![c] = "idle"] /\ node' = [node EXCEPT ![c] = Null]
      /\ mixed' = (mixed \/ Dirty(c) # {})
      /\ expire' = expire /\ owner' = owner /\ alive' = alive /\ timer' = timer
      /\ batch' = batch /\ raced' = raced
  BY DEF AdjustTimer, Calls
<1>3. list' = IF InPlace(list, node[c]) THEN list ELSE Inserted(Unlinked(list, node[c]), node[c])
  BY DEF AdjustTimer
<1>4. ListTypeOK /\ OwnNodes /\ Apart /\ NoDangling
  BY DEF ListInv
<1>5. /\ Chain(list, s, m) /\ Span(s, m) \subseteq alive /\ m \in Nat /\ s \in [1..m -> Nodes]
      /\ \A i, j \in 1..m : s[i] = s[j] => i = j
  BY <1>1 DEF Picture, Chain
<1>6. PICK n \in Nodes : n = node[c]
  BY <1>2, <1>4 DEF OwnNodes
<1>7. expire \in [Nodes -> Nat]
  BY <1>4, ListAssumption DEF ListTypeOK
<1>8. ASSUME ~mixed' PROVE Sorted(s, m, expire, {n})
  BY <1>1, <1>2, <1>6, <1>8, OthersInPlace
<1>9. Null \notin Nodes
  BY ListAssumption
<1>10. \E u, v : Picture(v, u)' /\ Span(v, u) = Span(s, m)
  <2>1. CASE ~InPlace(list, n)
    <3>1. list' = Inserted(Unlinked(list, n), n)
      BY <1>3, <1>6, <2>1
    <3>2. PICK k \in 1..m : s[k] = n
      <4> SUFFICES ASSUME \A k \in 1..m : s[k] # n PROVE FALSE
        OBVIOUS
      <4>1. list.prev[n] = Null /\ list.next[n] = Null
        BY <1>5 DEF Chain
      <4> QED BY <2>1, <4>1 DEF InPlace
    <3>3. PICK w : w = Without(s, m, k)
      OBVIOUS
    <3>4. PICK r : r = Unlinked(list, n)
      OBVIOUS
    <3>5. Chain(r, w, m - 1)
      BY <1>5, <3>2, <3>3, <3>4, UnlinkedChain
    <3>6. m - 1 \in Nat /\ w \in [1..(m - 1) -> Nodes]
      BY <3>5 DEF Chain
    <3>7. Span(w, m - 1) = Span(s, m) \ {n}
      BY <1>5, <3>2, <3>3, WithoutOrdered
    <3>8. Sorted(s, m, expire, {n}) => Sorted(w, m - 1, expire, {})
      <4>1. {n} = {} \cup {s[k]}
        BY <3>2
      <4>2. Sorted(s, m, expire, {} \cup {s[k]}) => Sorted(Without(s, m, k), m - 1, expire, {})
        BY <1>5, WithoutOrdered
      <4> QED BY <3>3, <4>1, <4>2
    <3>9. Outside(n, w, m - 1)
      BY <3>7 DEF Outside, Span
    <3>10. list' = Inserted(r, n)
      BY <3>1, <3>4
    <3>11. PICK p \in 1..((m - 1) + 1) :
              /\ Chain(list', With(w, m - 1, p, n), (m - 1) + 1)
              /\ \A i \in 1..(p - 1) : expire[w[i]] <= expire[n]
              /\ p # (m - 1) + 1 => expire[n] < expire[w[p]]
      BY <1>7, <3>5, <3>9, <3>10, InsertedChain
    <3>12. PICK v : v = With(w, m - 1, p, n)
      OBVIOUS
    <3>13. Span(v, (m - 1) + 1) = Span(w, m - 1) \cup {n}
      BY <3>6, <3>11, <3>12, WithSpan
    <3>14. ASSUME Sorted(w, m - 1, expire, {}) PROVE Sorted(v, (m - 1) + 1, expire, ToMove')
      BY <1>7, <3>6, <3>11, <3>12, <3>14, WithOrdered
    <3>15. n \in Span(s, m)
      BY <3>2 DEF Span
    <3>16. Span(v, (m - 1) + 1) = Span(s, m)
      BY <3>7, <3>13, <3>15
    <3>17. Picture(v, (m - 1) + 1)'
      <4>1. Chain(list', v, (m - 1) + 1)
        BY <3>11, <3>12
      <4> QED BY <1>2, <1>5, <1>8, <3>8, <3>14, <3>16, <4>1 DEF Picture
    <3> QED BY <3>16, <3>17
  <2>2. CASE InPlace(list, n)
    <3>1. list' = list
      BY <1>3, <1>6, <2>2
    <3>2. ASSUME Sorted(s, m, expire, {n}) PROVE Sorted(s, m, expire, ToMove')
      <4>1. \A i \in 1..m : expire[s[i]] \in Nat
        BY <1>5, <1>7
      <4>2. CASE \A i \in 1..m : s[i] # n
        BY <3>2, <4>2 DEF Sorted
      <4>3. CASE \E k \in 1..m : s[k] = n
        <5>1. PICK k \in 1..m : s[k] = n
          BY <4>3
        <5>2. /\ list.prev[n] = IF k = 1 THEN Null ELSE s[k - 1]
              /\ list.next[n] = IF k = m THEN Null ELSE s[k + 1]
          BY <1>5, <5>1 DEF Chain
        <5>3. k # 1 => k - 1 \in 1..m /\ expire[s[k - 1]] <= expire[n]
          BY <1>5, <1>9, <2>2, <5>2 DEF InPlace
        <5>4. k # m => k + 1 \in 1..m /\ expire[n] <= expire[s[k + 1]]
          BY <1>5, <1>9, <2>2, <5>2 DEF InPlace
        <5>5. \A i, j \in 1..m : i < j /\ i # k /\ j # k => expire[s[i]] <= expire[s[j]]
          BY <1>5, <3>2, <5>1 DEF Sorted
        <5>6. ASSUME NEW i \in 1..m, i < k PROVE expire[s[i]] <= expire[s[k]]
          <6>1. k - 1 \in 1..m /\ k - 1 # k /\ i # k /\ (i = k - 1 \/ i < k - 1) /\ k # 1
            BY <1>5, <5>1, <5>6
          <6>2. expire[s[i]] <= expire[s[k - 1]]
            BY <4>1, <5>5, <6>1
          <6> QED BY <4>1, <5>1, <5>3, <6>1, <6>2
        <5>7. ASSUME NEW j \in 1..m, k < j PROVE expire[s[k]] <= expire[s[j]]
          <6>1. k + 1 \in 1..m /\ k + 1 # k /\ j # k /\ (j = k + 1 \/ k + 1 < j) /\ k # m
            BY <1>5, <5>7
          <6>2. expire[s[k + 1]] <= expire[s[j]]
            BY <4>1, <5>5, <6>1
          <6> QED BY <4>1, <5>1, <5>4, <6>1, <6>2
        <5> QED BY <5>5, <5>6, <5>7 DEF Sorted
      <4> QED BY <4>2, <4>3
    <3>3. Picture(s, m)'
      BY <1>2, <1>5, <1>8, <3>1, <3>2 DEF Picture
    <3> QED BY <3>3
  <2> QED BY <2>1, <2>2
<1>11. PICK u, v : Picture(v, u)' /\ Span(v, u) = Span(s, m)
  BY <1>10
<1>12. ListIntact' /\ InOrder' /\ Listed' = Listed
  BY <1>1, <1>11, PictureAfter
<1>13. /\ \A d \in Clients \ {c} : cpc'[d] = cpc[d] /\ node'[d] = node[d]
       /\ cpc'[c] = "idle" /\ node'[c] = Null
  BY <1>2, <1>4 DEF ListTypeOK
<1>14. ListTypeOK'
  <2>1. list' \in [head : Pointer, tail : Pointer, prev : [Nodes -> Pointer], next : [Nodes -> Pointer]]
    BY <1>11 DEF Chain, Picture
  <2> QED BY <1>2, <1>4, <2>1 DEF ListTypeOK, Pointer
<1>15. OwnNodes'
  BY <1>2, <1>4, <1>13 DEF OwnNodes
<1>16. Apart'
  BY <1>2, <1>4, <1>12, <1>13 DEF Apart
<1>17. NoDangling'
  BY <1>2, <1>4, <1>13 DEF NoDangling, HoldsOwn
<1> QED BY <1>12, <1>14, <1>15, <1>16, <1>17 DEF ListInv

-----------------------------------------------------------------------------
(* What del_timer and a callback of tick have in common: the nodes of gone   *)
(* leave the memory, one of them, at most, the list.                        *)
LEMMA Removed ==
  ASSUME ListInv, NEW n \in Nodes, list' = Unlinked(list, n), NEW gone,
         alive' = alive \ gone, gone \cap Listed \subseteq {n}, n \in gone,
         \A x \in Nodes \ gone : expire'[x] = expire[x],
         ToMove' = ToMove, mixed' = mixed
  PROVE  /\ ListIntact' /\ InOrder' /\ Listed' = Listed \ {n}
         /\ list' \in [head : Pointer, tail : Pointer, prev : [Nodes -> Pointer], next : [Nodes -> Pointer]]
<1>1. PICK m, s : Picture(s, m) /\ Order(list) = s /\ Listed = Span(s, m)
  BY Pictures DEF ListInv
<1>2. /\ Chain(list, s, m) /\ Span(s, m) \subseteq alive /\ m \in Nat /\ s \in [1..m -> Nodes]
      /\ \A i, j \in 1..m : s[i] = s[j] => i = j
  BY <1>1 DEF Picture, Chain
<1>3. \E u, v : Chain(list', v, u) /\ Span(v, u) = Span(s, m) \ {n}
                /\ (Sorted(s, m, expire, ToMove) => Sorted(v, u, expire, ToMove))
  <2>1. CASE \A k \in 1..m : s[k] # n
    <3>1. list' = list
      BY <1>2, <2>1, UnlinkedChain DEF Outside
    <3>2. Span(s, m) = Span(s, m) \ {n}
      BY <2>1 DEF Span
    <3> QED BY <1>2, <3>1, <3>2
  <2>2. CASE \E k \in 1..m : s[k] = n
    <3>1. PICK k \in 1..m : s[k] = n
      BY <2>2
    <3>2. PICK v : v = Without(s, m, k)
      OBVIOUS
    <3>3. Chain(list', v, m - 1)
      BY <1>2, <3>1, <3>2, UnlinkedChain
    <3>4. /\ Span(v, m - 1) = Span(s, m) \ {n}
          /\ Sorted(s, m, expire, ToMove \cup {n}) => Sorted(v, m - 1, expire, ToMove)
      <4>1. /\ Span(Without(s, m, k), m - 1) = Span(s, m) \ {s[k]}
            /\ Sorted(s, m, expire, ToMove \cup {s[k]}) => Sorted(Without(s, m, k), m - 1, expire, ToMove)
        BY <1>2, <3>1, WithoutOrdered
      <4> QED BY <3>1, <3>2, <4>1
    <3>5. Sorted(s, m, expire, ToMove) => Sorted(s, m, expire, ToMove \cup {n})
      BY DEF Sorted
    <3> QED BY <3>3, <3>4, <3>5
  <2> QED BY <2>1, <2>2
<1>4. PICK u, v : /\ Chain(list', v, u) /\ Span(v, u) = Span(s, m) \ {n}
                  /\ Sorted(s, m, expire, ToMove) => Sorted(v, u, expire, ToMove)
  BY <1>3
<1>5. \A i \in 1..u : v[i] \in Nodes \ gone
  <2> SUFFICES ASSUME NEW i \in 1..u PROVE v[i] \in Nodes \ gone
    OBVIOUS
  <2>1. v[i] \in Nodes
    BY <1>4 DEF Chain
  <2>2. v[i] \in Listed \ {n}
    BY <1>1, <1>4 DEF Span
  <2> QED BY <2>1, <2>2
<1>6. Sorted(v, u, expire, ToMove) => Sorted(v, u, expire', ToMove')
  BY <1>5 DEF Sorted
<1>7. Span(v, u) \subseteq alive'
  BY <1>1, <1>2, <1>4
<1>8. Picture(v, u)'
  BY <1>1, <1>4, <1>6, <1>7 DEF Picture
<1>9. ListIntact' /\ InOrder' /\ Listed' = Listed \ {n}
  BY <1>1, <1>4, <1>8, PictureAfter
<1> QED BY <1>4, <1>9 DEF Chain

(* The node leaves the list, if tick has left it there, and the memory.     *)
LEMMA DelTimerKeeps ==
  ASSUME NEW c \in Clients, ListInv, DelTimer(c) PROVE ListInv'
<1>1. ListTypeOK /\ OwnNodes /\ Apart /\ NoDangling
  BY DEF ListInv
<1>2. cpc[c] = "read" /\ node[c] \in alive /\ owner[node[c]] = c /\ node[c] \in Nodes
  BY <1>1 DEF DelTimer, HoldsOwn, OwnNodes
<1>3. PICK n \in Nodes : n = node[c]
  BY <1>2
<1>4. /\ list' = Unlinked(list, n)
      /\ alive' = alive \ {n} /\ owner' = [owner EXCEPT ![n] = Null]
      /\ expire' = [expire EXCEPT ![n] = 0] /\ timer' = [timer EXCEPT ![c] = Null]
      /\ cpc' = [cpc EXCEPT ![c] = "idle"] /\ node' = [node EXCEPT ![c] = Null]
      /\ batch' = batch /\ raced' = raced /\ mixed' = mixed
  <2>1. Store(timer, c, Null) = [timer EXCEPT ![c] = Null]
    BY ListAssumption DEF Store
  <2> QED BY <1>2, <1>3, <2>1 DEF DelTimer, Free, Calls
<1>5. /\ \A d \in Clients \ {c} : cpc'[d] = cpc[d] /\ node'[d] = node[d] /\ timer'[d] = timer[d]
      /\ cpc'[c] = "idle" /\ node'[c] = Null /\ timer'[c] = Null
      /\ \A x \in Nodes \ {n} : expire'[x] = expire[x] /\ owner'[x] = owner[x]
  BY <1>1, <1>4 DEF ListTypeOK
<1>6. ToMove' = ToMove
  BY <1>2, <1>5 DEF ToMove
<1>7. /\ ListIntact' /\ InOrder' /\ Listed' = Listed \ {n}
      /\ list' \in [head : Pointer, tail : Pointer, prev : [Nodes -> Pointer], next : [Nodes -> Pointer]]
  BY <1>4, <1>5, <1>6, Removed
<1>8. ListTypeOK'
  <2>1. expire' \in [Nodes -> 0 .. MaxTime]
    <3>1. 0 \in 0 .. MaxTime
      BY ListAssumption
    <3> QED BY <1>1, <1>4, <3>1 DEF ListTypeOK
  <2>2. /\ owner' \in [Nodes -> Clients \cup {Null}] /\ alive' \subseteq Nodes
        /\ timer' \in [Clients -> Pointer] /\ node' \in [Clients -> Pointer]
        /\ cpc' \in [Clients -> {"idle", "add", "read", "adjust"}]
    BY <1>1, <1>4 DEF ListTypeOK, Pointer
  <2> QED BY <1>1, <1>4, <1>7, <2>1, <2>2 DEF ListTypeOK
<1>9. alive \subseteq Nodes
  BY <1>1 DEF ListTypeOK
<1>10. OwnNodes'
  <2>1. \A x \in alive' : owner'[x] \in Clients
    BY <1>1, <1>4, <1>5, <1>9 DEF OwnNodes
  <2>2. ASSUME NEW d \in Clients, timer'[d] # Null
        PROVE  timer'[d] \in alive' /\ owner'[timer'[d]] = d /\ timer'[d] \notin ToSet(batch)
    <3>1. d # c /\ timer'[d] = timer[d] /\ timer[d] \in alive /\ owner[timer[d]] = d
          /\ timer[d] \notin ToSet(batch)
      BY <1>1, <1>5, <2>2 DEF OwnNodes
    <3>2. timer[d] # n
      BY <1>2, <1>3, <3>1
    <3> QED BY <1>4, <1>5, <1>9, <3>1, <3>2
  <2>3. ASSUME NEW d \in Clients, cpc'[d] # "idle"
        PROVE  node'[d] \in Nodes /\ (node'[d] \in alive' => owner'[node'[d]] = d)
    <3>1. d # c /\ cpc[d] # "idle" /\ node'[d] = node[d]
      BY <1>5, <2>3
    <3> QED BY <1>1, <1>4, <1>5, <3>1 DEF OwnNodes
  <2> QED BY <1>4, <2>1, <2>2, <2>3 DEF OwnNodes
<1>11. Apart'
  BY <1>1, <1>4, <1>5, <1>7 DEF Apart
<1>12. NoDangling'
  <2>1. ASSUME ~raced
        PROVE  /\ \A d \in Clients : cpc'[d] # "idle" => HoldsOwn(d)'
               /\ ToSet(batch) \subseteq alive' /\ IsInjective(batch)
    <3>1. /\ \A d \in Clients : cpc[d] # "idle" => node[d] \in alive /\ owner[node[d]] = d
          /\ ToSet(batch) \subseteq alive /\ IsInjective(batch)
      BY <1>1, <2>1 DEF NoDangling, HoldsOwn
    <3>2. n \notin ToSet(batch)
      BY <1>1, <1>2, <1>3, <2>1 DEF Apart
    <3>3. ASSUME NEW d \in Clients, cpc'[d] # "idle"
          PROVE  node'[d] \in alive' /\ owner'[node'[d]] = d
      <4>1. d # c /\ node'[d] = node[d] /\ node[d] \in alive /\ owner[node[d]] = d
        BY <1>5, <3>1, <3>3
      <4>2. node[d] # n
        BY <1>2, <1>3, <4>1
      <4> QED BY <1>4, <1>5, <1>9, <4>1, <4>2
    <3> QED BY <1>4, <3>1, <3>2, <3>3 DEF HoldsOwn
  <2> QED BY <1>4, <1>10, <2>1 DEF NoDangling, OwnNodes
<1> QED BY <1>7, <1>8, <1>10, <1>11, <1>12 DEF ListInv

(* The expired nodes, a prefix, go from the list to the batch.              *)
LEMMA TickTakesKeeps ==
  ASSUME ListInv, TickTakes PROVE ListInv'
<1>1. PICK m, s : Picture(s, m) /\ Order(list) = s /\ Listed = Span(s, m)
  BY Pictures DEF ListInv
<1>2. /\ Chain(list, s, m) /\ Span(s, m) \subseteq alive /\ m \in Nat /\ s \in [1..m -> Nodes]
      /\ \A i, j \in 1..m : s[i] = s[j] => i = j
  BY <1>1 DEF Picture, Chain
<1>3. ListTypeOK /\ OwnNodes /\ Apart /\ NoDangling
  BY DEF ListInv
<1>23. PICK cur \in Times : /\ Due(s, cur) # <<>>
                            /\ batch' = Due(s, cur) /\ list' = Popped(list, Due(s, cur))
                            /\ timer' = PointersAfter(Due(s, cur))
                            /\ raced' = (raced \/ ToSet(Due(s, cur)) \cap Held # {})
  BY <1>1 DEF TickTakes
<1>24. PICK q : q = Due(s, cur)
  OBVIOUS
<1>4. /\ q = Due(s, cur) /\ q # <<>> /\ batch' = q /\ list' = Popped(list, q)
      /\ timer' = PointersAfter(q) /\ raced' = (raced \/ ToSet(q) \cap Held # {})
  BY <1>23, <1>24
<1>5. /\ expire' = expire /\ owner' = owner /\ alive' = alive /\ cpc' = cpc /\ node' = node
      /\ mixed' = mixed
  BY DEF TickTakes
<1>6. PICK k \in 0..m : q \in [1..k -> Nodes] /\ \A i \in 1..k : q[i] = s[i]
  <2>1. expire \in [Nodes -> Nat] /\ cur \in Nat
    BY <1>3, <1>23, ListAssumption DEF ListTypeOK, Times
  <2> QED BY <1>2, <1>4, <2>1, DueIs
<1>7. /\ q \in Seq(Nodes) /\ Len(q) = k /\ (q = <<>> <=> k = 0)
      /\ ToSet(q) = {q[i] : i \in 1..k}
  BY <1>6, Listing, k \in Nat
<1>8. k \in 1..m
  BY <1>4, <1>6, <1>7
<1>9. PICK v : v = Rest(s, m, k)
  OBVIOUS
<1>10. Chain(list', v, m - k)
  BY <1>2, <1>4, <1>6, <1>8, <1>9, PoppedChain
<1>11. /\ Span(v, m - k) = Span(s, m) \ {s[i] : i \in 1..k}
       /\ Sorted(s, m, expire, ToMove) => Sorted(v, m - k, expire, ToMove)
  BY <1>2, <1>8, <1>9, RestOrdered
<1>12. ToSet(q) = {s[i] : i \in 1..k} /\ ToSet(q) \subseteq Listed
  <2>1. \A i \in 1..k : i \in 1..m
    BY <1>2, <1>8
  <2> QED BY <1>1, <1>6, <1>7, <2>1 DEF Span
<1>13. ToMove' = ToMove
  BY <1>5 DEF ToMove
<1>14. Picture(v, m - k)'
  BY <1>1, <1>2, <1>5, <1>10, <1>11, <1>13 DEF Picture
<1>15. ListIntact' /\ InOrder' /\ Listed' = Listed \ ToSet(q)
  BY <1>1, <1>11, <1>12, <1>14, PictureAfter
<1>16. ToSet(q) \subseteq alive
  BY <1>1, <1>2, <1>12
<1>17. \A c \in Clients :
          timer'[c] = IF timer[c] # Null /\ timer[c] \in ToSet(q) THEN Null ELSE timer[c]
  BY <1>4 DEF PointersAfter
<1>18. IsInjective(q)
  <2>1. \A i, j \in 1..k : q[i] = q[j] => i = j
    BY <1>2, <1>6, <1>8
  <2> QED BY <1>6, <2>1 DEF IsInjective
<1>19. ListTypeOK'
  <2>1. timer' \in [Clients -> Pointer]
    BY <1>3, <1>4 DEF PointersAfter, ListTypeOK, Pointer
  <2>2. raced' \in BOOLEAN
    BY <1>4
  <2> QED BY <1>3, <1>4, <1>5, <1>7, <1>10, <2>1, <2>2 DEF ListTypeOK, Chain
<1>20. OwnNodes'
  BY <1>3, <1>4, <1>5, <1>17 DEF OwnNodes
<1>21. Apart'
  <2>1. \A c \in Clients : cpc[c] = "add" => node[c] \notin Listed \cup ToSet(q)
    BY <1>3, <1>12 DEF Apart
  <2>2. raced' \/ \A c \in Clients : cpc[c] # "idle" => node[c] \notin ToSet(q)
    BY <1>4 DEF Held
  <2> QED BY <1>4, <1>5, <1>15, <1>18, <2>1, <2>2 DEF Apart
<1>22. NoDangling'
  <2>1. ASSUME ~raced' PROVE \A c \in Clients : cpc'[c] # "idle" => HoldsOwn(c)'
    BY <1>3, <1>4, <1>5, <2>1 DEF NoDangling, HoldsOwn
  <2> QED BY <1>4, <1>5, <1>16, <1>18, <1>20, <2>1 DEF NoDangling, OwnNodes
<1> QED BY <1>15, <1>19, <1>20, <1>21, <1>22 DEF ListInv

(* What is left of the batch when its head has run.                         *)
LEMMA TailApart ==
  ASSUME NEW b \in Seq(Nodes), b # <<>>, IsInjective(b)
  PROVE  /\ Head(b) \in Nodes /\ Tail(b) \in Seq(Nodes) /\ IsInjective(Tail(b))
         /\ ToSet(Tail(b)) = ToSet(b) \ {Head(b)} /\ Head(b) \in ToSet(b)
<1> DEFINE n == Len(b)
           t == Tail(b)
<1>1. n \in Nat /\ n # 0 /\ DOMAIN b = 1..n /\ Head(b) = b[1]
  BY LenProperties, EmptySeq
<1>2. /\ Head(b) \in Nodes /\ t \in Seq(Nodes) /\ Len(t) = n - 1
      /\ \A i \in 1..Len(t) : t[i] = b[i + 1]
  BY HeadTailProperties
<1> HIDE DEF n, t
<1>3. DOMAIN t = 1..(n - 1) /\ \A i \in 1..(n - 1) : t[i] = b[i + 1] /\ i + 1 \in 1..n
  BY <1>1, <1>2, LenProperties
<1>4. \A i, j \in 1..n : b[i] = b[j] => i = j
  BY <1>1 DEF IsInjective
<1>5. IsInjective(t)
  <2> SUFFICES ASSUME NEW i \in 1..(n - 1), NEW j \in 1..(n - 1), t[i] = t[j] PROVE i = j
    BY <1>3 DEF IsInjective
  <2>1. i + 1 = j + 1
    BY <1>3, <1>4
  <2> QED BY <2>1
<1>6. ToSet(t) = {t[i] : i \in 1..(n - 1)} /\ ToSet(b) = {b[i] : i \in 1..n}
  BY <1>1, <1>2, <1>3 DEF ToSet, n
<1>7. \A i \in 1..(n - 1) : t[i] \in ToSet(b) /\ t[i] # b[1]
  <2> SUFFICES ASSUME NEW i \in 1..(n - 1) PROVE t[i] \in ToSet(b) /\ t[i] # b[1]
    OBVIOUS
  <2>1. i + 1 \in 1..n /\ 1 \in 1..n /\ i + 1 # 1
    BY <1>1
  <2> QED BY <1>3, <1>4, <1>6, <2>1
<1>8. \A i \in 1..n : b[i] # b[1] => b[i] \in ToSet(t)
  <2> SUFFICES ASSUME NEW i \in 1..n, b[i] # b[1] PROVE b[i] \in ToSet(t)
    OBVIOUS
  <2>1. i - 1 \in 1..(n - 1) /\ (i - 1) + 1 = i
    BY <1>1
  <2> QED BY <1>3, <1>6, <2>1
<1>9. 1 \in 1..n
  BY <1>1
<1> QED BY <1>1, <1>2, <1>5, <1>6, <1>7, <1>8, <1>9 DEF t

(* The head of the batch is freed, and what its callback deletes.           *)
LEMMA TickRunsKeeps ==
  ASSUME ListInv, TickRuns PROVE ListInv'
<1>1. ListTypeOK /\ OwnNodes /\ Apart /\ NoDangling
  BY DEF ListInv
<1>2. /\ batch # <<>> /\ Head(batch) \in alive /\ batch' = Tail(batch)
      /\ cpc' = cpc /\ node' = node /\ mixed' = mixed
  BY DEF TickRuns
<1>3. PICK h : h = Head(batch)
  OBVIOUS
<1>4. /\ h \in Nodes /\ batch' \in Seq(Nodes) /\ IsInjective(batch')
      /\ ToSet(batch') = ToSet(batch) \ {h} /\ h \in ToSet(batch) /\ h \notin Listed /\ h \in alive
  BY <1>1, <1>2, <1>3, TailApart DEF ListTypeOK, Apart
<1>5. PICK c \in Clients : c = owner[h]
  BY <1>1, <1>4 DEF OwnNodes
<1>6. alive \subseteq Nodes /\ 0 \in 0 .. MaxTime /\ ToMove' = ToMove
  BY <1>1, <1>2, ListAssumption DEF ListTypeOK, ToMove
<1>7. /\ \A d \in Clients : timer[d] # Null => timer[d] \in alive /\ timer[d] # h
                                               /\ owner[timer[d]] = d
      /\ \A d \in Clients : cpc[d] # "idle" =>
            node[d] \in Nodes /\ (node[d] \in alive => owner[node[d]] = d)
  BY <1>1, <1>4 DEF OwnNodes
<1>8. ~raced => /\ \A d \in Clients : cpc[d] # "idle" =>
                      node[d] \in alive /\ owner[node[d]] = d /\ node[d] # h
                /\ ToSet(batch) \subseteq alive
  BY <1>1, <1>4 DEF NoDangling, HoldsOwn, Apart
<1>9. CASE CallbackDeletes(owner[Head(batch)])
  <2>1. PICK n \in Nodes : n = timer[c] /\ timer[c] # Null
    BY <1>1, <1>3, <1>5, <1>9 DEF CallbackDeletes, ListTypeOK, Pointer
  <2>2. /\ list' = Unlinked(list, n) /\ alive' = alive \ {h, n}
        /\ owner' = [owner EXCEPT ![h] = Null, ![n] = Null]
        /\ expire' = [expire EXCEPT ![h] = 0, ![n] = 0]
        /\ timer' = [timer EXCEPT ![c] = Null]
        /\ raced' = (raced \/ n \in Held)
    BY <1>3, <1>5, <1>9, <2>1 DEF CallbackDeletes
  <2>3. \A x \in Nodes \ {h, n} : expire'[x] = expire[x] /\ owner'[x] = owner[x]
    BY <1>1, <2>2 DEF ListTypeOK
  <2>4. /\ timer'[c] = Null /\ \A d \in Clients \ {c} : timer'[d] = timer[d]
    BY <1>1, <2>2 DEF ListTypeOK
  <2>5. /\ ListIntact' /\ InOrder' /\ Listed' = Listed \ {n}
        /\ list' \in [head : Pointer, tail : Pointer, prev : [Nodes -> Pointer], next : [Nodes -> Pointer]]
    <3>1. PICK gone : gone = {h, n}
      OBVIOUS
    <3>2. gone \cap Listed \subseteq {n} /\ n \in gone /\ alive' = alive \ gone
          /\ \A x \in Nodes \ gone : expire'[x] = expire[x]
      BY <1>4, <2>2, <2>3, <3>1
    <3> QED BY <1>2, <1>6, <2>2, <3>2, Removed
  <2>6. ListTypeOK'
    <3>1. expire' \in [Nodes -> 0 .. MaxTime]
      BY <1>1, <1>6, <2>2 DEF ListTypeOK
    <3>2. /\ owner' \in [Nodes -> Clients \cup {Null}] /\ alive' \subseteq Nodes
          /\ timer' \in [Clients -> Pointer] /\ raced' \in BOOLEAN
      BY <1>1, <2>2 DEF ListTypeOK, Pointer
    <3> QED BY <1>1, <1>2, <1>4, <2>5, <3>1, <3>2 DEF ListTypeOK
  <2>7. ASSUME NEW d \in Clients, timer'[d] # Null
        PROVE  timer'[d] \in alive' /\ owner'[timer'[d]] = d /\ timer'[d] \notin ToSet(batch')
    <3>1. d # c /\ timer'[d] = timer[d] /\ timer[d] # Null
      BY <2>4, <2>7
    <3>2. timer[d] \in alive /\ owner[timer[d]] = d /\ timer[d] # h /\ timer[d] \notin ToSet(batch)
      BY <1>1, <1>4, <3>1 DEF OwnNodes
    <3>3. timer[d] # n
      BY <1>7, <2>1, <3>1, <3>2
    <3>4. timer[d] \in Nodes \ {h, n}
      BY <1>6, <3>2, <3>3
    <3>5. owner'[timer[d]] = d
      BY <2>3, <3>2, <3>4
    <3>6. timer[d] \in alive'
      BY <2>2, <3>2, <3>4
    <3>7. timer[d] \notin ToSet(batch')
      BY <1>4, <3>2
    <3> QED BY <3>1, <3>5, <3>6, <3>7
  <2>8. OwnNodes'
    <3>1. \A x \in alive' : owner'[x] \in Clients
      BY <1>1, <1>6, <2>2, <2>3 DEF OwnNodes
    <3>2. \A d \in Clients : cpc'[d] # "idle" =>
             node'[d] \in Nodes /\ (node'[d] \in alive' => owner'[node'[d]] = d)
      BY <1>2, <1>7, <2>2, <2>3
    <3> QED BY <2>7, <3>1, <3>2 DEF OwnNodes
  <2>9. Apart'
    BY <1>1, <1>2, <1>4, <2>2, <2>5 DEF Apart
  <2>10. NoDangling'
    <3>1. ASSUME ~raced'
          PROVE  /\ \A d \in Clients : cpc'[d] # "idle" => HoldsOwn(d)'
                 /\ ToSet(batch') \subseteq alive'
      <4>1. ~raced /\ n \notin Held
        BY <2>2, <3>1
      <4>2. \A d \in Clients : cpc[d] # "idle" => node[d] # n
        BY <4>1 DEF Held
      <4>3. n \notin ToSet(batch)
        BY <1>1, <2>1 DEF OwnNodes
      <4> QED BY <1>2, <1>4, <1>6, <1>8, <2>2, <2>3, <4>1, <4>2, <4>3 DEF HoldsOwn
    <3> QED BY <1>4, <2>8, <3>1 DEF NoDangling, OwnNodes
  <2> QED BY <2>5, <2>6, <2>8, <2>9, <2>10 DEF ListInv
<1>10. CASE /\ alive' = alive \ {Head(batch)}
            /\ owner' = [owner EXCEPT ![Head(batch)] = Null]
            /\ expire' = [expire EXCEPT ![Head(batch)] = 0]
            /\ UNCHANGED <<list, timer, raced>>
  <2>1. /\ alive' = alive \ {h} /\ owner' = [owner EXCEPT ![h] = Null]
        /\ expire' = [expire EXCEPT ![h] = 0]
        /\ list' = list /\ timer' = timer /\ raced' = raced
    BY <1>3, <1>10
  <2>2. \A x \in Nodes \ {h} : expire'[x] = expire[x] /\ owner'[x] = owner[x]
    BY <1>1, <2>1 DEF ListTypeOK
  <2>3. PICK m, s : Picture(s, m) /\ Order(list) = s /\ Listed = Span(s, m)
    BY Pictures DEF ListInv
  <2>4. Picture(s, m)'
    <3>1. \A i \in 1..m : s[i] \in Nodes \ {h}
      BY <1>4, <2>3 DEF Picture, Chain, Span
    <3>2. Sorted(s, m, expire, ToMove) => Sorted(s, m, expire', ToMove')
      BY <1>6, <2>2, <3>1 DEF Sorted
    <3>3. Span(s, m) \subseteq alive'
      BY <1>4, <2>1, <2>3 DEF Picture
    <3> QED BY <1>2, <2>1, <2>3, <3>2, <3>3 DEF Picture
  <2>5. ListIntact' /\ InOrder' /\ Listed' = Listed
    BY <2>3, <2>4, PictureAfter
  <2>6. ListTypeOK'
    <3>1. expire' \in [Nodes -> 0 .. MaxTime]
      BY <1>1, <1>6, <2>1 DEF ListTypeOK
    <3>2. owner' \in [Nodes -> Clients \cup {Null}] /\ alive' \subseteq Nodes
      BY <1>1, <2>1 DEF ListTypeOK
    <3> QED BY <1>1, <1>2, <1>4, <2>1, <3>1, <3>2 DEF ListTypeOK
  <2>7. OwnNodes'
    <3>1. \A x \in alive' : owner'[x] \in Clients
      BY <1>1, <1>6, <2>1, <2>2 DEF OwnNodes
    <3>2. \A d \in Clients : timer'[d] # Null =>
             timer'[d] \in alive' /\ owner'[timer'[d]] = d /\ timer'[d] \notin ToSet(batch')
      BY <1>1, <1>4, <1>6, <1>7, <2>1, <2>2 DEF OwnNodes
    <3>3. \A d \in Clients : cpc'[d] # "idle" =>
             node'[d] \in Nodes /\ (node'[d] \in alive' => owner'[node'[d]] = d)
      BY <1>2, <1>7, <2>1, <2>2
    <3> QED BY <3>1, <3>2, <3>3 DEF OwnNodes
  <2>8. Apart'
    BY <1>1, <1>2, <1>4, <2>1, <2>5 DEF Apart
  <2>9. NoDangling'
    <3>1. ASSUME ~raced
          PROVE  /\ \A d \in Clients : cpc'[d] # "idle" => HoldsOwn(d)'
                 /\ ToSet(batch') \subseteq alive'
      BY <1>2, <1>4, <1>6, <1>8, <2>1, <2>2, <3>1 DEF HoldsOwn
    <3> QED BY <1>4, <2>1, <2>7, <3>1 DEF NoDangling, OwnNodes
  <2> QED BY <2>5, <2>6, <2>7, <2>8, <2>9 DEF ListInv
<1> QED BY <1>9, <1>10 DEF TickRuns

(* The whole list goes, and every pointer into it.                          *)
LEMMA DestroyKeeps ==
  ASSUME ListInv, Destroy PROVE ListInv'
<1>1. ListTypeOK /\ OwnNodes /\ Apart /\ NoDangling
  BY DEF ListInv
<1>2. /\ \A c \in Clients : cpc[c] = "idle"
      /\ list' = [head |-> Null, tail |-> Null, prev |-> Nowhere, next |-> Nowhere]
      /\ alive' = alive \ Listed
      /\ owner' = [n \in Nodes |-> IF n \in Listed THEN Null ELSE owner[n]]
      /\ expire' = [n \in Nodes |-> IF n \in Listed THEN 0 ELSE expire[n]]
      /\ timer' = PointersAfter(Order(list))
      /\ batch = <<>> /\ batch' = batch /\ raced' = raced /\ mixed' = mixed
      /\ cpc' = cpc /\ node' = node
  BY DEF Destroy
<1>3. \A c \in Clients :
         timer'[c] = IF timer[c] # Null /\ timer[c] \in Listed THEN Null ELSE timer[c]
  BY <1>2 DEF PointersAfter, Listed
<1>4. ToSet(batch) = {}
  BY <1>2 DEF ToSet
<1>5. PICK v : v = [i \in 1..0 |-> Null]
  OBVIOUS
<1>6. Chain(list', v, 0)
  <2>1. Nowhere \in [Nodes -> Pointer] /\ \A n \in Nodes : Nowhere[n] = Null
    BY DEF Nowhere, Pointer
  <2>2. list' \in [head : Pointer, tail : Pointer, prev : [Nodes -> Pointer], next : [Nodes -> Pointer]]
    BY <1>2, <2>1 DEF Pointer
  <2>3. v \in [1..0 -> Nodes] /\ \A i \in 1..0 : FALSE
    BY <1>5
  <2> HIDE DEF Nowhere
  <2> QED BY <1>2, <2>1, <2>2, <2>3 DEF Chain
<1>7. Span(v, 0) = {} /\ Sorted(v, 0, expire', ToMove')
  BY DEF Span, Sorted
<1>8. Picture(v, 0)'
  BY <1>6, <1>7 DEF Picture
<1>9. ListIntact' /\ InOrder' /\ Listed' = {}
  BY <1>7, <1>8, PictureAfter
<1>10. ListTypeOK'
  <2>1. expire' \in [Nodes -> 0 .. MaxTime]
    <3>1. 0 \in 0 .. MaxTime
      BY ListAssumption
    <3> QED BY <1>1, <1>2, <3>1 DEF ListTypeOK
  <2>2. /\ owner' \in [Nodes -> Clients \cup {Null}] /\ alive' \subseteq Nodes
        /\ timer' \in [Clients -> Pointer]
    BY <1>1, <1>2 DEF ListTypeOK, Pointer, PointersAfter
  <2> QED BY <1>1, <1>2, <1>6, <2>1, <2>2 DEF ListTypeOK, Chain
<1>11. OwnNodes'
  <2>1. alive \subseteq Nodes
    BY <1>1 DEF ListTypeOK
  <2>2. \A x \in Nodes \ Listed : owner'[x] = owner[x]
    BY <1>2
  <2>3. \A x \in alive' : owner'[x] \in Clients
    BY <1>1, <1>2, <2>1, <2>2 DEF OwnNodes
  <2>4. \A c \in Clients : timer'[c] # Null => timer'[c] \in alive' /\ owner'[timer'[c]] = c
    BY <1>1, <1>2, <1>3, <2>1, <2>2 DEF OwnNodes
  <2> QED BY <1>2, <1>4, <2>3, <2>4 DEF OwnNodes
<1>12. Apart'
  BY <1>1, <1>2, <1>4, <1>9 DEF Apart
<1>13. NoDangling'
  <2>1. ToSet(batch) \subseteq alive' /\ IsInjective(batch)
    BY <1>1, <1>4 DEF Apart
  <2> QED BY <1>2, <1>11, <2>1 DEF NoDangling, OwnNodes
<1> QED BY <1>9, <1>10, <1>11, <1>12, <1>13 DEF ListInv

LEMMA ListInitInv ==
  ASSUME ListInit PROVE ListInv
<1>1. /\ list = [head |-> Null, tail |-> Null, prev |-> Nowhere, next |-> Nowhere]
      /\ expire = [n \in Nodes |-> 0] /\ owner = [n \in Nodes |-> Null] /\ alive = {}
      /\ timer = [c \in Clients |-> Null]
      /\ cpc = [c \in Clients |-> "idle"] /\ node = [c \in Clients |-> Null]
      /\ batch = <<>> /\ raced = FALSE /\ mixed = FALSE
  BY DEF ListInit, Nowhere
<1>2. PICK v : v = [i \in 1..0 |-> Null]
  OBVIOUS
<1>3. Chain(list, v, 0)
  <2>1. Nowhere \in [Nodes -> Pointer] /\ \A n \in Nodes : Nowhere[n] = Null
    BY DEF Nowhere, Pointer
  <2>2. list \in [head : Pointer, tail : Pointer, prev : [Nodes -> Pointer], next : [Nodes -> Pointer]]
    BY <1>1, <2>1 DEF Pointer
  <2>3. v \in [1..0 -> Nodes] /\ \A i \in 1..0 : FALSE
    BY <1>2
  <2> QED BY <1>1, <2>1, <2>2, <2>3 DEF Chain
<1>4. /\ Order(list) = v /\ v \in Orders /\ Links(list, v) /\ Len(v) = 0
      /\ ToSet(v) = {v[i] : i \in 1..0}
  BY <1>3, OrderIs
<1>5. Listed = {}
  BY <1>4 DEF Listed
<1>6. ListIntact
  <2>1. \A n \in Nodes : list.prev[n] = Null /\ list.next[n] = Null
    BY <1>1 DEF Nowhere
  <2> QED BY <1>4, <1>5, <2>1 DEF ListIntact
<1>7. InOrder
  BY <1>4 DEF InOrder
<1>8. ListTypeOK
  <2>1. 0 \in 0 .. MaxTime
    BY ListAssumption
  <2>2. list \in [head : Pointer, tail : Pointer, prev : [Nodes -> Pointer], next : [Nodes -> Pointer]]
    BY <1>3 DEF Chain
  <2>3. expire \in [Nodes -> 0 .. MaxTime] /\ owner \in [Nodes -> Clients \cup {Null}]
    BY <1>1, <2>1
  <2>4. timer \in [Clients -> Pointer] /\ node \in [Clients -> Pointer]
    BY <1>1 DEF Pointer
  <2>5. cpc \in [Clients -> {"idle", "add", "read", "adjust"}] /\ batch \in Seq(Nodes)
    BY <1>1
  <2> QED BY <1>1, <2>2, <2>3, <2>4, <2>5 DEF ListTypeOK
<1>9. ToSet(batch) = {} /\ IsInjective(batch)
  BY <1>1 DEF ToSet, IsInjective
<1> QED BY <1>1, <1>5, <1>6, <1>7, <1>8, <1>9 DEF ListInv, OwnNodes, Apart, NoDangling

LEMMA ListInvKept ==
  ASSUME ListInv, [ListNext]_listVars PROVE ListInv'
<1>1. CASE UNCHANGED listVars
  <2>1. /\ list' = list /\ expire' = expire /\ owner' = owner /\ alive' = alive
        /\ timer' = timer /\ cpc' = cpc /\ node' = node /\ batch' = batch
        /\ raced' = raced /\ mixed' = mixed
    BY <1>1 DEF listVars, memory
  <2>2. ListTypeOK /\ ListIntact /\ InOrder /\ NoDangling /\ OwnNodes /\ Apart
    BY DEF ListInv
  <2>3. ListTypeOK'
    BY <2>1, <2>2 DEF ListTypeOK
  <2>4. ListIntact' /\ InOrder'
    BY <2>1, <2>2 DEF ListIntact, InOrder, Listed
  <2>5. NoDangling'
    BY <2>1, <2>2 DEF NoDangling, HoldsOwn
  <2>6. OwnNodes' /\ Apart'
    BY <2>1, <2>2 DEF OwnNodes, Apart, Listed
  <2> QED BY <2>3, <2>4, <2>5, <2>6 DEF ListInv
<1>2. ASSUME NEW c \in Clients, ClientStep(c) PROVE ListInv'
  BY <1>2, MakeKeeps, AddTimerKeeps, ReadTimerKeeps, DelTimerKeeps, SetExpireKeeps,
     AdjustTimerKeeps DEF ClientStep
<1> QED BY <1>1, <1>2, TickTakesKeeps, TickRunsKeeps, DestroyKeeps DEF ListNext

(* Links, order and pointers hold together.  ListIntact, InOrder and        *)
(* NoDangling are not inductive: that a node about to be added is not yet    *)
(* linked, that a batch and the list share no node, and whose a node is      *)
(* also when a call has raced, must be known.                               *)
THEOREM ListInvariance == ListSpec => []ListInv
BY ListInitInv, ListInvKept, PTL DEF ListSpec

(* The types of the list's state.                                           *)
THEOREM ListTypeCorrect == ListSpec => []ListTypeOK
<1>1. ListInv => ListTypeOK
  BY DEF ListInv
<1> QED BY <1>1, ListInvariance, PTL

(* After every operation, in every interleaving of clients and tick, the    *)
(* list is linked both ways through allocated nodes only, and a node that   *)
(* is not in it has no links.                                               *)
THEOREM ListStaysIntact == ListSpec => []ListIntact
<1>1. ListInv => ListIntact
  BY DEF ListInv
<1> QED BY <1>1, ListInvariance, PTL

(* The list stays ordered by expiry except for the nodes that wait for      *)
(* adjust_timer, unless a node was placed while another waited for it.      *)
THEOREM ListStaysInOrder == ListSpec => []InOrder
<1>1. ListInv => InOrder
  BY DEF ListInv
<1> QED BY <1>1, ListInvariance, PTL

(* No back pointer, no client and no batch of tick names a freed node, but  *)
(* for a client that tick has overtaken.                                    *)
THEOREM PointersNeverDangle == ListSpec => []NoDangling
<1>1. ListInv => NoDangling
  BY DEF ListInv
<1> QED BY <1>1, ListInvariance, PTL
=============================================================================
