------------------------------ MODULE Cleaning ------------------------------
(***************************************************************************)
(* The thread that deletes old history files.  Once a minute it looks at   *)
(* the clock; if it looks within the one minute CLEAN_TIME it cleans the   *)
(* locus directory and then the around directory: every file whose date is *)
(* before reduce_days(date, DATA_SAVE_DAYS) is removed.                    *)
(*                                                                         *)
(* A file is its date, the first 8 characters of its name.  Devices send   *)
(* every day, so each day adds a file of its date to both directories.     *)
(***************************************************************************)
EXTENDS Calendar, FiniteSets

CONSTANTS
  SaveDays,   (* the values of DATA_SAVE_DAYS *)
  CleanFirst, (* the date on which the server is observed first *)
  CleanLast,  (* bound: the last date *)
  MaxMissed,  (* bound: days in a row on which the thread misses its minute *)
  Drift       (* how far reduce_days is off the calendar *)

ASSUME CleaningAssumption ==
  /\ SaveDays \subseteq Nat
  /\ IsDate(CleanFirst) /\ IsDate(CleanLast) /\ CleanFirst <= CleanLast
  /\ \A days \in SaveDays : \A n \in 0 .. days : IsDate(reduce_days2(CleanFirst, n))
  /\ MaxMissed \in Nat /\ Drift \in Nat

VARIABLES
  m_file_save_days,
  date,      (* the date localtime returns *)
  minute,    (* "before", "at" or "after" the minute of the cleaning *)
  clean_pc,  (* what the thread does next: "sleep" or a directory *)
  files,     (* the dates of the files of each directory *)
  missed     (* history: days since a directory was cleaned *)

clean_vars == <<m_file_save_days, date, minute, clean_pc, files, missed>>

Dirs == {"locus", "around"}

CleanTypeOK ==
  /\ m_file_save_days \in SaveDays
  /\ IsDate(date)
  /\ minute \in {"before", "at", "after"}
  /\ clean_pc \in {"sleep"} \cup Dirs
  /\ \A dir \in Dirs : \A f \in files[dir] : IsDate(f)
  /\ missed \in [Dirs -> 0 .. MaxMissed]

(* A server that has been cleaned up to now: the files of the days kept.   *)
CleanInit ==
  /\ m_file_save_days \in SaveDays
  /\ date = CleanFirst
  /\ minute = "before"
  /\ clean_pc = "sleep"
  /\ files = [dir \in Dirs |->
                {reduce_days2(CleanFirst, n) : n \in 0 .. m_file_save_days}]
  /\ missed = [dir \in Dirs |-> 0]

-----------------------------------------------------------------------------
(* the clock *)

MinutePasses ==
  /\ minute # "after"
  /\ clean_pc = "sleep"
  /\ minute' = IF minute = "before" THEN "at" ELSE "after"
  /\ UNCHANGED <<m_file_save_days, date, clean_pc, files, missed>>

NextDay ==
  /\ minute = "after"
  /\ date # CleanLast
  /\ \A dir \in Dirs : missed[dir] < MaxMissed
  /\ date' = Tomorrow(date)
  /\ minute' = "before"
  /\ files' = [dir \in Dirs |-> files[dir] \cup {Tomorrow(date)}]
  /\ missed' = [dir \in Dirs |-> missed[dir] + 1]
  /\ UNCHANGED <<m_file_save_days, clean_pc>>

-----------------------------------------------------------------------------
(* clean_thread_func.  It sleeps at least a minute between two looks, so   *)
(* it may look on both sides of the minute and never in it.                *)
LookAtClock ==
  /\ clean_pc = "sleep"
  /\ minute = "at"
  /\ clean_pc' = "locus"
  /\ UNCHANGED <<m_file_save_days, date, minute, files, missed>>

BugOnlyOneDay(f, day_time) == day_time = Tomorrow(f)
Outdated(f, day_time) == day_time > f

BugOneYearLess(d) == reduce_days(d, m_file_save_days) + 10000
OldestKept(d)     == reduce_days(d, m_file_save_days)

(* read_files_to_vec and clean_outdate_files on one directory *)
CleanDir(dir) ==
  /\ clean_pc = dir
  /\ LET limit == OldestKept(date)
     IN files' = [files EXCEPT ![dir] = {f \in @ : ~Outdated(f, limit)}]
  /\ missed' = [missed EXCEPT ![dir] = 0]
  /\ clean_pc' = IF dir = "locus" THEN "around" ELSE "sleep"
  /\ UNCHANGED <<m_file_save_days, date, minute>>

(* The process is killed and started again before the minute is over.  A   *)
(* longer stop is a number of missed minutes.                              *)
CleanKill ==
  /\ clean_pc # "sleep"
  /\ clean_pc' = "sleep"
  /\ UNCHANGED <<m_file_save_days, date, minute, files, missed>>

CleanNext ==
  \/ MinutePasses \/ NextDay
  \/ LookAtClock \/ CleanKill
  \/ \E dir \in Dirs : CleanDir(dir)

CleanSpec == CleanInit /\ [][CleanNext]_clean_vars

-----------------------------------------------------------------------------
Age(f) == DaysBetween(f, date)
Deleted(dir) == files[dir] \ files'[dir]

(* set_save_file_days sets for how many days files are kept                *)
(* (file_manager.h:37, gps.conf:40): a file that is no older stays.        *)
KeepsSavedDays ==
  [][\A dir \in Dirs : \A f \in Deleted(dir) : Age(f) > m_file_save_days]_clean_vars

(* What the code does keep.  While the limit falls into what reduce_days   *)
(* takes for a month 0, all files of last year are deleted, however young; *)
(* otherwise a file is only deleted when it is older than the configured   *)
(* days less the drift of months of 30 days.                               *)
MonthZero == Month(OldestKept(date)) = 0

KeptOutsideMonthZero ==
  [][\A dir \in Dirs : \A f \in Deleted(dir) :
       \/ Age(f) > m_file_save_days - Drift
       \/ MonthZero /\ Year(f) < Year(date)]_clean_vars

(* A cleaning makes up for the days that were missed: whatever minutes the *)
(* thread missed and wherever it was killed, no file outlives the limit by *)
(* more than the drift and the days since its directory was last cleaned.  *)
OldFilesGone ==
  LET today == DayNumber(date)
  IN \A dir \in Dirs : \A f \in files[dir] :
       today - DayNumber(f) <= m_file_save_days + Drift + missed[dir]
=============================================================================
