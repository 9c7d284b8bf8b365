---------------------------- MODULE ReportStore ----------------------------
(***************************************************************************)
(* The file of a discovery run: write_report() and get_discovery(), the    *)
(* reader behind /api/discovery.                                           *)
(*                                                                         *)
(* Both run without an await, so inside one process a request never meets  *)
(* a file half written; only the end of the process can leave one.         *)
(* Service says when these actions happen.                                 *)
(***************************************************************************)
EXTENDS Integers

CONSTANTS
  ReportLines,  \* lines of a whole report: the summary and one per object type
  MaxRuns       \* bound: how many reports are written

ASSUME ReportStoreAssumption ==
  /\ ReportLines \in Nat \ {0}
  /\ MaxRuns \in Nat

VARIABLES
  reports,   \* by file name: the run it is of, and how many of its lines are there
  writing,   \* the name of the file being written, or NoName
  runs,      \* number of the last run that opened its file; it orders the mtimes
  cut        \* history: the runs whose writing did not come to its end

storeVars == <<reports, writing, runs, cut>>

(* A name with a time stamp is the number of the stamp.  An absolute       *)
(* report_path is written as it stands.                                    *)
Rooted == 0
NoName == -1
Stamp == 1 .. MaxRuns
Report == [run : 1 .. MaxRuns, lines : 0 .. ReportLines]

StoreTypeOK ==
  /\ DOMAIN reports \subseteq Stamp \cup {Rooted}
  /\ \A n \in DOMAIN reports : reports[n] \in Report
  /\ writing \in DOMAIN reports \cup {NoName}
  /\ runs \in 0 .. MaxRuns
  /\ cut \subseteq 1 .. MaxRuns

StoreInit ==
  /\ reports = [n \in {} |-> 0]
  /\ writing = NoName
  /\ runs = 0
  /\ cut = {}

-----------------------------------------------------------------------------
Stamped == DOMAIN reports \ {Rooted}

LastStamp == IF Stamped = {} THEN 1 ELSE CHOOSE n \in Stamped : \A m \in Stamped : m <= n

(* _resolve_output_path().  Stamps count seconds: a process started anew   *)
(* may write a second report within the one of the last.                   *)
OutputPaths == {Rooted} \cup ({LastStamp, LastStamp + 1} \cap Stamp)

Stored(name, run, lines) ==
  [n \in DOMAIN reports \cup {name} |->
     IF n = name THEN [run |-> run, lines |-> lines] ELSE reports[n]]

(* open() with "w": what the file had is gone. *)
OpenReport ==
  /\ writing = NoName
  /\ runs < MaxRuns
  /\ runs' = runs + 1
  /\ \E name \in OutputPaths :
       /\ writing' = name
       /\ reports' = Stored(name, runs + 1, 0)
  /\ UNCHANGED cut

(* All lines are written and the file is closed. *)
CloseReport ==
  /\ writing # NoName
  /\ reports' = Stored(writing, runs, ReportLines)
  /\ writing' = NoName
  /\ UNCHANGED <<runs, cut>>

(* The end of the process, or an error of the disk: the file keeps the     *)
(* lines that had left the buffer, none of them perhaps.                   *)
CutReport ==
  /\ writing # NoName
  /\ \E n \in 0 .. ReportLines : reports' = Stored(writing, runs, n)
  /\ writing' = NoName
  /\ cut' = cut \cup {runs}
  /\ UNCHANGED runs

-----------------------------------------------------------------------------
(* Slip: the candidates are sorted, but not in reverse. *)
FirstOf(names) == CHOOSE n \in names : \A m \in names : reports[n].run <= reports[m].run

(* The candidate with the newest mtime. *)
NewestOf(names) == CHOOSE n \in names : \A m \in names : reports[m].run <= reports[n].run

(* The file get_discovery() reads, NoName for its 204. *)
Served ==
  IF Stamped # {} THEN NewestOf(Stamped)
  ELSE IF Rooted \in DOMAIN reports THEN Rooted ELSE NoName

(* An absolute path was written beside stamped files of the same stem: the *)
(* reader prefers those, however old.                                      *)
Shadowed == Stamped # {} /\ Rooted \in DOMAIN reports /\ reports[Rooted].run = runs

(* Whoever asks between two reports is served the last one written, whole  *)
(* unless its writing was cut, and nothing of the runs before it; so a cut *)
(* report is shown for no longer than until the next run (write_report,    *)
(* get_discovery).  An absolute path beside stamped files is excepted.     *)
LatestReportServed ==
  writing = NoName /\ runs > 0 /\ ~Shadowed =>
    /\ Served # NoName
    /\ reports[Served].run = runs
    /\ runs \notin cut => reports[Served].lines = ReportLines
=============================================================================
