------------------------------- MODULE Tracker -------------------------------
(***************************************************************************)
(* Contribution analytics: the in-memory counters of analytics/tracker.go, *)
(* the flusher goroutine that moves them to the contributions table, the   *)
(* GetAnalytics and ExportPDF requests that add the table and the counters *)
(* up (api/rest_handler.go, analytics/report.go), and the shutdown sequence*)
(* of cmd/server.go, which flushes once more and closes the database.      *)
(*                                                                         *)
(* The mutex makes each Tracker method one step.  BytesAdded moves with    *)
(* EditCount everywhere and is left out; an absent map entry is a zero one.*)
(***************************************************************************)
EXTENDS Naturals

CONSTANTS
  Doc, User,
  Reader,     \* such requests in progress at the same time
  Wants,      \* the document each of them asks for
  Columns,    \* the counters that the flusher's SaveFn adds to the table
  MaxEdits, MaxSecs  \* bounds on what each user records in a document

Field == {"EditCount", "ActiveSecs"}

ASSUME TrackerAssumption ==
  /\ Wants \in [Reader -> Doc]
  /\ Columns \subseteq Field
  /\ MaxEdits \in [User -> Nat] /\ MaxSecs \in [User -> Nat]

VARIABLES
  buffer,      \* Tracker.buffer
  snapshot,    \* the flusher's map: the entries it has not visited yet
  final,       \* the same of the ForceFlush during shutdown
  stored,      \* the contributions table, summed over the windows
  request,     \* how far each request is: idle, asked, read (the table)
  historical,  \* what they read from the table
  report,      \* the last report each of them returned
  phase,       \* of GracefulServer: up, stopping, flushing, closed, exited
  recorded,    \* history: everything Record and RecordActiveTime were told
  saved,       \* history: everything a save was given and did not fail on
  late,        \* history: edits that a shutdown's ForceFlush did not find
  failed       \* history: a save failed in the open database, or a crash

ramVars == <<buffer, snapshot, final>>
tableVars == <<stored, saved, failed>>
readVars == <<request, historical, report>>
vars == <<ramVars, tableVars, readVars, phase, recorded, late>>

Cell == Doc \X User
Activity == [Field -> Nat]
Zero == [f \in Field |-> 0]
Empty == [c \in Cell |-> Zero]
Plus(a, b) == [f \in Field |-> a[f] + b[f]]
Of(table, d) == [u \in User |-> table[<<d, u>>]]
NoRows == [u \in User |-> Zero]
Edits(table, c) == table[c]["EditCount"]

Init ==
  /\ buffer = Empty /\ snapshot = Empty /\ final = Empty
  /\ stored = Empty
  /\ request = [r \in Reader |-> "idle"]
  /\ historical = [r \in Reader |-> NoRows]
  /\ report = [r \in Reader |-> NoRows]
  /\ phase = "up"
  /\ recorded = Empty /\ saved = Empty
  /\ late = [c \in Cell |-> 0]
  /\ failed = FALSE

Running == phase # "exited"

-----------------------------------------------------------------------------
(* Record, called by every ReadPump for every frame, and RecordActiveTime.  *)
(* Hijacked connections outlive the HTTP server, so both go on until the    *)
(* process exits.  Once ForceFlush has taken the buffer, they are late.     *)

Count(c, a) ==
  /\ buffer' = [buffer EXCEPT ![c] = Plus(@, a)]
  /\ recorded' = [recorded EXCEPT ![c] = Plus(@, a)]
  /\ late' = IF phase \in {"flushing", "closed"}
               THEN [late EXCEPT ![c] = @ + a["EditCount"]]
               ELSE late
  /\ UNCHANGED <<snapshot, final, tableVars, readVars, phase>>

Record(c) ==
  /\ Running
  /\ recorded[c]["EditCount"] < MaxEdits[c[2]]
  /\ Count(c, [Zero EXCEPT !["EditCount"] = 1])

RecordActiveTime(c) ==
  /\ Running
  /\ recorded[c]["ActiveSecs"] < MaxSecs[c[2]]
  /\ Count(c, [Zero EXCEPT !["ActiveSecs"] = 1])

-----------------------------------------------------------------------------
(* StartFlusher.                                                            *)

\* Mutant of Swap: the snapshot is a copy, the buffer goes on.
SwapKeepsBuffer ==
  /\ Running
  /\ snapshot = Empty
  /\ snapshot' = buffer
  /\ UNCHANGED <<buffer, final, tableVars, readVars, phase, recorded, late>>

\* Mutant of Swap: reports hold the lock while they query the database.
SwapWaitsForReports ==
  /\ Running
  /\ snapshot = Empty
  /\ \A r \in Reader : request[r] = "idle"
  /\ snapshot' = buffer
  /\ buffer' = Empty
  /\ UNCHANGED <<final, tableVars, readVars, phase, recorded, late>>

\* A tick, taken once the range over the previous snapshot is over.
Swap ==
  /\ Running
  /\ snapshot = Empty
  /\ snapshot' = buffer
  /\ buffer' = Empty
  /\ UNCHANGED <<final, tableVars, readVars, phase, recorded, late>>

\* What is added to the table for an activity: by the SaveFn that a program not
\* in the repository injects into the flusher, and by SaveContribution, which
\* the shutdown calls and which binds 0 and 0, whatever it is given.
SaveFn(a) == [f \in Field |-> IF f \in Columns THEN a[f] ELSE 0]
SaveContribution(a) == Zero

\* The upsert commits, or it is an error that nobody retries.  In a closed
\* pool it is always an error.
Save(c, a, added) ==
  \/ /\ phase # "closed"
     /\ stored' = [stored EXCEPT ![c] = Plus(@, added)]
     /\ saved' = [saved EXCEPT ![c] = Plus(@, a)]
     /\ UNCHANGED failed
  \/ /\ failed' = (failed \/ phase # "closed")
     /\ UNCHANGED <<stored, saved>>

\* One iteration of the range, in any order; entries without edits are
\* skipped.
FlushOne(c) ==
  /\ Running
  /\ snapshot[c] # Zero
  /\ snapshot' = [snapshot EXCEPT ![c] = Zero]
  /\ IF snapshot[c]["EditCount"] = 0
       THEN UNCHANGED tableVars
       ELSE Save(c, snapshot[c], SaveFn(snapshot[c]))
  /\ UNCHANGED <<buffer, final, readVars, phase, recorded, late>>

-----------------------------------------------------------------------------
(* GetAnalytics and ExportPDF: the table first, then the counters.          *)

\* Mutant of ReadOrder: the counters are read before the table.
LiveFirst == <<buffer, stored>>

ReadOrder == <<stored, buffer>>

\* A request reaches its handler.
Ask(r) ==
  /\ phase = "up"
  /\ request[r] = "idle"
  /\ request' = [request EXCEPT ![r] = "asked"]
  /\ UNCHANGED <<ramVars, tableVars, historical, report, phase, recorded, late>>

\* GetContributions, which a request may reach while the server is stopping.
\* When the query fails, as it must once the pool is closed, GetAnalytics
\* returns; ExportPDF ignores the error and goes on with no rows.
ReadHistorical(r) ==
  /\ Running
  /\ request[r] = "asked"
  /\ \/ /\ phase # "closed"
        /\ request' = [request EXCEPT ![r] = "read"]
        /\ historical' = [historical EXCEPT ![r] = Of(ReadOrder[1], Wants[r])]
     \/ /\ request' = [request EXCEPT ![r] = "read"]
        /\ historical' = [historical EXCEPT ![r] = NoRows]
     \/ /\ request' = [request EXCEPT ![r] = "idle"]
        /\ UNCHANGED historical
  /\ UNCHANGED <<ramVars, tableVars, report, phase, recorded, late>>

\* GetSnapshot, and MergeWithLive per user.
ReadLive(r) ==
  /\ Running
  /\ request[r] = "read"
  /\ request' = [request EXCEPT ![r] = "idle"]
  /\ report' = [report EXCEPT ![r] =
       [u \in User |-> Plus(historical[r][u], Of(ReadOrder[2], Wants[r])[u])]]
  /\ UNCHANGED <<ramVars, tableVars, historical, phase, recorded, late>>

-----------------------------------------------------------------------------
(* shutdown, and the life of the process.                                   *)

Enter(p) == phase' = p /\ UNCHANGED <<tableVars, readVars, recorded>>

\* A signal; HTTP.Shutdown refuses new requests and returns, after 15 s
\* at the latest even if some request still runs.
Stop == phase = "up" /\ Enter("stopping") /\ UNCHANGED <<ramVars, late>>

\* Tracker.ForceFlush (not in the repository): drains the buffer.  What the
\* flusher goroutine is still writing is not in it ...
ForceFlush ==
  /\ phase = "stopping"
  /\ final' = buffer
  /\ buffer' = Empty
  /\ late' = [c \in Cell |-> late[c] + Edits(snapshot, c)]
  /\ Enter("flushing")
  /\ UNCHANGED snapshot

\* ... through SaveContribution.
ForceFlushOne(c) ==
  /\ phase = "flushing"
  /\ final[c] # Zero
  /\ final' = [final EXCEPT ![c] = Zero]
  /\ Save(c, final[c], SaveContribution(final[c]))
  /\ UNCHANGED <<buffer, snapshot, readVars, phase, recorded, late>>

\* Mutant of CloseDB: ForceFlush is started and not waited for.
CloseDBAtOnce == phase = "flushing" /\ Enter("closed") /\ UNCHANGED <<ramVars, late>>

CloseDB ==
  /\ phase = "flushing"
  /\ final = Empty
  /\ Enter("closed")
  /\ UNCHANGED <<ramVars, late>>

\* The memory of the process is gone, with the requests it was serving.
Die ==
  /\ Running
  /\ buffer' = Empty /\ snapshot' = Empty /\ final' = Empty
  /\ request' = [r \in Reader |-> "idle"]
  /\ phase' = "exited"
  /\ UNCHANGED <<stored, saved, historical, report, recorded, late>>

\* Run returns and the process ends; or it crashes at any time.
Exit == phase = "closed" /\ Die /\ UNCHANGED failed
Crash == Die /\ failed' = TRUE

\* The next process.
Start == phase = "exited" /\ Enter("up") /\ UNCHANGED <<ramVars, late>>

-----------------------------------------------------------------------------
Next ==
  \/ \E c \in Cell : Record(c) \/ RecordActiveTime(c) \/ FlushOne(c) \/ ForceFlushOne(c)
  \/ Swap
  \/ \E r \in Reader : Ask(r) \/ ReadHistorical(r) \/ ReadLive(r)
  \/ Stop \/ ForceFlush \/ CloseDB \/ Exit
  \/ Crash \/ Start

Spec == Init /\ [][Next]_vars

\* The ticker fires, SaveFn returns, and ForceFlush visits its whole map.
FairSpec ==
  /\ Spec
  /\ WF_vars(Swap)
  /\ \A c \in Cell : WF_vars(FlushOne(c)) /\ WF_vars(ForceFlushOne(c))

-----------------------------------------------------------------------------
Phase == {"up", "stopping", "flushing", "closed", "exited"}

\* Only a ForceFlush that is still writing holds entries of its own, and
\* neither counters nor requests outlive their process.
TypeOK ==
  /\ buffer \in [Cell -> Activity]
  /\ snapshot \in [Cell -> Activity]
  /\ final \in [Cell -> Activity] /\ (phase # "flushing" => final = Empty)
  /\ stored \in [Cell -> Activity]
  /\ request \in [Reader -> {"idle", "asked", "read"}]
  /\ historical \in [Reader -> [User -> Activity]]
  /\ report \in [Reader -> [User -> Activity]]
  /\ phase \in Phase
  /\ phase = "exited" => /\ buffer = Empty /\ snapshot = Empty
                         /\ \A r \in Reader : request[r] = "idle"
  /\ recorded \in [Cell -> Activity]
  /\ saved \in [Cell -> Activity]
  /\ late \in [Cell -> Nat]
  /\ failed \in BOOLEAN

InMemory(c) == Edits(buffer, c) + Edits(snapshot, c) + Edits(final, c)

\* An edit is never handed to a save twice, nor handed over and still counted,
\* whatever the save makes of it.  And it is never lost, unless a save fails or
\* the process crashes, or the shutdown is past it: it was recorded after
\* ForceFlush took the buffer, or the flusher goroutine, for which nobody waits,
\* had it in its snapshot then.  (server.go:79 means to lose none of these.)
EditsAccounted ==
  \A c \in Cell :
    /\ Edits(saved, c) + InMemory(c) <= Edits(recorded, c)
    /\ ~failed => Edits(recorded, c) <= Edits(saved, c) + InMemory(c) + late[c]

\* A report never shows more edits than were made, however the flusher and
\* the two reads of the report interleave.
ReportNeverOvercounts ==
  \A r \in Reader, u \in User :
    report[r][u]["EditCount"] <= Edits(recorded, <<Wants[r], u>>)
=============================================================================
