------------------------------- MODULE OONIRun -------------------------------
(***************************************************************************)
(* Running OONI Run v2 links and submitting what they measure: v2MeasureHTTPS *)
(* with its cache of accepted descriptors, V2MeasureDescriptor, the input    *)
(* processor's measure-submit-save loop, probeservices.Submitter and its     *)
(* report channel, the collector, and the oonireport command, which submits   *)
(* again what was saved.                                                     *)
(*                                                                         *)
(* Each run of a link is a process of its own: runs overlap, share the       *)
(* key-value store and the report file, and may crash at any step.  Requests  *)
(* to the collector are lost, and so are its replies.                        *)
(***************************************************************************)
EXTENDS Integers, Sequences

CONSTANTS
  MaxRuns,      \* bound: runs of the link
  MaxPublished, \* bound: versions of the descriptor
  MaxFaults,    \* bound: crashes, and operations that fail
  Nettests      \* the nettests of each version: whether they have a name, and
                \* how many inputs

ASSUME OONIRunAssumption ==
  /\ MaxRuns \in Nat /\ MaxPublished \in Nat \ {0} /\ MaxFaults \in Nat
  /\ Nettests \in [1 .. MaxPublished -> Seq([named : BOOLEAN, inputs : Nat])]

Run == 1 .. MaxRuns
Upload == 0
Submitter == Run \cup {Upload}

Version == 1 .. MaxPublished
None == 0           \* no descriptor, no report

\* A measurement, and the fields of it that NewReportTemplate takes: those of the
\* experiment instance that measured (its name and its start time among them).
Measurement == [run : Run, nettest : Nat, idx : Nat]
NewReportTemplate(m) == <<m.run, m.nettest>>

VARIABLES
  published,  \* the version of the descriptor at the URL
  cacheFile,  \* the version in the descriptor cache on disk
  accepted,   \* the versions the user has accepted
  noCollector,\* LinkConfig.NoCollector
  pc,         \* the step of each process
  accept,     \* its config.AcceptChanges
  cache,      \* the version it loaded from the cache
  desc,       \* the version it pulled
  nettest,    \* position in desc.Nettests
  idx,        \* position in the inputs of the nettest
  meas,       \* the measurement at hand
  reportID,   \* its ReportID
  channel,    \* Submitter.channel: a report
  measured,   \* what each run has measured
  reportFile, \* the saved measurements and their report IDs
  lines,      \* what oonireport has read of them
  submitted,  \* how many of these it has submitted
  reports,    \* collector: the template of each report
  stored,     \* collector: the measurements of each report
  faults      \* how much has failed so far

cacheVars == <<published, cacheFile, accepted>>
linkVars == <<noCollector, accept, cache, desc, nettest, idx, measured>>
submitVars == <<meas, reportID, channel>>
uploadVars == <<lines, submitted>>
files == <<reportFile, uploadVars>>
collector == <<reports, stored>>
vars == <<cacheVars, pc, linkVars, submitVars, files, collector, faults>>

Ended == {"rejected", "failed", "crashed", "done"}

NoMeasurement == [run |-> 0, nettest |-> 0, idx |-> 0]

TypeOK ==
  /\ published \in Version /\ cacheFile \in Version \cup {None}
  /\ accepted \subseteq Version
  /\ noCollector \in BOOLEAN
  /\ pc \in [Submitter -> {"off", "pull", "diff", "nettest", "loop", "submit", "post", "save"}
                          \cup Ended]
  /\ accept \in [Run -> BOOLEAN]
  /\ cache \in [Run -> Version \cup {None}] /\ desc \in [Run -> Version \cup {None}]
  /\ nettest \in [Run -> Nat] /\ idx \in [Run -> Nat]
  /\ meas \in [Submitter -> Measurement \cup {NoMeasurement}]
  /\ reportID \in [Submitter -> 0 .. Len(reports)]
  /\ channel \in [Submitter -> 0 .. Len(reports)]
  /\ measured \in [Run -> SUBSET Measurement]
  /\ reportFile \in Seq([m : Measurement, id : 0 .. Len(reports)])
  /\ lines \in Seq([m : Measurement, id : 0 .. Len(reports)])
  /\ submitted \in 0 .. Len(lines)
  /\ reports \in Seq(Run \X Nat)
  /\ faults \in 0 .. MaxFaults
  /\ stored \subseteq [id : 1 .. Len(reports), m : Measurement]

Init ==
  /\ published = 1 /\ cacheFile = None /\ accepted = {}
  /\ noCollector \in BOOLEAN
  /\ pc = [s \in Submitter |-> "off"]
  /\ accept = [r \in Run |-> FALSE]
  /\ cache = [r \in Run |-> None] /\ desc = [r \in Run |-> None]
  /\ nettest = [r \in Run |-> 0] /\ idx = [r \in Run |-> 0]
  /\ meas = [s \in Submitter |-> NoMeasurement]
  /\ reportID = [s \in Submitter |-> None]
  /\ channel = [s \in Submitter |-> None]
  /\ measured = [r \in Run |-> {}]
  /\ reportFile = <<>> /\ lines = <<>> /\ submitted = 0
  /\ reports = <<>> /\ stored = {} /\ faults = 0

Fault == faults < MaxFaults /\ faults' = faults + 1
GoTo(s, step) == pc' = [pc EXCEPT ![s] = step]

-----------------------------------------------------------------------------
\* The link: its owner changes the descriptor, the user runs it.

Publish ==
  /\ published < MaxPublished
  /\ published' = published + 1
  /\ UNCHANGED <<cacheFile, accepted, pc, linkVars, submitVars, reportFile,
                 uploadVars, collector, faults>>

\* The process is killed, or the machine stops.
Crash(r) ==
  /\ pc[r] \notin {"off"} \cup Ended
  /\ Fault
  /\ GoTo(r, "crashed")
  /\ UNCHANGED <<cacheVars, linkVars, submitVars, reportFile, uploadVars, collector>>

-----------------------------------------------------------------------------
\* v2MeasureHTTPS.

\* The user starts a run, which loads the cache.  The runs start in order.
CacheLoad(r) ==
  /\ pc[r] = "off" /\ \A s \in 1 .. r - 1 : pc[s] # "off"
  /\ GoTo(r, "pull")
  /\ \E b \in BOOLEAN : accept' = [accept EXCEPT ![r] = b]
  /\ cache' = [cache EXCEPT ![r] = cacheFile]
  /\ UNCHANGED <<cacheVars, noCollector, desc, nettest, idx, measured, submitVars,
                 files, collector, faults>>

\* A mutant: the cache is written before the user has accepted.
M_PullChanges(r) ==
  /\ pc[r] = "pull"
  /\ GoTo(r, "diff")
  /\ desc' = [desc EXCEPT ![r] = published]
  /\ cacheFile' = published
  /\ UNCHANGED <<published, accepted, noCollector, accept, cache, nettest, idx,
                 measured, submitVars, files, collector, faults>>

PullChanges(r) ==
  /\ pc[r] = "pull"
  /\ GoTo(r, "diff")
  /\ desc' = [desc EXCEPT ![r] = published]
  /\ UNCHANGED <<cacheVars, noCollector, accept, cache, nettest, idx, measured,
                 submitVars, files, collector, faults>>

PullFails(r) ==
  /\ pc[r] = "pull"
  /\ Fault
  /\ GoTo(r, "failed")
  /\ UNCHANGED <<cacheVars, linkVars, submitVars, reportFile, uploadVars, collector>>

Changed(r) == desc[r] # cache[r]

Reject(r) ==
  /\ pc[r] = "diff" /\ ~accept[r] /\ Changed(r)
  /\ GoTo(r, "rejected")
  /\ UNCHANGED <<cacheVars, linkVars, submitVars, files, collector, faults>>

\* cache.Update writes the whole cache, when there are changes.
Accept(r) ==
  /\ pc[r] = "diff" /\ accept[r] /\ Changed(r)
  /\ GoTo(r, "nettest")
  /\ cacheFile' = desc[r]
  /\ accepted' = accepted \cup {desc[r]}
  /\ nettest' = [nettest EXCEPT ![r] = 1]
  /\ UNCHANGED <<published, noCollector, accept, cache, desc, idx, measured,
                 submitVars, files, collector, faults>>

UpdateFails(r) ==
  /\ pc[r] = "diff" /\ accept[r] /\ Changed(r)
  /\ Fault
  /\ GoTo(r, "failed")
  /\ accepted' = accepted \cup {desc[r]}
  /\ UNCHANGED <<published, cacheFile, linkVars, submitVars, reportFile, uploadVars,
                 collector>>

NoChanges(r) ==
  /\ pc[r] = "diff" /\ ~Changed(r)
  /\ GoTo(r, "nettest")
  /\ nettest' = [nettest EXCEPT ![r] = 1]
  /\ UNCHANGED <<cacheVars, noCollector, accept, cache, desc, idx, measured,
                 submitVars, files, collector, faults>>

-----------------------------------------------------------------------------
\* V2MeasureDescriptor and Experiment.Run.

MoreNettests(r) == nettest[r] <= Len(Nettests[desc[r]])
Named(r) == Nettests[desc[r]][nettest[r]].named
Inputs(r) == Nettests[desc[r]][nettest[r]].inputs

LinkDone(r) ==
  /\ pc[r] = "nettest" /\ ~MoreNettests(r)
  /\ GoTo(r, "done")
  /\ UNCHANGED <<cacheVars, linkVars, submitVars, files, collector, faults>>

\* The next nettest, whatever became of this one.
Continue(r) ==
  /\ GoTo(r, "nettest")
  /\ nettest' = [nettest EXCEPT ![r] = @ + 1]
  /\ UNCHANGED <<cacheVars, noCollector, accept, cache, desc, idx, measured, meas, channel,
                 uploadVars, collector>>

SkipUnnamed(r) ==
  /\ pc[r] = "nettest" /\ MoreNettests(r) /\ ~Named(r)
  /\ Continue(r)
  /\ UNCHANGED <<reportID, reportFile, faults>>

\* The builder, the options, the targets, the submitter or the saver fails.
RunFails(r) ==
  /\ pc[r] = "nettest" /\ MoreNettests(r) /\ Named(r)
  /\ Fault
  /\ Continue(r)
  /\ UNCHANGED <<reportID, reportFile>>

\* A new experiment and a new Submitter.
NewExperiment(r) ==
  /\ pc[r] = "nettest" /\ MoreNettests(r) /\ Named(r)
  /\ GoTo(r, "loop")
  /\ idx' = [idx EXCEPT ![r] = 1]
  /\ channel' = [channel EXCEPT ![r] = None]
  /\ UNCHANGED <<cacheVars, noCollector, accept, cache, desc, nettest, measured, meas,
                 reportID,
                 reportFile, uploadVars, collector, faults>>

\* InputProcessor.run returns: no more inputs, the maximum runtime is over, or
\* MeasureWithContext fails.
StopNormal(r) ==
  /\ pc[r] = "loop" /\ idx[r] > Inputs(r)
  /\ Continue(r)
  /\ UNCHANGED <<reportID, reportFile, faults>>

StopEarly(r) ==
  /\ pc[r] = "loop" /\ idx[r] <= Inputs(r)
  /\ Fault
  /\ Continue(r)
  /\ UNCHANGED <<reportID, reportFile>>

\* MeasureWithContext.  Nobody has called OpenReportContext, so that the new
\* measurement has no report ID.
Measure(r) ==
  /\ pc[r] = "loop" /\ idx[r] <= Inputs(r)
  /\ LET m == [run |-> r, nettest |-> nettest[r], idx |-> idx[r]]
     IN  /\ meas' = [meas EXCEPT ![r] = m]
         /\ measured' = [measured EXCEPT ![r] = @ \cup {m}]
  /\ reportID' = [reportID EXCEPT ![r] = None]
  /\ GoTo(r, IF noCollector THEN "save" ELSE "submit")
  /\ UNCHANGED <<cacheVars, noCollector, accept, cache, desc, nettest, idx, channel,
                 reportFile,
                 uploadVars, collector, faults>>

Save(r) ==
  /\ pc[r] = "save"
  /\ GoTo(r, "loop")
  /\ reportFile' = Append(reportFile, [m |-> meas[r], id |-> reportID[r]])
  /\ idx' = [idx EXCEPT ![r] = @ + 1]
  /\ UNCHANGED <<cacheVars, noCollector, accept, cache, desc, nettest, measured, meas,
                 reportID,
                 channel, uploadVars, collector, faults>>

\* The error ends the loop and the experiment; the measurement is gone.
SaveFails(r) ==
  /\ pc[r] = "save"
  /\ Fault
  /\ measured' = [measured EXCEPT ![r] = @ \ {meas[r]}]
  /\ nettest' = [nettest EXCEPT ![r] = @ + 1]
  /\ GoTo(r, "nettest")
  /\ UNCHANGED <<cacheVars, noCollector, accept, cache, desc, idx, meas, reportID, channel,
                 reportFile, uploadVars, collector>>

-----------------------------------------------------------------------------
\* Submitter.Submit, in a run and in oonireport.

\* A mutant: any open report will do.
M_CanSubmit(s) == channel[s] # None

\* There is a report, and it is for measurements like this one.
CanSubmit(s) == channel[s] # None /\ NewReportTemplate(meas[s]) = reports[channel[s]]

\* A mutant: a failed submission ends the experiment.
M_AfterError(s) == IF s = Upload THEN "failed" ELSE "nettest"

\* experimentSubmitterWrapper ignores the error, submitAll returns it.
AfterError(s) == IF s = Upload THEN "failed" ELSE "save"

\* The open report is the one to use.  Nobody looks at its template again.
UseReport(s) ==
  /\ pc[s] = "submit" /\ CanSubmit(s)
  /\ GoTo(s, "post")
  /\ UNCHANGED <<cacheVars, linkVars, submitVars, files, collector, faults>>

OpenReport(s) ==
  /\ pc[s] = "submit" /\ ~CanSubmit(s)
  /\ reports' = Append(reports, NewReportTemplate(meas[s]))
  /\ channel' = [channel EXCEPT ![s] = Len(reports')]
  /\ GoTo(s, "post")
  /\ UNCHANGED <<cacheVars, linkVars, meas, reportID, reportFile, uploadVars,
                 stored, faults>>

\* A mutant: when no report can be opened, the one left from before will do.
M_OpenReportFails(s) ==
  /\ pc[s] = "submit" /\ ~CanSubmit(s)
  /\ Fault
  /\ reports' \in {reports, Append(reports, NewReportTemplate(meas[s]))}
  /\ GoTo(s, IF channel[s] = None THEN AfterError(s) ELSE "post")
  /\ UNCHANGED <<cacheVars, linkVars, submitVars, reportFile, uploadVars, stored>>

\* The request is lost, or the reply is: the collector may have opened a report.
OpenReportFails(s) ==
  /\ pc[s] = "submit" /\ ~CanSubmit(s)
  /\ Fault
  /\ reports' \in {reports, Append(reports, NewReportTemplate(meas[s]))}
  /\ channel' = [channel EXCEPT ![s] = None]
  /\ GoTo(s, AfterError(s))
  /\ UNCHANGED <<cacheVars, linkVars, meas, reportID, reportFile, uploadVars, stored>>

Entry(s) == [id |-> channel[s], m |-> meas[s]]

SubmitMeasurement(s) ==
  /\ pc[s] = "post"
  /\ stored' = stored \cup {Entry(s)}
  /\ reportID' = [reportID EXCEPT ![s] = channel[s]]
  /\ IF s = Upload
       THEN submitted' = submitted + 1 /\ GoTo(s, "loop")
       ELSE GoTo(s, "save") /\ UNCHANGED submitted
  /\ UNCHANGED <<cacheVars, linkVars, meas, channel, reportFile, lines, reports, faults>>

\* A mutant: the report ID is not reset when the submission fails.
M_SubmitMeasurementFails(s) ==
  /\ pc[s] = "post"
  /\ Fault
  /\ stored' \in {stored, stored \cup {Entry(s)}}
  /\ reportID' = [reportID EXCEPT ![s] = channel[s]]
  /\ GoTo(s, AfterError(s))
  /\ UNCHANGED <<cacheVars, linkVars, meas, channel, reportFile, uploadVars, reports>>

\* As before, the collector may have done what was asked of it.
SubmitMeasurementFails(s) ==
  /\ pc[s] = "post"
  /\ Fault
  /\ stored' \in {stored, stored \cup {Entry(s)}}
  /\ reportID' = [reportID EXCEPT ![s] = None]
  /\ GoTo(s, AfterError(s))
  /\ UNCHANGED <<cacheVars, linkVars, meas, channel, reportFile, uploadVars, reports>>

-----------------------------------------------------------------------------
\* oonireport: readLines, then submitAll.  It shares only the report file with the
\* runs, and they only append to it: the model starts it when they have ended.

\* A line that is too long, or a failed read, ends the list and nobody looks at
\* scanner.Err.
ReadLines ==
  /\ pc[Upload] = "off" /\ reportFile # <<>>
  /\ \A r \in Run : pc[r] \in Ended
  /\ GoTo(Upload, "loop")
  /\ \/ lines' = reportFile /\ UNCHANGED faults
     \/ Fault /\ \E n \in 0 .. Len(reportFile) - 1 : lines' = SubSeq(reportFile, 1, n)
  /\ UNCHANGED <<cacheVars, linkVars, submitVars, reportFile, submitted, collector>>

NextLine ==
  /\ pc[Upload] = "loop" /\ submitted < Len(lines)
  /\ GoTo(Upload, "submit")
  /\ meas' = [meas EXCEPT ![Upload] = lines[submitted + 1].m]
  /\ reportID' = [reportID EXCEPT ![Upload] = lines[submitted + 1].id]
  /\ UNCHANGED <<cacheVars, linkVars, channel, reportFile, uploadVars, collector, faults>>

\* toMeasurement panics: the line is not a measurement.
NextLinePanics ==
  /\ pc[Upload] = "loop" /\ submitted < Len(lines)
  /\ Fault
  /\ GoTo(Upload, "failed")
  /\ UNCHANGED <<cacheVars, linkVars, submitVars, files, collector>>

UploadDone ==
  /\ pc[Upload] = "loop" /\ submitted = Len(lines)
  /\ GoTo(Upload, "done")
  /\ UNCHANGED <<cacheVars, linkVars, submitVars, files, collector, faults>>

-----------------------------------------------------------------------------

Measuring(r) ==
  \/ LinkDone(r) \/ SkipUnnamed(r) \/ RunFails(r) \/ NewExperiment(r)
  \/ StopNormal(r) \/ StopEarly(r) \/ Measure(r) \/ Save(r) \/ SaveFails(r)

Link(r) ==
  \/ CacheLoad(r) \/ PullChanges(r) \/ PullFails(r)
  \/ Reject(r) \/ Accept(r) \/ UpdateFails(r) \/ NoChanges(r)
  \/ Measuring(r)

Submitting(s) ==
  \/ UseReport(s) \/ OpenReport(s) \/ OpenReportFails(s)
  \/ SubmitMeasurement(s) \/ SubmitMeasurementFails(s)

Next ==
  \/ Publish
  \/ \E r \in Run : Crash(r) \/ Link(r)
  \/ \E s \in Submitter : Submitting(s)
  \/ ReadLines \/ NextLine \/ NextLinePanics \/ UploadDone

Spec == Init /\ [][Next]_vars

-----------------------------------------------------------------------------
\* A link measures only what the user has accepted, in this run or in an earlier
\* one, also when two runs write their caches over each other's, the descriptor
\* changes between two runs, and a run crashes after its update.
RunsOnlyAccepted ==
  \A r \in Run : pc[r] \in {"nettest", "loop", "submit", "post", "save"} => desc[r] \in accepted

\* The collector never gets a measurement under a report that was opened for other
\* measurements.  Submit looks at the template only before it chooses the report, and
\* SubmitMeasurement posts to whatever the channel is: it must not be the one left by
\* the previous experiment, whose measurements come before in the file of oonireport,
\* or by an OpenReport that failed.
ReportsAreHomogeneous == \A e \in stored : NewReportTemplate(e.m) = reports[e.id]

\* The report ID of a saved measurement is that of a report that holds it.
\* Likewise, the collector has what oonireport says it submitted.
AcknowledgedIsStored ==
  /\ \A i \in DOMAIN reportFile :
       reportFile[i].id # None => [id |-> reportFile[i].id, m |-> reportFile[i].m] \in stored
  /\ \A i \in 1 .. submitted : \E e \in stored : e.m = lines[i].m

\* The lines of a run in the report file, and the order in which it measures.
Lines(r) == {i \in DOMAIN reportFile : reportFile[i].m.run = r}
Precedes(m, n) == m.nettest < n.nettest \/ (m.nettest = n.nettest /\ m.idx < n.idx)

\* A run that ends by itself saved all it measured, each measurement once and in
\* the order of the nettests and of their inputs, whatever failed to be submitted.
\* (SaveFails accounts for what could not be saved.)
SavesAllItMeasured ==
  \A r \in Run :
    /\ pc[r] \in {"nettest", "loop", "done"} =>
         {reportFile[i].m : i \in Lines(r)} = measured[r]
    /\ \A i, j \in Lines(r) : i < j => Precedes(reportFile[i].m, reportFile[j].m)
=============================================================================
