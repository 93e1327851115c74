--------------------------- MODULE OONIRun_proofs ---------------------------
(***************************************************************************)
(* Proofs about OONIRun, for any number of runs of the link, versions of its *)
(* descriptor, nettests and inputs, and for any number of faults.            *)
(***************************************************************************)
EXTENDS OONIRun, SequenceTheorems, TLAPS

Line == [m : Measurement, id : Nat]

Steps == {"off", "pull", "diff", "nettest", "loop", "submit", "post", "save"} \cup Ended

\* TypeOK, except that the report IDs are bounded by Collected below, and with the steps
\* that oonireport has.
Types ==
  /\ published \in Version /\ cacheFile \in Version \cup {None}
  /\ pc \in [Submitter -> Steps]
  /\ pc[Upload] \in {"off", "loop", "submit", "post", "failed", "done"}
  /\ accept \in [Run -> BOOLEAN]
  /\ cache \in [Run -> Version \cup {None}] /\ desc \in [Run -> Version \cup {None}]
  /\ nettest \in [Run -> Nat] /\ idx \in [Run -> Nat]
  /\ meas \in [Submitter -> Measurement \cup {NoMeasurement}]
  /\ reportID \in [Submitter -> Nat]
  /\ channel \in [Submitter -> Nat]
  /\ measured \in [Run -> SUBSET Measurement]
  /\ reportFile \in Seq(Line) /\ lines \in Seq(Line)
  /\ submitted \in Nat

\* Every descriptor on disk, and every copy of it, was accepted.
Accepted ==
  /\ cacheFile \in accepted \cup {None}
  /\ \A r \in Run :
       /\ cache[r] \in accepted \cup {None}
       /\ pc[r] = "diff" => desc[r] \in Version
       /\ pc[r] \in {"nettest", "loop", "submit", "post", "save"} => desc[r] \in accepted

\* A channel is a report that the collector knows, and so is that of what is stored.
\* From the choice of the report to the end of the post, the report is for measurements
\* like the one at hand.
Collected ==
  /\ reports \in Seq(Run \X Nat)
  /\ \A s \in Submitter : channel[s] \in 0 .. Len(reports)
  /\ \A e \in stored : e.id \in 1 .. Len(reports) /\ NewReportTemplate(e.m) = reports[e.id]
  /\ \A s \in Submitter : pc[s] \in {"submit", "post"} => meas[s] \in Measurement
  /\ \A s \in Submitter : pc[s] = "post" => CanSubmit(s)

\* What a process says was submitted is stored, at every step of it.
Acknowledged ==
  /\ \A i \in DOMAIN reportFile :
       reportFile[i].id # None => [id |-> reportFile[i].id, m |-> reportFile[i].m] \in stored
  /\ \A r \in Run :
       /\ pc[r] \in {"submit", "post"} => reportID[r] = None
       /\ pc[r] = "save" =>
            /\ meas[r] \in Measurement
            /\ reportID[r] # None => [id |-> reportID[r], m |-> meas[r]] \in stored
  /\ pc[Upload] = "off" => submitted = 0
  /\ submitted <= Len(lines)
  /\ \A i \in 1 .. submitted : \E e \in stored : e.m = lines[i].m
  /\ pc[Upload] \in {"submit", "post"} =>
       submitted < Len(lines) /\ meas[Upload] = lines[submitted + 1].m

\* The position of a run is beyond all that it saved; what it measured is what it
\* saved, but for the measurement at hand.
Position(r) == [run |-> r, nettest |-> nettest[r], idx |-> idx[r]]
SavedOf(r) ==
  /\ pc[r] \in {"off", "pull", "diff"} => measured[r] = {} /\ Lines(r) = {}
  /\ pc[r] \in {"nettest", "loop", "done"} =>
       {reportFile[i].m : i \in Lines(r)} = measured[r]
  /\ pc[r] \in {"submit", "post", "save"} =>
       /\ meas[r] = Position(r)
       /\ measured[r] = {reportFile[i].m : i \in Lines(r)} \cup {meas[r]}
  /\ pc[r] = "nettest" => \A i \in Lines(r) : reportFile[i].m.nettest < nettest[r]
  /\ pc[r] \in {"loop", "submit", "post", "save"} =>
       \A i \in Lines(r) : Precedes(reportFile[i].m, Position(r))
  /\ \A i, j \in Lines(r) : i < j => Precedes(reportFile[i].m, reportFile[j].m)
Saved == \A r \in Run : SavedOf(r)

IInv == Types /\ Accepted /\ Collected /\ Acknowledged /\ Saved

\* The processes.
LEMMA Processes == Run \subseteq Submitter /\ Upload \in Submitter /\ Upload \notin Run
  BY OONIRunAssumption DEF Run, Submitter, Upload

\* The invariant implies what the model checker looks at.
LEMMA IInvImplies ==
  ASSUME IInv
  PROVE  RunsOnlyAccepted /\ ReportsAreHomogeneous /\ AcknowledgedIsStored /\ SavesAllItMeasured
  BY DEF IInv, Accepted, Collected, Acknowledged, Saved, SavedOf,
         RunsOnlyAccepted, ReportsAreHomogeneous, AcknowledgedIsStored, SavesAllItMeasured

\* Nobody has run anything yet.
LEMMA InitIInv == Init => IInv
<1> SUFFICES ASSUME Init PROVE IInv
  OBVIOUS
<1> USE OONIRunAssumption DEF Init
<1>1. Types
  BY DEF Types, Steps, Submitter, Upload, Version, None
<1>2. Accepted
  BY Processes DEF Accepted
<1>3. Collected
  BY DEF Collected, None, Submitter
<1>4. Acknowledged
  BY DEF Acknowledged, Submitter
<1>5. Saved
  <2>1. \A r \in Run : pc[r] = "off"
    BY DEF Submitter
  <2>2. \A r \in Run : Lines(r) = {}
    BY DEF Lines
  <2> QED
    BY <2>1, <2>2 DEF Saved, SavedOf
<1> QED
  BY <1>1, <1>2, <1>3, <1>4, <1>5 DEF IInv

-----------------------------------------------------------------------------
\* oonireport reads lines, however many.
LEMMA TypesOfLines == ASSUME Types, ReadLines PROVE lines' \in Seq(Line)
<1>1. reportFile \in Seq(Line) /\ Len(reportFile) \in Nat
  BY DEF Types
<1>2. \A n \in 0 .. Len(reportFile) - 1 : SubSeq(reportFile, 1, n) \in Seq(Line)
  BY <1>1, SubSeqProperties
<1> QED
  BY <1>1, <1>2 DEF ReadLines

\* The types.
LEMMA TypesStep == IInv /\ [Next]_vars => Types'
<1> SUFFICES ASSUME Types, Acknowledged, [Next]_vars PROVE Types'
  BY DEF IInv
<1> USE Processes DEF Types, Steps, Ended, GoTo, None,
        cacheVars, linkVars, submitVars, uploadVars, files, collector
<1>1. ASSUME NEW r \in Run, Crash(r) \/ PullFails(r) \/ Reject(r) \/ LinkDone(r) \/ UpdateFails(r)
      PROVE  Types'
  BY <1>1 DEF Crash, PullFails, Reject, LinkDone, UpdateFails
<1>2. ASSUME NEW r \in Run, CacheLoad(r) PROVE Types'
  BY <1>2 DEF CacheLoad
<1>3. ASSUME NEW r \in Run, PullChanges(r) PROVE Types'
  BY <1>3 DEF PullChanges
<1>4. ASSUME NEW r \in Run, Accept(r) \/ NoChanges(r) PROVE Types'
  <2>1. CASE Accept(r)
    BY <2>1 DEF Accept
  <2>2. CASE NoChanges(r)
    BY <2>2 DEF NoChanges
  <2> QED
    BY <1>4, <2>1, <2>2
<1>5. ASSUME NEW r \in Run, SkipUnnamed(r) \/ RunFails(r) \/ StopNormal(r) \/ StopEarly(r)
      PROVE  Types'
  <2>1. Continue(r) /\ UNCHANGED <<reportID, reportFile>>
    BY <1>5 DEF SkipUnnamed, RunFails, StopNormal, StopEarly
  <2> QED
    BY <2>1 DEF Continue
<1>6. ASSUME NEW r \in Run, NewExperiment(r) PROVE Types'
  BY <1>6 DEF NewExperiment
<1>7. ASSUME NEW r \in Run, Measure(r) PROVE Types'
  BY <1>7 DEF Measure, Measurement
<1>8. ASSUME NEW r \in Run, Save(r) PROVE Types'
  <2>1. PICK line \in Line : reportFile' = Append(reportFile, line)
    <3>1. meas[r] \in Measurement /\ reportID[r] \in Nat
      BY <1>8 DEF Save, Acknowledged
    <3> QED
      BY <1>8, <3>1 DEF Save, Line
  <2>2. reportFile' \in Seq(Line)
    BY <2>1
  <2>3. /\ idx' = [idx EXCEPT ![r] = @ + 1] /\ pc' = [pc EXCEPT ![r] = "loop"]
        /\ UNCHANGED <<published, cacheFile, accept, cache, desc, nettest, meas, reportID, channel,
                       measured, lines, submitted>>
    BY <1>8 DEF Save
  <2> QED
    BY <2>2, <2>3
<1>9. ASSUME NEW r \in Run, SaveFails(r) PROVE Types'
  BY <1>9 DEF SaveFails
<1>10. ASSUME NEW s \in Submitter, OpenReport(s) PROVE Types'
  BY <1>10 DEF OpenReport, Collected
<1>11. ASSUME NEW s \in Submitter, OpenReportFails(s) PROVE Types'
  BY <1>11 DEF OpenReportFails, AfterError
<1>12. ASSUME NEW s \in Submitter, SubmitMeasurement(s) PROVE Types'
  <2>1. CASE s = Upload
    <3>1. submitted' = submitted + 1 /\ pc' = [pc EXCEPT ![Upload] = "loop"]
      BY <1>12, <2>1 DEF SubmitMeasurement
    <3>2. reportID' = [reportID EXCEPT ![Upload] = channel[Upload]]
      BY <1>12, <2>1 DEF SubmitMeasurement
    <3> QED
      BY <1>12, <3>1, <3>2 DEF SubmitMeasurement
  <2>2. CASE s # Upload
    BY <1>12, <2>2 DEF SubmitMeasurement
  <2> QED
    BY <2>1, <2>2
<1>13. ASSUME NEW s \in Submitter, SubmitMeasurementFails(s) PROVE Types'
  BY <1>13 DEF SubmitMeasurementFails, AfterError
<1>14. CASE ReadLines
  BY <1>14, TypesOfLines DEF ReadLines
<1>15. CASE NextLine
  <2>1. lines[submitted + 1] \in Line
    BY <1>15 DEF NextLine
  <2> QED
    BY <1>15, <2>1 DEF NextLine, Line
<1>16. CASE UploadDone \/ NextLinePanics
  BY <1>16 DEF UploadDone, NextLinePanics
<1>17. CASE Publish
  BY <1>17, OONIRunAssumption DEF Publish, Version
<1>18. CASE UNCHANGED vars
  BY <1>18 DEF vars
<1>19. ASSUME NEW s \in Submitter, UseReport(s) PROVE Types'
  BY <1>19 DEF UseReport
<1> QED
  BY <1>1, <1>2, <1>3, <1>4, <1>5, <1>6, <1>7, <1>8, <1>9, <1>10, <1>11, <1>12, <1>13,
     <1>14, <1>15, <1>16, <1>17, <1>18, <1>19 DEF Next, Link, Measuring, Submitting

-----------------------------------------------------------------------------
\* Only accepted descriptors are run.
Active == {"nettest", "loop", "submit", "post", "save"}

\* A step that leaves the descriptors alone, and begins no nettests.
LEMMA AcceptedFrame ==
  ASSUME Accepted, UNCHANGED <<cacheFile, accepted, cache, desc>>,
         \A r \in Run : /\ pc'[r] = "diff" => pc[r] = "diff"
                        /\ pc'[r] \in Active => pc[r] \in Active
  PROVE  Accepted'
  BY DEF Accepted, Active

\* The submitter, of a run or of oonireport.
LEMMA SubmittingFrame ==
  ASSUME Types, NEW s \in Submitter, Submitting(s)
  PROVE  /\ UNCHANGED <<cacheVars, linkVars, meas, reportFile, lines>>
         /\ pc[s] \in {"submit", "post"}
         /\ \A q \in Submitter \ {s} :
              pc'[q] = pc[q] /\ reportID'[q] = reportID[q] /\ channel'[q] = channel[q]
         /\ pc'[s] \in IF s = Upload THEN {"post", "loop", "failed"} ELSE {"post", "save"}
<1> USE DEF Types, GoTo, AfterError, uploadVars
<1>0. CASE UseReport(s)
  BY <1>0 DEF UseReport, submitVars, files
<1>1. CASE OpenReport(s)
  BY <1>1 DEF OpenReport
<1>2. CASE OpenReportFails(s)
  BY <1>2 DEF OpenReportFails
<1>3. CASE SubmitMeasurement(s)
  BY <1>3 DEF SubmitMeasurement
<1>4. CASE SubmitMeasurementFails(s)
  BY <1>4 DEF SubmitMeasurementFails
<1> QED
  BY <1>0, <1>1, <1>2, <1>3, <1>4 DEF Submitting

\* The steps that end a nettest without a further measurement.
LEMMA ContinueFrame ==
  ASSUME NEW r \in Run, SkipUnnamed(r) \/ RunFails(r) \/ StopNormal(r) \/ StopEarly(r)
  PROVE  pc[r] \in {"nettest", "loop"} /\ Continue(r) /\ UNCHANGED <<reportID, reportFile>>
  BY DEF SkipUnnamed, RunFails, StopNormal, StopEarly

\* Every step keeps what is accepted.
LEMMA AcceptedStep == IInv /\ [Next]_vars => Accepted'
<1> SUFFICES ASSUME Types, Accepted, [Next]_vars PROVE Accepted'
  BY DEF IInv
<1> USE Processes DEF Active, Ended, GoTo, cacheVars, linkVars
<1>0. pc \in [Submitter -> Steps] /\ desc \in [Run -> Version \cup {None}]
      /\ cache \in [Run -> Version \cup {None}]
  BY DEF Types
<1>1. ASSUME NEW r \in Run, Crash(r) \/ PullFails(r) \/ Reject(r) \/ LinkDone(r) PROVE Accepted'
  BY <1>0, <1>1, AcceptedFrame DEF Crash, PullFails, Reject, LinkDone
<1>2. ASSUME NEW r \in Run, UpdateFails(r) PROVE Accepted'
  BY <1>0, <1>2 DEF UpdateFails, Accepted
<1>3. ASSUME NEW r \in Run, CacheLoad(r) PROVE Accepted'
  BY <1>0, <1>3 DEF CacheLoad, Accepted
<1>4. ASSUME NEW r \in Run, PullChanges(r) PROVE Accepted'
  BY <1>0, <1>4 DEF PullChanges, Accepted, Types
<1>5. ASSUME NEW r \in Run, Accept(r) PROVE Accepted'
  BY <1>0, <1>5 DEF Accept, Accepted
<1>6. ASSUME NEW r \in Run, NoChanges(r) PROVE Accepted'
  <2>1. desc[r] \in accepted
    BY <1>6, OONIRunAssumption DEF NoChanges, Changed, Accepted, Version, None
  <2> QED
    BY <1>0, <1>6, <2>1 DEF NoChanges, Accepted
<1>7. ASSUME NEW r \in Run, SkipUnnamed(r) \/ RunFails(r) \/ StopNormal(r) \/ StopEarly(r)
      PROVE  Accepted'
  BY <1>0, <1>7, ContinueFrame, AcceptedFrame DEF Continue
<1>8. ASSUME NEW r \in Run, NewExperiment(r) \/ Save(r) \/ SaveFails(r) PROVE Accepted'
  BY <1>0, <1>8, AcceptedFrame DEF NewExperiment, Save, SaveFails
<1>9. ASSUME NEW r \in Run, Measure(r) PROVE Accepted'
  BY <1>0, <1>9, AcceptedFrame DEF Measure
<1>10. ASSUME NEW s \in Submitter, Submitting(s) PROVE Accepted'
  BY <1>10, SubmittingFrame, AcceptedFrame
<1>11. CASE ReadLines \/ NextLine \/ NextLinePanics \/ UploadDone
  BY <1>0, <1>11, AcceptedFrame DEF ReadLines, NextLine, NextLinePanics, UploadDone
<1>12. CASE Publish
  BY <1>12, AcceptedFrame DEF Publish
<1>13. CASE UNCHANGED vars
  BY <1>13, AcceptedFrame DEF vars
<1> QED
  BY <1>1, <1>2, <1>3, <1>4, <1>5, <1>6, <1>7, <1>8, <1>9, <1>10, <1>11, <1>12, <1>13
     DEF Next, Link, Measuring

-----------------------------------------------------------------------------
\* The collector.

\* A step that leaves the collector and the channels alone, and submits nothing new.
LEMMA CollectedFrame ==
  ASSUME Collected, UNCHANGED <<channel, reports, stored>>,
         \A s \in Submitter : pc'[s] \in {"submit", "post"} =>
           pc'[s] = pc[s] /\ meas'[s] = meas[s]
  PROVE  Collected'
  BY DEF Collected, CanSubmit

\* A report that the collector opens leaves the others as they are.
LEMMA OpensReport ==
  ASSUME Types, Collected, NEW s \in Submitter, pc[s] = "submit",
         reports' = Append(reports, NewReportTemplate(meas[s]))
  PROVE  /\ reports' \in Seq(Run \X Nat) /\ Len(reports') = Len(reports) + 1
         /\ Len(reports) \in Nat
         /\ \A i \in 1 .. Len(reports) : reports'[i] = reports[i]
<1>1. NewReportTemplate(meas[s]) \in Run \X Nat
  BY DEF NewReportTemplate, Measurement, Collected
<1>2. reports \in Seq(Run \X Nat)
  BY DEF Collected
<1> QED
  BY <1>1, <1>2

\* Every step keeps the reports homogeneous.
LEMMA CollectedStep == IInv /\ [Next]_vars => Collected'
<1> SUFFICES ASSUME Types, Collected, Saved, [Next]_vars PROVE Collected'
  BY DEF IInv
<1> USE Processes DEF Ended, GoTo, submitVars, uploadVars, files, collector
<1>0. /\ pc \in [Submitter -> Steps] /\ meas \in [Submitter -> Measurement \cup {NoMeasurement}]
      /\ channel \in [Submitter -> Nat]
  BY DEF Types
<1>1. ASSUME NEW r \in Run, Crash(r) \/ PullFails(r) \/ Reject(r) \/ LinkDone(r) \/ UpdateFails(r)
      PROVE  Collected'
  BY <1>0, <1>1, CollectedFrame DEF Crash, PullFails, Reject, LinkDone, UpdateFails
<1>2. ASSUME NEW r \in Run, CacheLoad(r) \/ PullChanges(r) \/ Accept(r) \/ NoChanges(r)
      PROVE  Collected'
  BY <1>0, <1>2, CollectedFrame DEF CacheLoad, PullChanges, Accept, NoChanges
<1>3. ASSUME NEW r \in Run, SkipUnnamed(r) \/ RunFails(r) \/ StopNormal(r) \/ StopEarly(r)
      PROVE  Collected'
  BY <1>0, <1>3, ContinueFrame, CollectedFrame DEF Continue
<1>4. ASSUME NEW r \in Run, NewExperiment(r) PROVE Collected'
  BY <1>0, <1>4 DEF NewExperiment, Collected, CanSubmit, None
<1>5. ASSUME NEW r \in Run, Measure(r) PROVE Collected'
  <2>1. meas' = [meas EXCEPT ![r] = Position(r)] /\ Position(r) \in Measurement
    BY <1>5 DEF Measure, Position, Measurement, Types
  <2>2. pc' = [pc EXCEPT ![r] = IF noCollector THEN "save" ELSE "submit"]
        /\ UNCHANGED <<channel, reports, stored>>
    BY <1>5 DEF Measure
  <2> QED
    BY <1>0, <2>1, <2>2 DEF Collected, CanSubmit
<1>6. ASSUME NEW r \in Run, Save(r) \/ SaveFails(r) PROVE Collected'
  BY <1>0, <1>6, CollectedFrame DEF Save, SaveFails
<1>7. ASSUME NEW s \in Submitter, OpenReport(s) PROVE Collected'
  <2>1. /\ UNCHANGED <<meas, stored>> /\ channel' = [channel EXCEPT ![s] = Len(reports')]
        /\ reports' = Append(reports, NewReportTemplate(meas[s])) /\ pc[s] = "submit"
        /\ pc' = [pc EXCEPT ![s] = "post"]
    BY <1>7 DEF OpenReport
  <2>2. CanSubmit(s)'
    BY <1>0, <2>1, OpensReport DEF CanSubmit, None
  <2>3. \A q \in Submitter \ {s} : pc'[q] = "post" => CanSubmit(q)'
    BY <1>0, <2>1, OpensReport DEF Collected, CanSubmit, None
  <2> QED
    BY <1>0, <2>1, <2>2, <2>3, OpensReport DEF Collected
<1>8. ASSUME NEW s \in Submitter, OpenReportFails(s) PROVE Collected'
  <2>1. /\ UNCHANGED <<meas, stored>> /\ channel' = [channel EXCEPT ![s] = 0]
        /\ reports' \in {reports, Append(reports, NewReportTemplate(meas[s]))}
        /\ pc[s] = "submit" /\ pc' = [pc EXCEPT ![s] = AfterError(s)]
    BY <1>8 DEF OpenReportFails, None
  <2>2. AfterError(s) \notin {"submit", "post"}
    BY DEF AfterError
  <2>3. CASE reports' = reports
    BY <1>0, <2>1, <2>2, <2>3 DEF Collected, CanSubmit
  <2>4. CASE reports' = Append(reports, NewReportTemplate(meas[s]))
    <3>1. \A q \in Submitter : pc'[q] = "post" => CanSubmit(q)'
      BY <1>0, <2>1, <2>2, <2>4, OpensReport DEF Collected, CanSubmit, None
    <3> QED
      BY <1>0, <2>1, <2>2, <2>4, <3>1, OpensReport DEF Collected
  <2> QED
    BY <2>1, <2>3, <2>4
<1>9. ASSUME NEW s \in Submitter, SubmitMeasurement(s) \/ SubmitMeasurementFails(s)
      PROVE  Collected'
  <2>1. /\ UNCHANGED <<channel, meas, reports>> /\ pc[s] = "post"
        /\ stored' \in {stored, stored \cup {Entry(s)}}
        /\ \E where \in {"save", "loop", "failed"} : pc' = [pc EXCEPT ![s] = where]
    BY <1>9 DEF SubmitMeasurement, SubmitMeasurementFails, AfterError
  <2>2. /\ Entry(s).id \in 1 .. Len(reports)
        /\ NewReportTemplate(Entry(s).m) = reports[Entry(s).id]
    BY <1>0, <2>1 DEF Collected, CanSubmit, Entry, None
  <2> QED
    BY <1>0, <2>1, <2>2 DEF Collected, CanSubmit
<1>14. ASSUME NEW s \in Submitter, UseReport(s) PROVE Collected'
  BY <1>0, <1>14 DEF UseReport, Collected, CanSubmit
<1>10. CASE ReadLines \/ NextLinePanics \/ UploadDone
  BY <1>0, <1>10, CollectedFrame DEF ReadLines, NextLinePanics, UploadDone
<1>11. CASE NextLine
  <2>1. lines[submitted + 1].m \in Measurement
    <3>1. lines[submitted + 1] \in Line
      BY <1>11 DEF NextLine, Types
    <3> QED
      BY <3>1 DEF Line
  <2> QED
    BY <1>0, <1>11, <2>1 DEF NextLine, Collected, CanSubmit
<1>12. CASE Publish
  BY <1>12, CollectedFrame DEF Publish
<1>13. CASE UNCHANGED vars
  BY <1>13, CollectedFrame DEF vars
<1> QED
  BY <1>1, <1>2, <1>3, <1>4, <1>5, <1>6, <1>7, <1>8, <1>9, <1>10, <1>11, <1>12, <1>13,
     <1>14 DEF Next, Link, Measuring, Submitting

-----------------------------------------------------------------------------
\* What is said to be submitted.

\* A step that leaves the report file alone and in which nobody gets to submit or to
\* save.
LEMMA AcknowledgedFrame ==
  ASSUME Acknowledged, UNCHANGED <<reportFile, lines, submitted>>, stored \subseteq stored',
         \A s \in Submitter : pc'[s] \in {"submit", "post", "save", "off"} =>
           /\ pc'[s] = pc[s] \/ (pc[s] = "submit" /\ pc'[s] = "post")
           /\ meas'[s] = meas[s] /\ reportID'[s] = reportID[s]
  PROVE  Acknowledged'
  BY Processes DEF Acknowledged

\* The same for a submitter other than s, when s is a run that gets to save.
LEMMA AcknowledgedSave ==
  ASSUME Types, Acknowledged, NEW r \in Run, UNCHANGED <<reportFile, lines, submitted>>,
         stored \subseteq stored', pc' = [pc EXCEPT ![r] = "save"],
         \A s \in Submitter \ {r} : meas'[s] = meas[s] /\ reportID'[s] = reportID[s],
         meas'[r] \in Measurement,
         reportID'[r] # None => [id |-> reportID'[r], m |-> meas'[r]] \in stored'
  PROVE  Acknowledged'
<1> USE Processes DEF Acknowledged
<1>1. pc'[r] = "save" /\ \A s \in Submitter \ {r} : pc'[s] = pc[s]
  BY DEF Types
<1>2. \A q \in Run \ {r} :
       /\ pc'[q] \in {"submit", "post"} => reportID'[q] = None
       /\ pc'[q] = "save" =>
            /\ meas'[q] \in Measurement
            /\ reportID'[q] # None => [id |-> reportID'[q], m |-> meas'[q]] \in stored'
  BY <1>1
<1>3. \A i \in 1 .. submitted : \E e \in stored' : e.m = lines[i].m
  OBVIOUS
<1> QED
  BY <1>1, <1>2, <1>3

\* Every step keeps the promise.
LEMMA AcknowledgedStep == IInv /\ [Next]_vars => Acknowledged'
<1> SUFFICES ASSUME Types, Collected, Acknowledged, [Next]_vars PROVE Acknowledged'
  BY DEF IInv
<1> USE Processes DEF Ended, GoTo, submitVars, uploadVars, files, collector
<1>0. /\ pc \in [Submitter -> Steps] /\ meas \in [Submitter -> Measurement \cup {NoMeasurement}]
      /\ reportID \in [Submitter -> Nat]
  BY DEF Types
<1>1. ASSUME NEW r \in Run, Crash(r) \/ PullFails(r) \/ Reject(r) \/ LinkDone(r) \/ UpdateFails(r)
      PROVE  Acknowledged'
  BY <1>0, <1>1, AcknowledgedFrame DEF Crash, PullFails, Reject, LinkDone, UpdateFails
<1>2. ASSUME NEW r \in Run, CacheLoad(r) \/ PullChanges(r) \/ Accept(r) \/ NoChanges(r)
      PROVE  Acknowledged'
  BY <1>0, <1>2, AcknowledgedFrame DEF CacheLoad, PullChanges, Accept, NoChanges
<1>3. ASSUME NEW r \in Run, SkipUnnamed(r) \/ RunFails(r) \/ StopNormal(r) \/ StopEarly(r)
      PROVE  Acknowledged'
  BY <1>0, <1>3, ContinueFrame, AcknowledgedFrame DEF Continue
<1>4. ASSUME NEW r \in Run, NewExperiment(r) PROVE Acknowledged'
  BY <1>0, <1>4, AcknowledgedFrame DEF NewExperiment
<1>5. ASSUME NEW r \in Run, Measure(r) PROVE Acknowledged'
  <2>1. meas' = [meas EXCEPT ![r] = Position(r)] /\ Position(r) \in Measurement
    BY <1>5 DEF Measure, Position, Measurement, Types
  <2>2. /\ reportID' = [reportID EXCEPT ![r] = None]
        /\ pc' = [pc EXCEPT ![r] = IF noCollector THEN "save" ELSE "submit"]
        /\ UNCHANGED <<reportFile, lines, submitted, stored>>
    BY <1>5 DEF Measure
  <2>3. CASE noCollector
    BY <1>0, <2>1, <2>2, <2>3, AcknowledgedSave
  <2>4. CASE ~noCollector
    BY <1>0, <2>1, <2>2, <2>4 DEF Acknowledged
  <2> QED
    BY <2>3, <2>4
<1>6. ASSUME NEW r \in Run, Save(r) PROVE Acknowledged'
  <2>1. /\ pc[r] = "save" /\ pc' = [pc EXCEPT ![r] = "loop"]
        /\ reportFile' = Append(reportFile, [m |-> meas[r], id |-> reportID[r]])
        /\ UNCHANGED <<meas, reportID, lines, submitted, stored>>
    BY <1>6 DEF Save
  <2>2. [m |-> meas[r], id |-> reportID[r]] \in Line
    BY <1>0, <2>1 DEF Acknowledged, Line
  <2>3. \A i \in DOMAIN reportFile' :
          \/ i \in DOMAIN reportFile /\ reportFile'[i] = reportFile[i]
          \/ reportFile'[i] = [m |-> meas[r], id |-> reportID[r]]
    <3>1. reportFile \in Seq(Line)
      BY DEF Types
    <3> QED
      BY <2>1, <2>2, <3>1
  <2>4. \A i \in DOMAIN reportFile' : reportFile'[i].id # None =>
          [id |-> reportFile'[i].id, m |-> reportFile'[i].m] \in stored'
    BY <2>1, <2>3 DEF Acknowledged
  <2> QED
    BY <1>0, <2>1, <2>4 DEF Acknowledged
<1>7. ASSUME NEW r \in Run, SaveFails(r) PROVE Acknowledged'
  BY <1>0, <1>7, AcknowledgedFrame DEF SaveFails
<1>8. ASSUME NEW s \in Submitter, UseReport(s) \/ OpenReport(s) PROVE Acknowledged'
  BY <1>0, <1>8, AcknowledgedFrame DEF UseReport, OpenReport
<1>9. ASSUME NEW s \in Submitter, OpenReportFails(s) PROVE Acknowledged'
  <2>1. CASE s = Upload
    BY <1>0, <1>9, <2>1, AcknowledgedFrame DEF OpenReportFails, AfterError
  <2>2. CASE s \in Run
    <3>1. reportID[s] = None /\ meas[s] \in Measurement
      BY <1>9, <2>2 DEF OpenReportFails, Acknowledged, Collected
    <3> QED
      BY <1>9, <2>2, <3>1, AcknowledgedSave DEF OpenReportFails, AfterError
  <2> QED
    BY <2>1, <2>2 DEF Submitter
<1>10. ASSUME NEW s \in Submitter, SubmitMeasurement(s) PROVE Acknowledged'
  <2>1. /\ stored' = stored \cup {Entry(s)} /\ pc[s] = "post"
        /\ UNCHANGED <<meas, lines, reportFile>>
        /\ reportID' = [reportID EXCEPT ![s] = channel[s]]
    BY <1>10 DEF SubmitMeasurement
  <2>2. CASE s = Upload
    <3>1. /\ submitted' = submitted + 1 /\ pc' = [pc EXCEPT ![Upload] = "loop"]
          /\ submitted < Len(lines) /\ meas[Upload] = lines[submitted + 1].m
          /\ submitted \in Nat /\ Len(lines) \in Nat
      BY <1>10, <2>1, <2>2 DEF SubmitMeasurement, Acknowledged, Types
    <3>2. Entry(s).m = lines[submitted + 1].m
      BY <2>2, <3>1 DEF Entry
    <3>3. \A i \in 1 .. submitted' : \E e \in stored' : e.m = lines'[i].m
      <4> SUFFICES ASSUME NEW i \in 1 .. submitted' PROVE \E e \in stored' : e.m = lines[i].m
        BY <2>1
      <4>1. CASE i = submitted + 1
        BY <2>1, <3>2, <4>1
      <4>2. CASE i \in 1 .. submitted
        BY <2>1, <4>2 DEF Acknowledged
      <4> QED
        BY <3>1, <4>1, <4>2
    <3> QED
      BY <1>0, <2>1, <2>2, <3>1, <3>3 DEF Acknowledged
  <2>3. CASE s \in Run
    <3>1. UNCHANGED submitted /\ pc' = [pc EXCEPT ![s] = "save"] /\ meas[s] \in Measurement
      BY <1>10, <2>1, <2>3 DEF SubmitMeasurement, Collected
    <3>2. reportID'[s] = channel[s]
      BY <1>0, <2>1
    <3> QED
      BY <1>0, <2>1, <2>3, <3>1, <3>2, AcknowledgedSave DEF Entry
  <2> QED
    BY <2>2, <2>3 DEF Submitter
<1>11. ASSUME NEW s \in Submitter, SubmitMeasurementFails(s) PROVE Acknowledged'
  <2>1. /\ stored \subseteq stored' /\ pc[s] = "post"
        /\ UNCHANGED <<meas, lines, submitted, reportFile>>
        /\ reportID' = [reportID EXCEPT ![s] = None] /\ pc' = [pc EXCEPT ![s] = AfterError(s)]
    BY <1>11 DEF SubmitMeasurementFails
  <2>2. CASE s = Upload
    BY <1>0, <2>1, <2>2, AcknowledgedFrame DEF AfterError
  <2>3. CASE s \in Run
    <3>1. reportID'[s] = None /\ meas[s] \in Measurement
      BY <1>0, <2>1 DEF Collected
    <3> QED
      BY <1>0, <2>1, <2>3, <3>1, AcknowledgedSave DEF AfterError
  <2> QED
    BY <2>2, <2>3 DEF Submitter
<1>12. CASE ReadLines
  <2>1. /\ pc[Upload] = "off" /\ pc' = [pc EXCEPT ![Upload] = "loop"]
        /\ UNCHANGED <<reportFile, submitted, meas, reportID, stored>>
    BY <1>12 DEF ReadLines
  <2>2. submitted = 0 /\ Len(lines') \in Nat
    <3>1. lines' \in Seq(Line)
      BY TypesOfLines, <1>12
    <3> QED
      BY <2>1, <3>1 DEF Acknowledged
  <2> QED
    BY <1>0, <2>1, <2>2 DEF Acknowledged
<1>13. CASE NextLine
  <2>1. /\ pc' = [pc EXCEPT ![Upload] = "submit"] /\ submitted < Len(lines)
        /\ meas' = [meas EXCEPT ![Upload] = lines[submitted + 1].m]
        /\ \A r \in Run : reportID'[r] = reportID[r]
        /\ UNCHANGED <<reportFile, lines, submitted, stored>>
    BY <1>0, <1>13 DEF NextLine
  <2> QED
    BY <1>0, <2>1 DEF Acknowledged
<1>14. CASE UploadDone \/ NextLinePanics
  BY <1>0, <1>14, AcknowledgedFrame DEF UploadDone, NextLinePanics, files
<1>15. CASE Publish
  BY <1>15, AcknowledgedFrame DEF Publish
<1>16. CASE UNCHANGED vars
  BY <1>16, AcknowledgedFrame DEF vars
<1> QED
  BY <1>1, <1>2, <1>3, <1>4, <1>5, <1>6, <1>7, <1>8, <1>9, <1>10, <1>11, <1>12, <1>13,
     <1>14, <1>15, <1>16 DEF Next, Link, Measuring, Submitting

-----------------------------------------------------------------------------
\* What is saved.

\* A step that a run takes no part in, but for what the submitter does for it.
LEMMA SavedFrame ==
  ASSUME NEW r \in Run, SavedOf(r), Lines(r)' = Lines(r),
         \A i \in Lines(r) : reportFile'[i] = reportFile[i],
         nettest'[r] = nettest[r], idx'[r] = idx[r], measured'[r] = measured[r],
         meas'[r] = meas[r],
         \/ pc'[r] = pc[r]
         \/ pc'[r] \in {"failed", "crashed", "rejected"}
         \/ pc[r] \in {"submit", "post"} /\ pc'[r] \in {"post", "save"}
         \/ pc[r] = "nettest" /\ pc'[r] = "done"
         \/ pc[r] = "off" /\ pc'[r] = "pull"
         \/ pc[r] = "pull" /\ pc'[r] = "diff"
  PROVE  SavedOf(r)'
<1>1. {reportFile'[i].m : i \in Lines(r)'} = {reportFile[i].m : i \in Lines(r)}
  OBVIOUS
<1>2. Position(r)' = Position(r)
  BY DEF Position
<1> QED
  BY <1>1, <1>2 DEF SavedOf

\* The lines of a run do not change while the report file does not.
LEMMA SameLines ==
  ASSUME UNCHANGED reportFile
  PROVE  \A r \in Run : Lines(r)' = Lines(r) /\ \A i \in Lines(r) : reportFile'[i] = reportFile[i]
  BY DEF Lines

\* Every step saves what there is to save.
LEMMA SavedStep == IInv /\ [Next]_vars => Saved'
<1> SUFFICES ASSUME Types, Acknowledged, Saved, [Next]_vars, NEW q \in Run PROVE SavedOf(q)'
  BY DEF IInv, Saved
<1> USE Processes DEF Ended, GoTo, cacheVars, linkVars, submitVars, uploadVars, files, collector
<1>0. /\ pc \in [Submitter -> Steps] /\ meas \in [Submitter -> Measurement \cup {NoMeasurement}]
      /\ nettest \in [Run -> Nat] /\ idx \in [Run -> Nat]
      /\ measured \in [Run -> SUBSET Measurement] /\ reportFile \in Seq(Line)
      /\ SavedOf(q) /\ pc[q] \in Steps /\ nettest[q] \in Nat /\ idx[q] \in Nat
  BY DEF Types, Saved
<1>a. \A i \in Lines(q) :
        /\ i \in DOMAIN reportFile /\ reportFile[i].m \in Measurement
        /\ reportFile[i].m.run = q
        /\ reportFile[i].m.nettest \in Nat /\ reportFile[i].m.idx \in Nat
  <2>1. \A i \in DOMAIN reportFile : reportFile[i] \in Line
    BY <1>0
  <2> QED
    BY <2>1 DEF Lines, Line, Measurement
<1>1. ASSUME NEW r \in Run, Crash(r) \/ PullFails(r) \/ Reject(r) \/ LinkDone(r) \/ UpdateFails(r)
      PROVE  SavedOf(q)'
  BY <1>0, <1>1, SameLines, SavedFrame DEF Crash, PullFails, Reject, LinkDone, UpdateFails
<1>2. ASSUME NEW r \in Run, CacheLoad(r) \/ PullChanges(r) PROVE SavedOf(q)'
  BY <1>0, <1>2, SameLines, SavedFrame DEF CacheLoad, PullChanges
<1>3. ASSUME NEW r \in Run, Accept(r) \/ NoChanges(r) PROVE SavedOf(q)'
  <2>1. /\ pc[r] = "diff" /\ pc' = [pc EXCEPT ![r] = "nettest"]
        /\ nettest' = [nettest EXCEPT ![r] = 1] /\ UNCHANGED <<idx, measured, meas, reportFile>>
    BY <1>3 DEF Accept, NoChanges
  <2>2. CASE q = r
    <3>1. Lines(r)' = {} /\ measured'[r] = {} /\ pc'[r] = "nettest"
      BY <1>0, <2>1, <2>2, SameLines DEF SavedOf
    <3> QED
      BY <2>2, <3>1 DEF SavedOf
  <2>3. CASE q # r
    BY <1>0, <2>1, <2>3, SameLines, SavedFrame
  <2> QED
    BY <2>2, <2>3
<1>4. ASSUME NEW r \in Run, SkipUnnamed(r) \/ RunFails(r) \/ StopNormal(r) \/ StopEarly(r)
      PROVE  SavedOf(q)'
  <2>1. /\ pc[r] \in {"nettest", "loop"} /\ pc' = [pc EXCEPT ![r] = "nettest"]
        /\ nettest' = [nettest EXCEPT ![r] = nettest[r] + 1]
        /\ UNCHANGED <<idx, measured, meas, reportFile>>
    BY <1>4, ContinueFrame DEF Continue
  <2>2. CASE q = r
    <3>1. /\ pc'[r] = "nettest" /\ nettest'[r] = nettest[r] + 1 /\ measured'[r] = measured[r]
          /\ {reportFile[i].m : i \in Lines(r)} = measured[r]
      BY <1>0, <2>1, <2>2 DEF SavedOf
    <3>2. \A i \in Lines(r) : reportFile[i].m.nettest < nettest[r] + 1
      BY <1>0, <1>a, <2>1, <2>2 DEF SavedOf, Precedes, Position
    <3>3. \A i, j \in Lines(r) : i < j => Precedes(reportFile[i].m, reportFile[j].m)
      BY <1>0, <2>2 DEF SavedOf
    <3> QED
      BY <2>1, <2>2, <3>1, <3>2, <3>3, SameLines DEF SavedOf
  <2>3. CASE q # r
    BY <1>0, <2>1, <2>3, SameLines, SavedFrame
  <2> QED
    BY <2>2, <2>3
<1>5. ASSUME NEW r \in Run, NewExperiment(r) PROVE SavedOf(q)'
  <2>1. /\ pc[r] = "nettest" /\ pc' = [pc EXCEPT ![r] = "loop"]
        /\ idx' = [idx EXCEPT ![r] = 1] /\ UNCHANGED <<nettest, measured, meas, reportFile>>
    BY <1>5 DEF NewExperiment
  <2>2. CASE q = r
    <3>1. \A i \in Lines(r) : Precedes(reportFile[i].m, Position(r)')
      BY <1>0, <2>1, <2>2 DEF SavedOf, Precedes, Position
    <3>2. /\ pc'[r] = "loop" /\ {reportFile[i].m : i \in Lines(r)} = measured'[r]
          /\ \A i, j \in Lines(r) : i < j => Precedes(reportFile[i].m, reportFile[j].m)
      BY <1>0, <2>1, <2>2 DEF SavedOf
    <3> QED
      BY <2>1, <2>2, <3>1, <3>2, SameLines DEF SavedOf
  <2>3. CASE q # r
    BY <1>0, <2>1, <2>3, SameLines, SavedFrame
  <2> QED
    BY <2>2, <2>3
<1>6. ASSUME NEW r \in Run, Measure(r) PROVE SavedOf(q)'
  <2>1. /\ pc[r] = "loop" /\ pc' = [pc EXCEPT ![r] = IF noCollector THEN "save" ELSE "submit"]
        /\ meas' = [meas EXCEPT ![r] = Position(r)]
        /\ measured' = [measured EXCEPT ![r] = measured[r] \cup {Position(r)}]
        /\ UNCHANGED <<nettest, idx, reportFile>>
    BY <1>6 DEF Measure, Position
  <2>2. CASE q = r
    <3>1. /\ pc'[r] \in {"save", "submit"} /\ meas'[r] = Position(r)
          /\ measured'[r] = {reportFile[i].m : i \in Lines(r)} \cup {Position(r)}
      BY <1>0, <2>1, <2>2 DEF SavedOf
    <3>2. /\ \A i \in Lines(r) : Precedes(reportFile[i].m, Position(r))
          /\ \A i, j \in Lines(r) : i < j => Precedes(reportFile[i].m, reportFile[j].m)
      BY <1>0, <2>1, <2>2 DEF SavedOf
    <3>3. Position(r)' = Position(r)
      BY <2>1 DEF Position
    <3> QED
      BY <2>1, <2>2, <3>1, <3>2, <3>3, SameLines DEF SavedOf
  <2>3. CASE q # r
    BY <1>0, <2>1, <2>3, SameLines, SavedFrame
  <2> QED
    BY <2>2, <2>3
<1>7. ASSUME NEW r \in Run, Save(r) PROVE SavedOf(q)'
  <2> DEFINE l == [m |-> meas[r], id |-> reportID[r]]
             n == Len(reportFile) + 1
  <2>1. /\ pc[r] = "save" /\ pc' = [pc EXCEPT ![r] = "loop"]
        /\ reportFile' = Append(reportFile, l) /\ idx' = [idx EXCEPT ![r] = idx[r] + 1]
        /\ UNCHANGED <<nettest, measured, meas>>
    BY <1>7 DEF Save
  <2>2. l \in Line /\ l.m = Position(r)
    BY <1>7, <2>1 DEF Acknowledged, Line, Types, Saved, SavedOf
  <2> HIDE DEF l
  <2>3. /\ n \in Nat /\ DOMAIN reportFile' = DOMAIN reportFile \cup {n} /\ reportFile'[n] = l
        /\ \A i \in DOMAIN reportFile : i < n /\ i \in Nat /\ reportFile'[i] = reportFile[i]
    BY <1>0, <2>1, <2>2
  <2> HIDE DEF n
  <2>4. CASE q = r
    <3>1. Lines(r)' = Lines(r) \cup {n}
      BY <2>2, <2>3 DEF Lines, Position
    <3>2. /\ measured[r] = {reportFile[i].m : i \in Lines(r)} \cup {l.m}
          /\ \A i \in Lines(r) : Precedes(reportFile[i].m, l.m)
          /\ \A i, j \in Lines(r) : i < j => Precedes(reportFile[i].m, reportFile[j].m)
      BY <1>0, <2>1, <2>2, <2>4 DEF SavedOf
    <3>3. pc'[r] = "loop" /\ measured'[r] = measured[r] /\ l.m = Position(r)
          /\ Position(r)' = [run |-> r, nettest |-> nettest[r], idx |-> idx[r] + 1]
      BY <1>0, <2>1, <2>2 DEF Position
    <3>4. {reportFile'[i].m : i \in Lines(r)'} = measured'[r]
      BY <1>a, <2>3, <2>4, <3>1, <3>2, <3>3
    <3>5. \A i \in Lines(r)' : Precedes(reportFile'[i].m, Position(r)')
      <4>1. ASSUME NEW i \in Lines(r) PROVE Precedes(reportFile'[i].m, Position(r)')
        BY <1>0, <1>a, <2>3, <2>4, <3>2, <3>3 DEF Precedes, Position
      <4>2. Precedes(l.m, Position(r)')
        BY <1>0, <2>4, <3>3 DEF Precedes, Position
      <4> QED
        BY <2>3, <3>1, <4>1, <4>2
    <3>6. \A i, j \in Lines(r)' : i < j => Precedes(reportFile'[i].m, reportFile'[j].m)
      BY <1>a, <2>3, <2>4, <3>1, <3>2
    <3> QED
      BY <2>4, <3>3, <3>4, <3>5, <3>6 DEF SavedOf
  <2>5. CASE q # r
    <3>1. Lines(q)' = Lines(q) /\ \A i \in Lines(q) : reportFile'[i] = reportFile[i]
      BY <2>2, <2>3, <2>5 DEF Lines, Position
    <3> QED
      BY <1>0, <2>1, <2>5, <3>1, SavedFrame
  <2> QED
    BY <2>4, <2>5
<1>8. ASSUME NEW r \in Run, SaveFails(r) PROVE SavedOf(q)'
  <2>1. /\ pc[r] = "save" /\ pc' = [pc EXCEPT ![r] = "nettest"]
        /\ measured' = [measured EXCEPT ![r] = measured[r] \ {meas[r]}]
        /\ nettest' = [nettest EXCEPT ![r] = nettest[r] + 1]
        /\ UNCHANGED <<idx, meas, reportFile>>
    BY <1>8 DEF SaveFails
  <2>2. CASE q = r
    <3>1. \A i \in Lines(r) : /\ reportFile[i].m # meas[r]
                              /\ reportFile[i].m.nettest < nettest[r] + 1
      BY <1>0, <1>a, <2>1, <2>2 DEF SavedOf, Precedes, Position
    <3>2. /\ pc'[r] = "nettest" /\ nettest'[r] = nettest[r] + 1
          /\ measured'[r] = measured[r] \ {meas[r]}
      BY <1>0, <2>1
    <3>3. /\ measured[r] = {reportFile[i].m : i \in Lines(r)} \cup {meas[r]}
          /\ \A i, j \in Lines(r) : i < j => Precedes(reportFile[i].m, reportFile[j].m)
      BY <1>0, <2>1, <2>2 DEF SavedOf
    <3>4. measured'[r] = {reportFile[i].m : i \in Lines(r)}
      BY <3>1, <3>2, <3>3
    <3> QED
      BY <2>1, <2>2, <3>1, <3>2, <3>3, <3>4, SameLines DEF SavedOf
  <2>3. CASE q # r
    BY <1>0, <2>1, <2>3, SameLines, SavedFrame
  <2> QED
    BY <2>2, <2>3
<1>9. ASSUME NEW s \in Submitter, Submitting(s) PROVE SavedOf(q)'
  BY <1>0, <1>9, SubmittingFrame, SameLines, SavedFrame
<1>10. CASE ReadLines \/ NextLine \/ NextLinePanics \/ UploadDone
  BY <1>0, <1>10, SameLines, SavedFrame DEF ReadLines, NextLine, NextLinePanics, UploadDone
<1>11. CASE Publish
  BY <1>0, <1>11, SameLines, SavedFrame DEF Publish
<1>12. CASE UNCHANGED vars
  BY <1>0, <1>12, SameLines, SavedFrame DEF vars
<1> QED
  BY <1>1, <1>2, <1>3, <1>4, <1>5, <1>6, <1>7, <1>8, <1>9, <1>10, <1>11, <1>12
     DEF Next, Link, Measuring

-----------------------------------------------------------------------------
\* The invariant holds in every reachable state.
LEMMA IInvAlways == Spec => []IInv
<1>1. IInv /\ [Next]_vars => IInv'
  BY TypesStep, AcceptedStep, CollectedStep, AcknowledgedStep, SavedStep DEF IInv
<1> QED
  BY InitIInv, <1>1, PTL DEF Spec

\* v2MeasureHTTPS measures only descriptors that the user has accepted, whatever
\* the runs that overlap and crash write to the cache.
THEOREM RunsOnlyAcceptedAlways == Spec => []RunsOnlyAccepted
  BY IInvAlways, IInvImplies, PTL

\* Submitter.Submit sends no measurement under another experiment's report: from its
\* check to the post, the channel stays one for measurements like the one at hand.
THEOREM ReportsAreHomogeneousAlways == Spec => []ReportsAreHomogeneous
  BY IInvAlways, IInvImplies, PTL

\* A measurement is saved with the ID of a report only if that report holds it, and
\* oonireport counts as submitted only what the collector has.
THEOREM AcknowledgedIsStoredAlways == Spec => []AcknowledgedIsStored
  BY IInvAlways, IInvImplies, PTL

\* The loop of the input processor saves what it measures, once and in order,
\* whatever fails to be submitted.
THEOREM SavesAllItMeasuredAlways == Spec => []SavesAllItMeasured
  BY IInvAlways, IInvImplies, PTL
=============================================================================
