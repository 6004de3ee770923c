---------------------------- MODULE Measurements ----------------------------
(***************************************************************************)
(* What the service keeps from one collection to the next: the sizes of    *)
(* the roots, the sizes of the models, and the history.  They share no     *)
(* state, so a behaviour follows one of the three and leaves the others    *)
(* as they began.                                                          *)
(***************************************************************************)
EXTENDS DiskUsage, ModelSizes, History

VARIABLE followed

measurementVars == <<diskVars, modelVars, historyVars, followed>>

MeasurementsInit ==
    /\ followed \in {"disk", "models", "history"}
    /\ DiskInit /\ ModelsInit /\ HistoryInit

OfDisk(A) == followed = "disk" /\ A /\ UNCHANGED <<modelVars, historyVars, followed>>
OfModels(A) == followed = "models" /\ A /\ UNCHANGED <<diskVars, historyVars, followed>>
OfHistory(A) == followed = "history" /\ A /\ UNCHANGED <<diskVars, modelVars, followed>>

MeasurementsNext == OfDisk(DiskNext) \/ OfModels(ModelsNext) \/ OfHistory(HistoryNext)

MeasurementsSpec == MeasurementsInit /\ [][MeasurementsNext]_measurementVars

(* The event loop runs what is due, every du and every walk ends, and time  *)
(* passes.  Nothing is assumed of downloads, nor that a scan is ever done   *)
(* in time.                                                                 *)
MeasurementsFairness ==
    /\ WF_measurementVars(OfDisk(DiskLoop)) /\ WF_measurementVars(OfDisk(DiskTick))
    /\ \A t \in DiskThreads : WF_measurementVars(OfDisk(DiskThreadStep(t)))
    /\ WF_measurementVars(OfModels(ScanStep))
    /\ \A w \in Walkers : WF_measurementVars(OfModels(WalkEnds(w)))

FairMeasurements == MeasurementsSpec /\ MeasurementsFairness

-----------------------------------------------------------------------------
MeasurementsTypeOK ==
    /\ DiskType
    /\ ModelsType
    /\ HistoryType

(* What a section that says ok shows is recent: a size is no older than the *)
(* expiry of the cache allows, and a model's is from after the last change  *)
(* of its directory that the scan could see (SizesAreRecent, ScanIsCurrent).*)
ShownIsRecent == SizesAreRecent /\ ScanIsCurrent

(* Measurements that take longer than any one collection may are shown all  *)
(* the same, because a thread that was given up still fills the cache       *)
(* (SlowRootsAreShown, TopChangesAreShown).                                 *)
SlowMeasurementsArrive ==
    /\ followed = "disk" => SlowRootsAreShown
    /\ followed = "models" => TopChangesAreShown

=============================================================================
