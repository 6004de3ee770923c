--------------------------- MODULE MCMeasurements ---------------------------
(***************************************************************************)
(* Values for the run of Measurements.  Of the roots, the first may take   *)
(* longer than one du may and Docker's own is not readable; a tick of the  *)
(* disk's clock is forty seconds (du 110 s, collection 120 s, interval     *)
(* 60 s, expiry 900 s).                                                    *)
(***************************************************************************)
EXTENDS Measurements

CONSTANTS huggingface, data, docker, qwen, llama, utilization, used, running

RootList == <<huggingface, data>>
EntryList == <<llama, qwen>>

(* the metrics of gpu, of which it may lack one, and that of containers *)
RecordedMetrics == {{utilization, used}, {running}}
=============================================================================
