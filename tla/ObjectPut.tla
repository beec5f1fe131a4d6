------------------------------ MODULE ObjectPut ------------------------------
(***************************************************************************)
(* What Store.Put promises its caller, Draft.AttachFile, about one object: *)
(* the object appears whole, at most once and while Put runs, or never;    *)
(* Put returns; and it returns without an error only if the object is      *)
(* there.  After an error the caller knows nothing, which is why           *)
(* AttachFile deletes the object "defensively" (internal/service/job.go).  *)
(*                                                                         *)
(* MultipartUpload implements this, and the actions AttachFile and         *)
(* PutFails of Ingest are its steps Return("ok") and Return("error").      *)
(***************************************************************************)
VARIABLES
    stored,  \* "no", "whole", or "damaged", which no step leads to
    result   \* "none" while Put runs, then "ok" or "error"

putVars == <<stored, result>>

PutInit == stored = "no" /\ result = "none"

\* The object appears before Put returns.
Appear ==
    /\ result = "none"
    /\ stored = "no"
    /\ stored' = "whole"
    /\ UNCHANGED result

\* Put returns; the object may appear with the same call to the bucket.
Return(res) ==
    /\ result = "none"
    /\ result' = res
    /\ stored' \in {stored, "whole"}
    /\ res = "ok" => stored' = "whole"

PutStep == Appear \/ \E res \in {"ok", "error"} : Return(res)

\* What Put never does, apart from what it must do in the end.
PutSafety == PutInit /\ [][PutStep]_putVars

PutSpec ==
    /\ PutSafety
    /\ WF_putVars(\E res \in {"ok", "error"} : Return(res))
=============================================================================
