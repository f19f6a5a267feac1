-------------------------- MODULE MCPhotoEvidence --------------------------
(***************************************************************************)
(* One photo and its two objects for TLC, from two sides chosen at the     *)
(* start: the upload's completion and the erasure beside a worker, one     *)
(* cycle at a time and each job tried once, without managers; and two      *)
(* workers that lose leases to each other, with the managers, without      *)
(* completions.                                                            *)
(***************************************************************************)
EXTENDS PhotoEvidence, TLC

VARIABLE side

WorkerSymmetry == Permutations(Workers)

MCInit == Init /\ side \in {"upload", "queues"}

OneCycle ==
    \E w \in Workers : \A v \in Workers \ {w} : step'[v] = "thumbnails"
TriedOnce ==
    /\ \A p \in Photos : thumb'[p].attempts <= 1
    /\ \A o \in Objects : deletion'[o].attempts <= 1

MCNext ==
    /\ UNCHANGED side
    /\ Next
    /\ side = "queues" => UNCHANGED request
    /\ side = "upload" => OneCycle /\ TriedOnce /\ ~ManagerStep

MCSpec == MCInit /\ [][MCNext]_<<vars, side>>
=============================================================================
