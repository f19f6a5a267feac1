------------------------- MODULE MCCustomerService -------------------------
(***************************************************************************)
(* What a customer is shown and decides on, for TLC, from one of six       *)
(* sides chosen at the start.  One job with one checklist item and two     *)
(* photos of one kind, a manager and a crew member: one report request and *)
(* one photo beside all the crew does on the job, with its ids, or without *)
(* them and beside the route, with the ids of its progress; or three       *)
(* report requests beside a crew that repeats nothing and has no add-ons   *)
(* or stop left to work on.  One bid, with a manager and a crew member.    *)
(* And the phone of a crew member, with the starts and completions, or the *)
(* route progress, that it saves and sends again.                          *)
(***************************************************************************)
EXTENDS CustomerService, TLC

CONSTANTS owner, helper, before

CONSTANT Sides
VARIABLE side

MCRoleOf == [u \in Users |-> IF u = owner THEN "manager" ELSE "crew_member"]
MCKindOf == [p \in Photos |-> before]
\* Photos and scopes are the same model values: nothing compares the one with
\* the other, and one permutation serves both.
ASSUME Photos = Scopes
Symmetry == Permutations(Requests) \cup Permutations(Photos) \cup Permutations(Keys)

\* The reports of a job that is over and done with, and the bid of a job
\* that was not released, stay as they are.
MCInit ==
    /\ CustomerInit
    /\ side \in Sides
    /\ side \in {"requests", "bids"} => stop = "none"
    /\ side # "crew" => \A a \in AddOns : addOn[a] = "none"
    /\ side # "bids" => ~visit

OneRequest == Cardinality({r \in Requests : request'[r] # NoOne}) <= 1
WritesWith(ids) == \A w \in Writers : write'[w] # NoOne => write'[w].id \in ids
OnePhoto == Cardinality(photos' \cup erased') <= 1

\* The first change of each kind is the only one beside the phone, and the
\* first that is made on it.
First(kind) == CHOOSE m \in kind : TRUE
OneId ==
    /\ \A m \in Starts \ {First(Starts)} : lifecycle'[m] = NoOne
    /\ \A m \in Moves \ {First(Moves)} : moved'[m] = NoOne
MadeOf(kind) ==
    \A m \in Changes : asked'[m] # NoOne =>
        /\ m \in kind /\ asked'[First(kind)] # NoOne
        /\ asked'[m] # "open"

\* The stop that the phone shows is taken off the route; a stop that an id
\* refers to cannot be.
StopRemoved == ChangeRoute("none") /\ \A m \in Moves : moved[m] = NoOne

MCNext ==
    /\ UNCHANGED side
    /\ \/ /\ side \in {"crew", "route", "requests"}
          /\ UNCHANGED <<bidsVars, phoneVars>>
          /\ \/ /\ side = "crew" /\ Next /\ OneRequest /\ OnePhoto
                /\ UNCHANGED moved /\ WritesWith(Mutations)
             \/ /\ side = "route" /\ Next /\ OneRequest /\ OnePhoto
                /\ UNCHANGED <<ledger, lifecycle, addOn>> /\ WritesWith({NoOne})
             \/ side = "requests" /\ Next /\ UNCHANGED <<crewVars, addOn, stop>>
          /\ OneId
       \/ /\ side = "bids" /\ BidsNext
          /\ UNCHANGED <<vars, phoneVars>>
       \/ /\ side \in {"job", "progress"}
          /\ UNCHANGED bidsVars
          /\ \/ PhoneStep /\ MadeOf(IF side = "job" THEN Starts ELSE Moves)
             \/ side = "progress" /\ StopRemoved /\ UNCHANGED phoneVars

MCSpec == MCInit /\ [][MCNext]_<<vars, bidsVars, phoneVars, side>>
=============================================================================
