------------------------------ MODULE ChatJob ------------------------------
(***************************************************************************)
(* What the chat path promises about one admitted job, whoever works on    *)
(* it and whatever crashes: its backend request is sent at most once, it   *)
(* gets at most one outcome, and its chat slot and conversation are given  *)
(* back only when it has one (or its records are gone).                    *)
(* docs/architecture.md, "Request path"; StreamJob implements it.          *)
(***************************************************************************)
CONSTANT Outcomes

VARIABLES outcome,  \* "open", one of Outcomes, or "lost" with its records
          starts,   \* backend requests sent
          held      \* slot and conversation are still the job's

vars == <<outcome, starts, held>>

Init == outcome = "open" /\ starts = 0 /\ held = TRUE

Start ==
  /\ starts = 0 /\ starts' = 1
  /\ UNCHANGED <<outcome, held>>

Finish(o) ==
  /\ outcome = "open" /\ outcome' = o
  /\ UNCHANGED <<starts, held>>

Lose ==
  /\ outcome' = "lost"
  /\ UNCHANGED <<starts, held>>

Release ==
  /\ held /\ outcome # "open" /\ held' = FALSE
  /\ UNCHANGED <<outcome, starts>>

Next == Start \/ (\E o \in Outcomes : Finish(o)) \/ Lose \/ Release

Spec == Init /\ [][Next]_vars
=============================================================================
