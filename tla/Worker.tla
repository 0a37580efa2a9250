------------------------------- MODULE Worker -------------------------------
(***************************************************************************)
(* What every service of the program promises about the thread behind it.  *)
(* httpd, raop_rtp, raop_ntp and raop_rtp_mirror each keep two flags under *)
(* run_mutex, running and joined, and offer start, stop and destroy; this  *)
(* is the life their users may rely on.  A thread that ends by itself      *)
(* leaves the service "failed": it cannot be started again, only freed.    *)
(***************************************************************************)
VARIABLES
  life,    \* "stopped", "running", "stopping", "failed"
  active   \* the service's thread exists

wvars == <<life, active>>

Init == life = "stopped" /\ active = FALSE

Start == life = "stopped" /\ life' = "running" /\ active' = TRUE

AskToStop == life = "running" /\ life' = "stopping" /\ UNCHANGED active

Fail ==
  /\ life = "running" /\ life' = "failed"
  /\ active' \in {active, FALSE}

ThreadEnds ==
  /\ active /\ life # "running"
  /\ active' = FALSE /\ UNCHANGED life

Stopped ==
  /\ life = "stopping" /\ ~active
  /\ life' = "stopped" /\ UNCHANGED active

Free ==
  /\ life \in {"stopped", "failed"}
  /\ life' = "stopped" /\ active' = FALSE

Next == Start \/ AskToStop \/ Fail \/ ThreadEnds \/ Stopped \/ Free

Safe == Init /\ [][Next]_wvars

(* A service that was asked to stop does stop.                             *)
Spec ==
  /\ Safe
  /\ WF_wvars(ThreadEnds /\ life = "stopping")
  /\ WF_wvars(Stopped)
=============================================================================
