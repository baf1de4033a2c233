----------------------------- MODULE DomainLife -----------------------------
(***************************************************************************)
(* What a client of bmboot may rely on about the state of a domain: the    *)
(* life cycle behind DomainState, whoever changes it.  A restart is due    *)
(* from the release of the core, or from a kill, until the monitor reports *)
(* to be ready; nothing else brings a payload's domain back to ready, and  *)
(* nothing at all brings back a crashed monitor.                           *)
(***************************************************************************)
VARIABLES
    life,     \* "off", "foreign", or the state the core reports
    restart   \* the monitor is about to (re)start

lifeVars == <<life, restart>>

Payloads == {"starting_payload", "running_payload", "crashed_payload"}
Alive == Payloads \cup {"invalid_state", "monitor_ready"}

LifeInit == life \in {"off", "foreign"} /\ restart = FALSE

(* The core is released; until the monitor is ready it reports no state.   *)
Release == life = "off" /\ life' = "invalid_state" /\ restart' = TRUE

(* A client kills whatever executes: the state changes later.              *)
Kill == life \in Alive \cup {"crashed_monitor"} /\ restart' = TRUE /\ UNCHANGED life

(* The monitor is up; a kill that came meanwhile is still due.             *)
Ready == /\ restart /\ life \in Alive
         /\ life' = "monitor_ready" /\ restart' \in BOOLEAN

(* A start command is taken up.                                            *)
Start == life = "monitor_ready" /\ life' = "starting_payload" /\ UNCHANGED restart

(* It is refused.                                                          *)
Refuse == life = "starting_payload" /\ life' = "monitor_ready" /\ UNCHANGED restart

(* The payload reports.                                                    *)
Report == /\ life \in Payloads /\ life' \in {"running_payload", "crashed_payload"}
          /\ UNCHANGED restart

(* The monitor crashes, and an unfinished restart with it.                 *)
Crash == life \in Alive /\ life' = "crashed_monitor" /\ restart' \in BOOLEAN

LifeNext == Release \/ Kill \/ Ready \/ Start \/ Refuse \/ Report \/ Crash
LifeSpec == LifeInit /\ [][LifeNext]_lifeVars
=============================================================================
