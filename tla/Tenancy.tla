------------------------------- MODULE Tenancy -------------------------------
(***************************************************************************)
(* What a deployment promises its user and whoever pays for it: one        *)
(* droplet, recorded once and never exchanged, which runs no longer when   *)
(* the stay is over; no other droplet runs unrecorded but one for each     *)
(* process that died; and each message is sent once, at its time.          *)
(***************************************************************************)
EXTENDS Naturals

CONSTANTS Droplets, None

VARIABLES
    phase,   \* waiting for a droplet, running, ending, or over
    mine,    \* the recorded droplet
    droplet, \* none, up or gone
    adrift,  \* droplets that run and that nobody can name
    deaths,  \* processes that died so far
    told     \* how often each message was sent

tenancyVars == <<phase, mine, droplet, adrift, deaths, told>>

TenancyInit ==
    /\ phase = "waiting" /\ mine = None /\ droplet = "none"
    /\ adrift = {} /\ deaths = 0
    /\ told = [m \in {"ready", "ended"} |-> 0]

\* The droplet may have been deleted before it is recorded.
Obtain(d) ==
    /\ mine = None /\ phase # "over"
    /\ mine' = d /\ droplet' \in {"up", "gone"} /\ phase' = "running"
    /\ UNCHANGED told

\* The session starts to run again only before it is over, and on its droplet.
Turn ==
    /\ phase' \in {"running", "ending"}
    /\ phase' = "running" => phase # "over" /\ mine # None
    /\ UNCHANGED <<mine, droplet, told>>

Stop ==
    /\ droplet = "up"
    /\ droplet' = "gone"
    /\ UNCHANGED <<phase, mine, told>>

Close ==
    /\ phase \in {"running", "ending"} /\ droplet # "up"
    /\ phase' = "over"
    /\ UNCHANGED <<mine, droplet, told>>

\* Ready is a session with a droplet that is not over, and ended one that ends.
Tell(m) ==
    /\ told[m] = 0
    /\ told' = [told EXCEPT ![m] = 1]
    /\ m = "ready" => mine # None /\ phase # "over"
    /\ m = "ended" => phase \in {"ending", "over"}
    /\ UNCHANGED <<phase, mine, droplet>>

\* What a process was about to record is lost with it.
Die ==
    /\ deaths' = deaths + 1
    /\ \E d \in Droplets \cup {None} : adrift' \subseteq adrift \cup ({d} \ {None})
    /\ UNCHANGED <<phase, mine, droplet, told>>

TenancyNext ==
    \/ /\ \/ \E d \in Droplets : Obtain(d)
          \/ Turn \/ Stop \/ Close
          \/ \E m \in {"ready", "ended"} : Tell(m)
          \/ UNCHANGED <<phase, mine, droplet, told>>   \* a droplet adrift is deleted
       /\ adrift' \subseteq adrift /\ UNCHANGED deaths
    \/ Die

TenancySpec == TenancyInit /\ [][TenancyNext]_tenancyVars
=============================================================================
