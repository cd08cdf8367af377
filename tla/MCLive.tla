----------------------------- MODULE MCLive -------------------------------
(***************************************************************************)
(* Parts of the daemon that share no state, in one run: the setup wizard,  *)
(* the opportunistic prober and the controller of a curve-following        *)
(* channel.  A behaviour is one of part's.                                 *)
(***************************************************************************)
EXTENDS SetupWizard, OpportunisticProbe, CurveSink, TLC

CONSTANTS p1, p2

VARIABLE part

OneFloor == p1 :> 0 @@ p2 :> 1

liveVars == <<part, wizVars, oVars, cVars>>

LiveInit ==
    /\ part \in {"wizard", "prober", "sink"}
    /\ WizardInit /\ OppInit /\ CurveInit
    /\ part # "sink" => bound = NoCurve /\ ~session /\ obeys = Whole(Factory)
    /\ part # "prober" => order[p1] = 1

\* The prober meets one trouble of the host's.
OneTrouble == (drives + gone + flips)' <= 1

OnlyWizard == part = "wizard" /\ UNCHANGED <<part, oVars, cVars>>
OnlyProber == part = "prober" /\ UNCHANGED <<part, wizVars, cVars>>
OnlySink == part = "sink" /\ UNCHANGED <<part, wizVars, oVars>>

LiveNext ==
    \/ OnlyWizard /\ WizardNext
    \/ OnlyProber /\ OppNext /\ OneTrouble
    \/ OnlySink /\ CurveNext

\* The types of every part.
LivePartsTypeOK == WizardTypeOK /\ OppTypeOK /\ CurveTypeOK

LiveParts ==
    /\ LiveInit /\ [][LiveNext]_liveVars
    /\ WF_liveVars(OnlyWizard /\ WizardStep)
    /\ WF_liveVars(OnlyProber /\ FireStep)
    /\ SF_liveVars(OnlyProber /\ SchedulerTick)
    /\ WF_liveVars(OnlySink /\ SinkStep)

\* GapsGetVisited, of the behaviours that are the prober's: every duty of
\* every fan is observed or given up in the end.
ProberVisitsGaps == part = "prober" => GapsGetVisited
=============================================================================
