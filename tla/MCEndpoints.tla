------------------------------ MODULE MCEndpoints ------------------------------
(***************************************************************************)
(* The ends of a bot's two connections and the guards at them.  They share    *)
(* nothing, so a behaviour exercises one of them while the others rest.       *)
(***************************************************************************)
EXTENDS CoordinatorLifecycle, IrcClient, EnvelopeReplay, RateLimiter, ModeLines, GlobMatch

MCOffers == {{}, Features}

\* With all tiers, without one, without "@" and o, and with operators named otherwise.
MCAdvertised ==
  {<<Rank("q", "~"), Rank("o", "@"), Rank("v", "+")>>, <<Rank("v", "+")>>,
   <<Rank("q", "~"), Rank("a", "&")>>, <<Rank("u", "@"), Rank("v", "+")>>}

endpointVars == <<vars, clientVars, replayVars, rateVars, modeVars, glob>>

EndpointsInit ==
  \/ Init /\ ClientRests /\ ReplayRests /\ RateRests /\ ModesRest /\ GlobRests
  \/ Rests /\ ClientInit /\ ReplayRests /\ RateRests /\ ModesRest /\ GlobRests
  \/ Rests /\ ClientRests /\ ReplayInit /\ RateRests /\ ModesRest /\ GlobRests
  \/ Rests /\ ClientRests /\ ReplayRests /\ RateInit /\ ModesRest /\ GlobRests
  \/ Rests /\ ClientRests /\ ReplayRests /\ RateRests /\ ModesInit /\ GlobRests
  \/ Rests /\ ClientRests /\ ReplayRests /\ RateRests /\ ModesRest /\ GlobInit

EndpointsNext ==
  \/ Next /\ UNCHANGED <<clientVars, replayVars, rateVars, modeVars, glob>>
  \/ ClientNext /\ UNCHANGED <<vars, replayVars, rateVars, modeVars, glob>>
  \/ ReplayNext /\ UNCHANGED <<vars, clientVars, rateVars, modeVars, glob>>
  \/ RateNext /\ UNCHANGED <<vars, clientVars, replayVars, modeVars, glob>>
  \/ ModesNext /\ UNCHANGED <<vars, clientVars, replayVars, rateVars, glob>>
  \/ GlobNext /\ UNCHANGED <<vars, clientVars, replayVars, rateVars, modeVars>>

EndpointsSpec ==
  EndpointsInit /\ [][EndpointsNext]_endpointVars /\ Fairness /\ ClientFairness

=============================================================================
