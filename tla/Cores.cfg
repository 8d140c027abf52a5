SPECIFICATION FairCoresSpec
CONSTANTS
  Insts <- MCInsts
  Core <- MCCore
  Cfgs <- MCCfgs
  Bad = {"bad"}
  Mute = {"mute"}
  PortOf <- MCPortOf
  NameOf <- MCNameOf
  Wants <- MCWants
  Strangers <- MCStrangers
  r1 = r1
  r2 = r2
  Reqs = {r1, r2}
  Kinds <- MCKinds
  Plans <- MCPlans
INVARIANTS CoresTypeOK AckedRuns MeterConserved
 
CHECK_DEADLOCK FALSE
