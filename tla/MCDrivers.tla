------------------------------ MODULE MCDrivers ------------------------------
(***************************************************************************)
(* The sensor drivers for TLC, one of them at a time: the configuration of  *)
(* the Livox LiDARs, the way of their point clouds, the rslidar driver, and *)
(* the fusion of two LiDARs.  They run in processes (or threads) of their   *)
(* own and share nothing.                                                  *)
(***************************************************************************)
EXTENDS LivoxConfig, LivoxPoints, RsDriver, M20LidarFusion

VARIABLE driver

driversVars == <<driver, configVars, pointsVars, rsVars, fusionVars>>

DriversInit ==
  /\ driver \in {"config", "points", "rs", "fusion"}
  /\ ConfigInit /\ PointsInit /\ RsInit /\ FusionInit /\ (driver = "rs" \/ angle = 0)

DriversNext ==
  /\ UNCHANGED driver
  /\ \/ driver = "config" /\ ConfigNext /\ UNCHANGED <<pointsVars, rsVars, fusionVars>>
     \/ driver = "points" /\ PointsNext /\ UNCHANGED <<configVars, rsVars, fusionVars>>
     \/ driver = "rs" /\ RsNext /\ UNCHANGED <<configVars, pointsVars, fusionVars>>
     \/ driver = "fusion" /\ FusionNext /\ UNCHANGED <<configVars, pointsVars, rsVars>>

\* Every LiDAR answers a request in the end, one way or the other; the threads
\* run, Livox frames keep coming, and an end once begun goes on.
DriversFairness ==
  /\ \A h \in Handles : \A k \in Keys :
       WF_configVars(driver = "config" /\ (Confirmed(h, k) \/ Refused(h, k)))
  /\ WF_pointsVars(driver = "points" /\ PollThread)
  /\ WF_pointsVars(driver = "points" /\ ProcessThread)
  /\ \A l \in Lidars : WF_pointsVars(driver = "points" /\ RawDataProcess(l) /\ batch' # {})
  /\ WF_pointsVars(driver = "points" /\ leaving = "requested" /\ Leave)
  /\ WF_rsVars(driver = "rs" /\ (Overflow \/ ReceiveEnds))
  /\ WF_rsVars(driver = "rs" /\ HandleThread) /\ WF_rsVars(driver = "rs" /\ SendThread)
  /\ WF_rsVars(driver = "rs" /\ stage # "running" /\ Stop)

DriversSpec == DriversInit /\ [][DriversNext]_driversVars /\ DriversFairness
=============================================================================
