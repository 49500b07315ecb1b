----------------------------- MODULE LivoxConfig -----------------------------
(***************************************************************************)
(* How a Livox LiDAR comes to be sampled (livox_lidar_callback.cpp): when   *)
(* the SDK reports it, the driver asks for each setting of the              *)
(* configuration file and keeps a bit for it until it is confirmed; the      *)
(* poll thread reads the LiDAR only after the last bit has gone.  A LiDAR    *)
(* that is not in the file gets an index and no settings, and when it is     *)
(* reported again, its settings of zero are taken for wishes: -1 would mean  *)
(* "leave it alone".                                                        *)
(***************************************************************************)
EXTENDS Integers, FiniteSetsExt

CONSTANTS
  Handles,      \* the LiDARs on the network
  InFile,       \* those of the configuration file
  Keys,         \* kConfigDataType, kConfigScanPattern, ...
  Wished,       \* the keys the file sets
  MaxSources,   \* kMaxSourceLidar
  MaxReports    \* bound on the reports of a LiDAR

ASSUME ConfigAssumption ==
  /\ InFile \subseteq Handles /\ Wished \subseteq Keys
  /\ MaxSources \in Nat /\ MaxReports \in Nat /\ IsFiniteSet(Handles)

VARIABLES
  known,      \* the LiDARs with an index in the cache
  set_bits,   \* the settings that are not confirmed
  requests,   \* the answers still to come
  refused,    \* the settings that have failed: nobody asks again
  sampling,   \* the LiDARs with connect_state Sampling
  reports

configVars == <<known, set_bits, requests, refused, sampling, reports>>

\* InitLivoxLidar gives the LiDARs of the file the first indices.
ConfigInit ==
  /\ known \in kSubset(Min({MaxSources, Cardinality(InFile)}), InFile)
  /\ set_bits = [h \in Handles |-> {}]
  /\ requests = [h \in Handles |-> [k \in Keys |-> 0]]
  /\ refused = [h \in Handles |-> {}]
  /\ sampling = {} /\ reports = [h \in Handles |-> 0]

Settings(h) == IF h \in InFile THEN Wished ELSE Keys

\* GetFreeIndex
GetFreeIndex(h) ==
  known' = IF Cardinality(known) < MaxSources THEN known \cup {h} ELSE known

\* LidarInfoChangeCallback: an unknown LiDAR is given an index and no more; a
\* known one is asked for its settings, whatever has been asked before.
LidarInfoChange(h) ==
  /\ reports[h] < MaxReports
  /\ reports' = [reports EXCEPT ![h] = @ + 1]
  /\ \/ h \notin known /\ GetFreeIndex(h) /\ UNCHANGED <<set_bits, requests>>
     \/ /\ h \in known
        /\ set_bits' = [set_bits EXCEPT ![h] = @ \cup Settings(h)]
        /\ requests' = [requests EXCEPT ![h] =
                          [k \in Keys |-> IF k \in Settings(h) THEN @[k] + 1 ELSE @[k]]]
        /\ UNCHANGED known
  /\ UNCHANGED <<refused, sampling>>

Answered(h, k) == requests' = [requests EXCEPT ![h][k] = @ - 1]

\* A setting has been confirmed: its bit goes, and with the last one the LiDAR
\* is sampled (SetDataTypeCallback and its three siblings).
Confirmed(h, k) ==
  /\ requests[h][k] > 0 /\ Answered(h, k)
  /\ set_bits' = [set_bits EXCEPT ![h] = @ \ {k}]
  /\ sampling' = IF set_bits'[h] = {} THEN sampling \cup {h} ELSE sampling
  /\ UNCHANGED <<known, refused, reports>>

\* A slip: a timeout is a failure like any other.
TimedOutForGood(h, k) ==
  /\ requests[h][k] > 0 /\ Answered(h, k)
  /\ UNCHANGED <<known, set_bits, refused, sampling, reports>>

\* A timeout: the same request again, and as many answers to come.
TimedOut(h, k) ==
  /\ requests[h][k] > 0
  /\ UNCHANGED configVars

\* Any other status is printed.
Refused(h, k) ==
  /\ requests[h][k] > 0 /\ Answered(h, k)
  /\ refused' = [refused EXCEPT ![h] = @ \cup {k}]
  /\ UNCHANGED <<known, set_bits, sampling, reports>>

ConfigNext ==
  \E h \in Handles :
    \/ LidarInfoChange(h)
    \/ \E k \in Keys : Confirmed(h, k) \/ TimedOut(h, k) \/ Refused(h, k)

ConfigSpec == ConfigInit /\ [][ConfigNext]_configVars

-----------------------------------------------------------------------------
(* Properties                                                               *)

ConfigTypeOK ==
  /\ known \subseteq Handles /\ Cardinality(known) <= MaxSources
  /\ set_bits \in [Handles -> SUBSET Keys]
  /\ requests \in [Handles -> [Keys -> 0 .. MaxReports]]
  /\ refused \in [Handles -> SUBSET Keys]
  /\ sampling \subseteq known
  /\ reports \in [Handles -> 0 .. MaxReports]

\* A LiDAR of the file that is reported is sampled in the end, or has refused a
\* setting; a second report while answers of the first are on their way does no
\* harm.
ReportedIsSampled ==
  \A h \in InFile :
    reports[h] > 0 /\ h \in known ~> h \in sampling \/ refused[h] # {}
=============================================================================
