-------------------------- MODULE GlobalLocalization --------------------------
(***************************************************************************)
(* The global localisation node: the callbacks of the odometry, the scans   *)
(* and the operator's pose run on the threads of an AsyncSpinner, each      *)
(* topic's one at a time, beside the thread that registers the scans with   *)
(* the map.  A matrix is abstracted to the pose it goes back to: the one    *)
(* of the configuration (0), or the n-th of the operator, all of them far   *)
(* apart; a registration refines a pose and does not change which one it    *)
(* is.  A matrix that is read while it is written is torn.                  *)
(***************************************************************************)
EXTENDS Integers, Sequences

CONSTANTS
  MaxPoses,      \* bound: how often the operator gives a pose
  MaxScans,      \* bound: how many scans come
  queue_maxsize  \* queue_maxsize_

ASSUME LocalizationAssumption ==
  MaxPoses \in Nat /\ MaxScans \in Nat /\ queue_maxsize \in Nat \ {0}

VARIABLES
  timestamp_fresh,   \* timestamp_odom_ is not the one the thread read last
  odom_step, odom_read,       \* CallbackBaselink2Odom: where it is, what it stores
  mat_baselink2map,
  pose_step, initialpose,     \* CallbackInitialPose: where it is, its message
  mat_initialpose,
  mat_odom2map,               \* the pose, and what it comes from
  lock_mat_odom2map,
  scan_step, last_scan,       \* CallbackScan: where it is, its message
  que_pcd_scan, pcd_scan_cur, lock_scan,
  thread_step,                \* the localisation thread: where it is,
  pcd_scan,                   \* its copy of pcd_scan_cur,
  map_crop,                   \* the pose its crop of the map is for,
  reg_matrix, fitness,        \* the pose it registers, and how well it fits
  count_success, loc_initialized, loc_fitness,
  given                       \* ghost: the last pose given since it registers

odomVars   == <<odom_step, odom_read, mat_baselink2map>>
poseVars   == <<pose_step, initialpose, mat_initialpose>>
matVars    == <<mat_odom2map, lock_mat_odom2map, given>>
scanVars   == <<scan_step, last_scan, que_pcd_scan, pcd_scan_cur, lock_scan>>
copyVars   == <<pcd_scan, map_crop>>
resultVars == <<count_success, loc_initialized, loc_fitness>>
threadVars == <<thread_step, copyVars, reg_matrix, fitness, resultVars>>
locVars    == <<timestamp_fresh, odomVars, poseVars, matVars, scanVars, threadVars>>

Torn    == -1
Unset   == -2  \* never written
PoseId  == Unset .. MaxPoses
Fitness == {"low", "enough", "sure"}  \* up to the thresholds, up to 0.99, above

Matrix(id, by) == [id |-> id, by |-> by]
TornMatrix     == Matrix(Torn, "torn")
\* What a reader may see of mat_odom2map_ while id is written into it.
HalfWritten(id) == IF mat_odom2map.id = id THEN mat_odom2map ELSE TornMatrix

LocInit ==
  /\ timestamp_fresh = FALSE
  /\ odom_step = "idle" /\ odom_read = Unset /\ mat_baselink2map = Unset
  /\ pose_step = "idle" /\ initialpose = 0 /\ mat_initialpose = 0
  /\ mat_odom2map = Matrix(Unset, "nothing") /\ lock_mat_odom2map = "free" /\ given = Unset
  /\ scan_step = "idle" /\ last_scan = 0
  /\ que_pcd_scan = <<>> /\ pcd_scan_cur = <<>> /\ lock_scan = "free"
  /\ thread_step = "start" /\ pcd_scan = <<>> /\ map_crop = Unset
  /\ reg_matrix = Unset /\ fitness = "low"
  /\ count_success = 0 /\ loc_initialized = FALSE /\ loc_fitness = "none"

\* CallbackBaselink2Odom reads mat_odom2map_ and stores mat_baselink2map_, both
\* without a lock.
OdomArrives ==
  /\ odom_step = "idle"
  /\ odom_step' = "stamped" /\ timestamp_fresh' = TRUE
  /\ UNCHANGED <<odom_read, mat_baselink2map>>
OdomReads ==
  /\ odom_step = "stamped"
  /\ odom_step' = "storing" /\ odom_read' = mat_odom2map.id
  /\ mat_baselink2map' = IF mat_baselink2map = mat_odom2map.id THEN mat_baselink2map ELSE Torn
  /\ UNCHANGED timestamp_fresh
OdomStores ==
  /\ odom_step = "storing"
  /\ odom_step' = "idle" /\ odom_read' = Unset /\ mat_baselink2map' = odom_read
  /\ UNCHANGED timestamp_fresh
CallbackBaselink2Odom ==
  /\ OdomArrives \/ OdomReads \/ OdomStores
  /\ UNCHANGED <<poseVars, matVars, scanVars, threadVars>>

\* CallbackInitialPose: refused once the localisation is sure.  The matrix of
\* the pose is set before the lock is taken.
PoseArrives ==
  /\ pose_step = "idle" /\ initialpose < MaxPoses
  /\ ~(loc_initialized /\ loc_fitness = "sure")
  /\ pose_step' = "setting" /\ initialpose' = initialpose + 1 /\ mat_initialpose' = Torn
  /\ UNCHANGED matVars
PoseSet ==
  /\ pose_step = "setting"
  /\ pose_step' = "locking" /\ mat_initialpose' = initialpose
  /\ UNCHANGED <<initialpose, matVars>>
PoseLocks ==
  /\ pose_step = "locking" /\ lock_mat_odom2map = "free"
  /\ pose_step' = "writing" /\ lock_mat_odom2map' = "pose"
  /\ mat_odom2map' = HalfWritten(initialpose)
  /\ given' = IF thread_step \in {"start", "copying"} THEN given ELSE initialpose
  /\ UNCHANGED <<initialpose, mat_initialpose>>
PoseWritten ==
  /\ pose_step = "writing"
  /\ pose_step' = "idle" /\ lock_mat_odom2map' = "free"
  /\ mat_odom2map' = Matrix(initialpose, "operator")
  /\ UNCHANGED <<initialpose, mat_initialpose, given>>
CallbackInitialPose ==
  /\ PoseArrives \/ PoseSet \/ PoseLocks \/ PoseWritten
  /\ UNCHANGED <<timestamp_fresh, odomVars, scanVars, threadVars>>

\* CallbackScan: a full queue is gathered into pcd_scan_cur_, frame by frame,
\* before its oldest frame makes room for the new one.
ScanArrives ==
  /\ scan_step = "idle" /\ last_scan < MaxScans
  /\ last_scan' = last_scan + 1
  /\ IF Len(que_pcd_scan) >= queue_maxsize
       THEN /\ scan_step' = "locking" /\ UNCHANGED que_pcd_scan
       ELSE /\ que_pcd_scan' = Append(que_pcd_scan, last_scan') /\ UNCHANGED scan_step
  /\ UNCHANGED <<pcd_scan_cur, lock_scan>>
ScanLocks ==
  /\ scan_step = "locking" /\ lock_scan = "free"
  /\ scan_step' = "gathering" /\ lock_scan' = "scan" /\ pcd_scan_cur' = <<>>
  /\ UNCHANGED <<last_scan, que_pcd_scan>>
ScanGathers ==
  /\ scan_step = "gathering" /\ Len(pcd_scan_cur) < Len(que_pcd_scan)
  /\ pcd_scan_cur' = Append(pcd_scan_cur, que_pcd_scan[Len(pcd_scan_cur) + 1])
  /\ UNCHANGED <<scan_step, last_scan, que_pcd_scan, lock_scan>>
ScanPushed ==
  /\ scan_step = "gathering" /\ Len(pcd_scan_cur) = Len(que_pcd_scan)
  /\ scan_step' = "idle" /\ lock_scan' = "free"
  /\ que_pcd_scan' = Append(Tail(que_pcd_scan), last_scan)
  /\ UNCHANGED <<last_scan, pcd_scan_cur>>
CallbackScan ==
  /\ ScanArrives \/ ScanLocks \/ ScanGathers \/ ScanPushed
  /\ UNCHANGED <<timestamp_fresh, odomVars, poseVars, matVars, threadVars>>

\* Localization: once there is odometry and a scan, the pose of the
\* configuration, or one the operator has given by then, is copied.  Neither
\* matrix is locked: what is left may be torn, or undo the operator's pose, when
\* his callback writes one of them meanwhile.
CopyBegins ==
  /\ thread_step = "start" /\ last_scan > 0
  /\ thread_step' = "copying" /\ reg_matrix' = mat_initialpose
  /\ mat_odom2map' = HalfWritten(mat_initialpose)
  /\ UNCHANGED <<timestamp_fresh, copyVars, fitness, resultVars, lock_mat_odom2map, given>>
CopyEnds ==
  /\ thread_step = "copying"
  /\ thread_step' = "scan" /\ reg_matrix' = Unset
  /\ mat_odom2map' \in {Matrix(reg_matrix, "config"), mat_odom2map, TornMatrix}
  /\ mat_odom2map.id = Torn => mat_odom2map' = Matrix(reg_matrix, "config")
  /\ UNCHANGED <<timestamp_fresh, copyVars, fitness, resultVars, lock_mat_odom2map, given>>

\* The loop of Localization waits for odometry it has not seen; the one of
\* LocalizationInitialize does not.
NewOdometry ==
  /\ thread_step = "stamp" /\ timestamp_fresh
  /\ thread_step' = "scan" /\ timestamp_fresh' = FALSE
  /\ UNCHANGED <<copyVars, reg_matrix, fitness, resultVars, matVars>>

\* A slip: only the robot's motion moves the crop, not the operator's pose.
CropOfOdometry == IF loc_initialized /\ map_crop # Unset THEN map_crop ELSE mat_baselink2map

\* The map is cropped where the robot is: anew each time while initialising,
\* once it is far from the last crop after that.
Crop == mat_baselink2map

\* pcd_scan_cur_ and mat_baselink2map_ are copied while it holds lock_scan_.
CopyScan ==
  /\ thread_step = "scan" /\ lock_scan = "free" /\ pcd_scan_cur # <<>>
  /\ thread_step' = "locking" /\ pcd_scan' = pcd_scan_cur /\ map_crop' = Crop
  /\ UNCHANGED <<timestamp_fresh, reg_matrix, fitness, resultVars, matVars>>

\* A slip: mat_odom2map_ is read before the lock is taken.
RegistrationBeginsUnlocked ==
  /\ thread_step = "locking"
  /\ thread_step' = "registering" /\ reg_matrix' = mat_odom2map.id
  /\ UNCHANGED <<timestamp_fresh, copyVars, fitness, resultVars, matVars>>

\* The lock is held from the reading of mat_odom2map_ to its writing.
RegistrationBegins ==
  /\ thread_step = "locking" /\ lock_mat_odom2map = "free"
  /\ thread_step' = "registering" /\ lock_mat_odom2map' = "thread"
  /\ reg_matrix' = mat_odom2map.id
  /\ UNCHANGED <<timestamp_fresh, copyVars, fitness, resultVars, mat_odom2map, given>>

\* While initialising every result is taken over, after that one that fits.
Adopted(f) == loc_initialized => f # "low"

\* The registration, external, fits as it may.  While initialising,
\* loc_fitness_ stays as it was.
RegistrationEnds ==
  /\ thread_step = "registering"
  /\ thread_step' = "unlocking" /\ fitness' \in Fitness
  /\ loc_fitness' = IF loc_initialized THEN fitness' ELSE loc_fitness
  /\ mat_odom2map' = IF Adopted(fitness') THEN HalfWritten(reg_matrix) ELSE mat_odom2map
  /\ UNCHANGED <<timestamp_fresh, copyVars, reg_matrix, count_success, loc_initialized,
                 lock_mat_odom2map, given>>

\* Two results that fit, one after the other, end the initialisation.
Unlocked ==
  /\ thread_step = "unlocking"
  /\ lock_mat_odom2map' = "free" /\ reg_matrix' = Unset
  /\ mat_odom2map' =
       IF ~Adopted(fitness) THEN mat_odom2map
       ELSE Matrix(reg_matrix, IF fitness = "low" THEN "misfit" ELSE "fit")
  /\ count_success' = IF loc_initialized THEN count_success
                      ELSE IF fitness = "low" THEN 0 ELSE count_success + 1
  /\ thread_step' = IF loc_initialized THEN "stamp"
                    ELSE IF count_success' >= 2 THEN "initialized" ELSE "scan"
  /\ UNCHANGED <<timestamp_fresh, copyVars, fitness, loc_initialized, loc_fitness, given>>

\* The loop of Localization begins with a crop of its own, and with a stamp
\* that counts as new.
Initialized ==
  /\ thread_step = "initialized"
  /\ thread_step' = "stamp" /\ loc_initialized' = TRUE
  /\ timestamp_fresh' = TRUE /\ pcd_scan' = <<>> /\ map_crop' = Unset
  /\ UNCHANGED <<reg_matrix, fitness, count_success, loc_fitness, matVars>>

Localization ==
  /\ \/ CopyBegins \/ CopyEnds \/ NewOdometry \/ CopyScan
     \/ RegistrationBegins \/ RegistrationEnds \/ Unlocked \/ Initialized
  /\ UNCHANGED <<odomVars, poseVars, scanVars>>

LocNext ==
  CallbackBaselink2Odom \/ CallbackInitialPose \/ CallbackScan \/ Localization

LocSpec == LocInit /\ [][LocNext]_locVars

-----------------------------------------------------------------------------
(* Properties                                                              *)

\* Every variable keeps its type, and the queue of scans its length.
LocTypeOK ==
  /\ timestamp_fresh \in BOOLEAN /\ loc_initialized \in BOOLEAN
  /\ {odom_read, mat_baselink2map, mat_initialpose, map_crop, reg_matrix, given} \subseteq PoseId
  /\ initialpose \in 0 .. MaxPoses /\ last_scan \in 0 .. MaxScans
  /\ mat_odom2map.id \in PoseId
  /\ mat_odom2map.by \in {"nothing", "torn", "config", "operator", "misfit", "fit"}
  /\ lock_mat_odom2map \in {"free", "pose", "thread"} /\ lock_scan \in {"free", "scan"}
  /\ Len(que_pcd_scan) <= queue_maxsize /\ Len(pcd_scan_cur) <= queue_maxsize
  /\ count_success \in 0 .. 2
  /\ fitness \in Fitness /\ loc_fitness \in Fitness \cup {"none"}

\* A pose the operator gives while the thread registers scans is not undone by
\* a registration that began before it: what stands is his last pose, or a
\* registration that started from it.  And once localisation is initialised, that
\* registration fits; before that map-to-odom is published whatever the fit.
NoPoseLost ==
  lock_mat_odom2map = "free" =>
    /\ given # Unset => mat_odom2map.id = given
    /\ loc_initialized => mat_odom2map.by \in {"fit", "operator"}

\* The map that scans are registered with catches up with the pose: when the
\* operator gives no more poses, the crop is in the end the one of his last.
CropCatchesUp == <>[](map_crop = mat_odom2map.id)
=============================================================================
