----------------------------- MODULE LioFrontEnd -----------------------------
(***************************************************************************)
(* The front end of the LiDAR-inertial odometry: the callbacks that buffer  *)
(* scans and IMU samples, sync_packages, which pairs a scan with the        *)
(* samples up to its end, and what the main loop does with a package.  One  *)
(* thread does it all, so a callback, or a turn of the loop, is one action. *)
(* The filter is abstracted to the time its state stands at, and a scan to  *)
(* its stamp and to how many points it has: none, too few, or enough.       *)
(***************************************************************************)
EXTENDS Integers, Sequences

CONSTANTS
  MaxStamp,    \* bound: the last instant a sample is stamped with
  ScanTime,    \* how long a scan takes
  SampleTime,  \* the longest time between two IMU samples, but for dropouts
  MaxIniCount, \* MAX_INI_COUNT: samples the initialisation takes
  BufferBound  \* bound on the samples, and on the scans, that wait

ASSUME LioAssumption ==
  /\ MaxStamp \in Nat /\ ScanTime \in Nat \ {0} /\ MaxIniCount \in Nat \ {0}
  /\ SampleTime \in 1 .. ScanTime - 1 /\ BufferBound \in Nat \ {0}

VARIABLES
  lidar_buffer, time_buffer, \* scans, and their stamps
  imu_buffer,                \* the stamps of the samples
  last_timestamp_lidar, last_timestamp_imu,
  lidar_pushed, meas,        \* the scan taken up, its times, while it waits for samples
  lidar_mean_scantime,
  flg_first_scan,
  init_count, last_imu, last_lidar_end_time, \* ImuProcess
  feats_undistort,           \* the scan whose points were last undistorted
  Root_Node,                 \* whether the map has been built
  odometry,                  \* what the last turn published: its stamp and its scan
  filter_time,               \* the time the filter's state stands at
  regular                    \* no clock has jumped back, no sample is missing

buffers == <<lidar_buffer, time_buffer, imu_buffer, last_timestamp_lidar, last_timestamp_imu>>
process == <<init_count, last_imu, last_lidar_end_time, feats_undistort, filter_time>>
lioVars == <<buffers, lidar_pushed, meas, lidar_mean_scantime, flg_first_scan, process,
             Root_Node, odometry, regular>>

Stamp     == 0 .. MaxStamp
ScanCloud == [stamp : Stamp, points : {"none", "few", "many"}]
Never     == -1  \* before the first stamp
NoCloud   == [stamp |-> Never, points |-> "none"]
NoMeas    == [lidar |-> NoCloud, beg |-> Never, end |-> Never]
Silence   == [stamp |-> Never, scan |-> NoCloud]

\* last_lidar_end_time_ is never initialised: it may read as 0 or as anything.
LioInit ==
  /\ lidar_buffer = <<>> /\ time_buffer = <<>> /\ imu_buffer = <<>>
  /\ last_timestamp_lidar = Never /\ last_timestamp_imu = Never
  /\ lidar_pushed = FALSE /\ meas = NoMeas /\ lidar_mean_scantime = 0
  /\ flg_first_scan = TRUE
  /\ init_count = 0 /\ last_imu = Never /\ last_lidar_end_time \in {0, MaxStamp}
  /\ feats_undistort = NoCloud /\ filter_time = Never
  /\ Root_Node = FALSE /\ odometry = Silence /\ regular = TRUE

\* imu_cbk: a clock that jumps back ("imu loop back") empties the buffer.
ImuCbk(t) ==
  /\ imu_buffer' = IF t < last_timestamp_imu THEN <<t>> ELSE Append(imu_buffer, t)
  /\ last_timestamp_imu' = t
  /\ UNCHANGED <<lidar_buffer, time_buffer, last_timestamp_lidar>>

\* standard_pcl_cbk, livox_pcl_cbk: "lidar loop back" empties lidar_buffer, and
\* leaves the stamps where they are.
PclCbk(scan) ==
  /\ lidar_buffer' =
       IF scan.stamp < last_timestamp_lidar THEN <<scan>> ELSE Append(lidar_buffer, scan)
  /\ time_buffer' = Append(time_buffer, scan.stamp)
  /\ last_timestamp_lidar' = scan.stamp
  /\ UNCHANGED <<imu_buffer, last_timestamp_imu>>

\* The sensors, external: they start about the same time, samples are at most
\* SampleTime apart, and scans do not overlap.  Once in a run, which bounds it,
\* samples are missing for longer than a scan takes, or a clock starts again.
InTime(t) ==
  IF last_timestamp_imu = Never THEN t <= 1
  ELSE t - last_timestamp_imu \in 1 .. SampleTime
InTurn(t) ==
  IF last_timestamp_lidar = Never THEN t <= 1
  ELSE t - last_timestamp_lidar \in {ScanTime, ScanTime + 1}
DroppedOut(t) == t = last_timestamp_imu + ScanTime + 1
Restarted(t)  == t = 0

Sample(t) ==
  /\ Len(imu_buffer) < BufferBound
  /\ InTime(t) \/ (regular /\ (DroppedOut(t) \/ Restarted(t)))
  /\ ImuCbk(t)
  /\ regular' = (regular /\ InTime(t))
  /\ odometry' = Silence
  /\ UNCHANGED <<lidar_pushed, meas, lidar_mean_scantime, flg_first_scan, process, Root_Node>>

Scan(scan) ==
  /\ Len(time_buffer) < BufferBound
  /\ InTurn(scan.stamp) \/ (regular /\ Restarted(scan.stamp))
  /\ PclCbk(scan)
  /\ regular' = (regular /\ InTurn(scan.stamp))
  /\ odometry' = Silence
  /\ UNCHANGED <<lidar_pushed, meas, lidar_mean_scantime, flg_first_scan, process, Root_Node>>

\* sync_packages, first part: the scan in front is taken up once.  A scan with
\* no points is given the mean duration of those before.
ScanInFront ==
  LET scan == Head(lidar_buffer)
      beg  == Head(time_buffer)
  IN  [lidar |-> scan, beg |-> beg,
       end   |-> beg + IF scan.points = "none" THEN lidar_mean_scantime ELSE ScanTime]
PushedScan     == IF lidar_pushed THEN meas ELSE ScanInFront
PushedMeanTime ==
  IF ~lidar_pushed /\ Head(lidar_buffer).points # "none" THEN ScanTime ELSE lidar_mean_scantime

\* A slip: the first sample beyond the end is taken too.
SamplesUntilBeyond(end) ==
  SubSeq(imu_buffer, 1, Len(SelectSeq(imu_buffer, LAMBDA t : t < end)) + 1)

\* sync_packages, second part: samples are taken from the front while the last one
\* looked at, which at first is the one in front, is before the end and the next
\* one is not beyond it.
Takes(i, end) ==
  imu_buffer[IF i = 1 THEN 1 ELSE i - 1] < end /\ imu_buffer[i] <= end
SamplesOf(end) ==
  LET n == CHOOSE k \in 0 .. Len(imu_buffer) :
             /\ \A i \in 1 .. k : Takes(i, end)
             /\ k = Len(imu_buffer) \/ ~Takes(k + 1, end)
  IN  SubSeq(imu_buffer, 1, n)

\* A slip: the samples beyond the end of the scan go with it.
PopPackageClearing(samples) ==
  /\ lidar_buffer' = Tail(lidar_buffer) /\ time_buffer' = Tail(time_buffer)
  /\ imu_buffer' = <<>>
  /\ UNCHANGED <<last_timestamp_lidar, last_timestamp_imu>>
PopPackage(samples) ==
  /\ lidar_buffer' = Tail(lidar_buffer) /\ time_buffer' = Tail(time_buffer)
  /\ imu_buffer' = SubSeq(imu_buffer, Len(samples) + 1, Len(imu_buffer))
  /\ UNCHANGED <<last_timestamp_lidar, last_timestamp_imu>>

\* UndistortPcl: the filter is propagated over the samples, from the last
\* scan's end to this one's.
TimeOver(head, tail) ==
  IF tail < last_lidar_end_time THEN 0
  ELSE tail - IF head < last_lidar_end_time THEN last_lidar_end_time ELSE head
Propagated(samples, end) ==
  LET over[i \in 0 .. Len(samples)] ==  \* the time over the first i samples
        IF i = 0 THEN 0
        ELSE over[i - 1] + TimeOver(IF i = 1 THEN last_imu ELSE samples[i - 1], samples[i])
      rest == end - samples[Len(samples)]
  IN  over[Len(samples)] + IF rest > 0 THEN rest ELSE -rest

\* ImuProcess::Process.  A package without samples changes nothing; the first
\* MaxIniCount samples only initialise.  The first propagation sets the time
\* the later ones are measured from.
Process(package, samples) ==
  \/ /\ samples = <<>>
     /\ UNCHANGED process
  \/ /\ samples # <<>> /\ init_count < MaxIniCount
     /\ init_count' = init_count + Len(samples)
     /\ last_imu' = samples[Len(samples)]
     /\ UNCHANGED <<last_lidar_end_time, feats_undistort, filter_time>>
  \/ /\ samples # <<>> /\ init_count >= MaxIniCount
     /\ last_imu' = samples[Len(samples)]
     /\ last_lidar_end_time' = package.end
     /\ feats_undistort' = package.lidar
     /\ filter_time' = IF filter_time = Never THEN package.end
                       ELSE filter_time + Propagated(samples, package.end)
     /\ UNCHANGED init_count

\* The rest of the loop's body: the map is built from the first scan with
\* enough points, and odometry is published for those after it.
Register(package) ==
  LET enough == feats_undistort'.points = "many"
  IN  /\ Root_Node' = (Root_Node \/ enough)
      /\ odometry' = IF enough /\ Root_Node THEN [stamp |-> package.end, scan |-> feats_undistort']
                     ELSE Silence

\* A turn of the main loop with something to do: a scan is taken up, and as
\* soon as the samples reach its end it is handed on with them.
MainLoop ==
  /\ lidar_buffer # <<>> /\ imu_buffer # <<>>
  /\ lidar_mean_scantime' = PushedMeanTime
  /\ IF last_timestamp_imu < PushedScan.end
       THEN /\ lidar_pushed' = TRUE /\ meas' = PushedScan /\ odometry' = Silence
            /\ UNCHANGED <<buffers, flg_first_scan, process, Root_Node>>
       ELSE LET samples == SamplesOf(PushedScan.end)
            IN  /\ PopPackage(samples)
                /\ lidar_pushed' = FALSE /\ meas' = NoMeas
                /\ flg_first_scan' = FALSE
                /\ IF flg_first_scan
                     THEN odometry' = Silence /\ UNCHANGED <<process, Root_Node>>
                     ELSE Process(PushedScan, samples) /\ Register(PushedScan)
  /\ UNCHANGED regular

LioNext ==
  \/ \E t \in Stamp : Sample(t)
  \/ \E scan \in ScanCloud : Scan(scan)
  \/ MainLoop

LioSpec == LioInit /\ [][LioNext]_lioVars

-----------------------------------------------------------------------------
(* Properties                                                              *)

\* Every variable keeps its type, and nothing is popped from a deque that may
\* be empty: there is a stamp for every scan, and a scan for what was taken up.
LioTypeOK ==
  /\ lidar_buffer \in Seq(ScanCloud) /\ time_buffer \in Seq(Stamp) /\ imu_buffer \in Seq(Stamp)
  /\ Len(lidar_buffer) <= Len(time_buffer) /\ (lidar_pushed => lidar_buffer # <<>>)
  /\ {last_timestamp_lidar, last_timestamp_imu, last_imu} \subseteq Stamp \cup {Never}
  /\ lidar_pushed \in BOOLEAN /\ flg_first_scan \in BOOLEAN /\ Root_Node \in BOOLEAN
  /\ meas.lidar \in ScanCloud \cup {NoCloud} /\ lidar_mean_scantime \in {0, ScanTime}
  /\ init_count \in Nat /\ filter_time \in Int /\ last_lidar_end_time \in Nat
  /\ {feats_undistort, odometry.scan} \subseteq ScanCloud \cup {NoCloud}
  /\ regular \in BOOLEAN

\* The filter is propagated over all the time between the ends of two scans and
\* no part of it twice, whatever samples the packages hold, wherever the scans
\* without odometry lie, and whichever sensor drops out or starts again.
FilterKeepsTime == filter_time # Never => filter_time = last_lidar_end_time

\* While the sensors are regular, odometry is computed from the points of the
\* scan whose end it is stamped with, and at that time: a package without
\* samples, which leaves the points of an earlier scan, is never published.
OdometryIsOfItsScan ==
  regular /\ odometry # Silence =>
    /\ odometry.stamp = odometry.scan.stamp + ScanTime
    /\ odometry.stamp = filter_time
=============================================================================
