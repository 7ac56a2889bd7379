----------------------------- MODULE SmbInstance -----------------------------
(***************************************************************************)
(* What one SMB daemon-form object promises the deployment framework,      *)
(* stated without the object's caches, counters and write order:           *)
(*   - its Config is the one validate() derives from this process's raw    *)
(*     config and rank; once there, it is kept for the object's life;      *)
(*   - its layout is the layout of that Config;                            *)
(*   - prepare_data_dir only ever moves a path of the data directory to    *)
(*     what the current Config wants there, and reports success only when *)
(*     every such path holds it;                                           *)
(*   - a redeploy is a new object over the same data directory.            *)
(* SmbDaemon implements this specification (SmbDaemon!AbstractSpec).       *)
(* What validate() derives, what _layout() builds and what                 *)
(* prepare_data_dir wants on disk are parameters: SmbDaemon instantiates   *)
(* them with its own ParseConfig, BuildLayout and DataDirTarget.           *)
(***************************************************************************)
CONSTANTS RawConfigs, RankInfos, HostInventories,
          None,               \* the Python None
          Absent,             \* a path that does not exist
          DataPaths,          \* the paths of the data directory
          ParseConfig(_, _),  \* validate(): raw config, rank -> [ok, cfg]
          BuildLayout(_),     \* _layout() for a Config
          DataDirTarget(_, _, _) \* what prepare_data_dir writes, by path

VARIABLES
    raw, rankInfo, hostNets,   \* the inputs of this cephadm process
    cfg,                       \* the object's Config, or None
    layout,                    \* the object's container layout, or None
    dir,                       \* the data directory
    ready                      \* the last prepare_data_dir returned normally

inputs == <<raw, rankInfo, hostNets>>
avars == <<raw, rankInfo, hostNets, cfg, layout, dir, ready>>

Parsed == ParseConfig(raw, rankInfo)

(* What prepare_data_dir wants in the data directory for Config c.         *)
Target(c) == DataDirTarget(c, raw.files, hostNets)

(* Every path prepare_data_dir writes for c holds what c wants in d.       *)
Prepared(c, d) ==
    \A p \in DOMAIN Target(c) : p \in DOMAIN d /\ d[p] = Target(c)[p]

(* The Config after a step that needs one: kept, or derived now.           *)
Settle ==
    \/ cfg # None /\ cfg' = cfg
    \/ cfg = None /\ Parsed.ok /\ cfg' = Parsed.cfg

Init ==
    /\ raw \in RawConfigs
    /\ rankInfo \in RankInfos
    /\ hostNets \in HostInventories
    /\ cfg = None
    /\ layout = None
    /\ dir = [p \in DataPaths |-> Absent]
    /\ ready = FALSE

Validate == Settle /\ UNCHANGED <<inputs, layout, dir, ready>>

Plan ==
    /\ layout = None
    /\ Settle
    /\ layout' = BuildLayout(cfg')
    /\ UNCHANGED <<inputs, dir, ready>>

Prepare ==
    /\ Settle
    /\ DOMAIN dir' = DOMAIN dir
    /\ \A p \in DOMAIN dir :
          \/ dir'[p] = dir[p]
          \/ p \in DOMAIN Target(cfg') /\ dir'[p] = Target(cfg')[p]
    /\ ready' \in BOOLEAN
    /\ ready' => cfg' # None /\ Prepared(cfg', dir')
    /\ UNCHANGED <<inputs, layout>>

Redeploy ==
    /\ raw' \in RawConfigs
    /\ rankInfo' \in RankInfos
    /\ hostNets' \in HostInventories
    /\ cfg' = None
    /\ layout' = None
    /\ ready' = FALSE
    /\ UNCHANGED dir

Next == Validate \/ Plan \/ Prepare \/ Redeploy

Spec == Init /\ [][Next]_avars

(* After prepare_data_dir has returned, every directory and file it        *)
(* generates, and every configured file, holds what this process's Config *)
(* wants there, whatever earlier deployments left behind.                  *)
ReadyMeansPrepared == ready => cfg # None /\ Prepared(cfg, dir)

=============================================================================
