----------------------------- MODULE SmbDaemon -----------------------------
(***************************************************************************)
(* The SMB daemon form (smb.py class SMB, lines 365-741) as the cephadm    *)
(* deployment framework drives it: one SMB object per cephadm process,     *)
(* whose methods the framework calls in any order, each of which may       *)
(* validate the raw config and build the container layout on first use    *)
(* (both memoized on the object), and a data directory on the host that   *)
(* outlives the process.  A redeploy is a new process with a new object,   *)
(* possibly a new raw config, rank and host network inventory, over the   *)
(* same data directory.                                                    *)
(***************************************************************************)
EXTENDS SmbDataDir

CONSTANTS
    RawConfigs,        \* raw configs (context_getters.fetch_configs) a process may get
    RankInfos,         \* (rank, rank_generation) pairs fetch_rank_info may give
    HostInventories,   \* network -> devices inventories list_networks may return
    InitialEndpoints,  \* endpoint port lists the framework hands to customize_container_endpoints
    MetricsPort,       \* SMB.metrics_port, fixed by SMB.__init__ (line 387)
    RemoteSchemes      \* first components of URIs that name no local file

ASSUME DaemonAssumption ==
    /\ MetricsPort \in Nat
    /\ \A r \in RawConfigs : RawOK(r)
    /\ RankInfos \subseteq Int \X Int
    /\ InitialEndpoints \subseteq Seq(Nat)
    /\ \A r \in RawConfigs : DOMAIN r.files \subseteq UserFilePaths
    \* a Config that validate() builds, and its layout, are never None
    /\ \A r \in RawConfigs, ri \in RankInfos :
          /\ MakeConfig(r, ri) # None
          /\ BuildLayout(MakeConfig(r, ri)) # None

(* The ctdb.json stub written for a well-typed Config is the content of a *)
(* file: Absent and Dir mark "no file" and "a directory", never a stub.   *)
ASSUME CtdbStubIsContent ==
    \A r \in RawConfigs, ri \in RankInfos, n \in HostInventories :
        ConfigOK(MakeConfig(r, ri)) => CtdbStub(MakeConfig(r, ri), n) \notin {Absent, Dir}

VARIABLES
    raw,           \* self._raw_configs of this process's SMB object
    rankInfo,      \* self._rank_info
    hostNets,      \* what list_networks() returns on this host
    instCfg,       \* self._instance_cfg: None until validate() succeeds
    files,         \* self._files
    cachedLayout,  \* self._cached_layout: None until _layout() first runs
    networks,      \* self._network_mapper._networks
    disk,          \* the daemon's data directory: path -> Absent, Dir or contents
    prepDone,      \* prepare_data_dir returned normally in this process
    endpoints,     \* the framework's endpoint list given to customize_container_endpoints
    lastErr,       \* the exception the last call raised, or None
    layoutBuilds,  \* history: layouts built by this object (saturates at CountCap)
    netLoads       \* history: _NetworkMapper.load() calls by this object (saturates)

vars == <<raw, rankInfo, hostNets, instCfg, files, cachedLayout, networks,
          disk, prepDone, endpoints, lastErr, layoutBuilds, netLoads>>

objVars == <<instCfg, files, cachedLayout, networks, layoutBuilds, netLoads>>

(* The history counters only need to tell 0, 1 and "more than one" apart. *)
CountCap == 2
Bump(n) == IF n < CountCap THEN n + 1 ELSE n

(***************************************************************************)
(* validate() (lines 412-478) and the _cfg property (lines 480-484).       *)
(***************************************************************************)
Parsed == ParseConfig(raw, rankInfo)

(* _cfg returns normally: the config is memoized or the raw config is valid.*)
CfgAvailable == instCfg # None \/ Parsed.ok

Cfg == IF instCfg # None THEN instCfg ELSE Parsed.cfg

(* Mutant: the network inventory is loaded on every first validate().    *)
ValidateOkAlwaysLoads ==
    /\ CfgAvailable
    /\ IF instCfg # None
         THEN UNCHANGED <<instCfg, files, networks, netLoads>>
         ELSE /\ instCfg' = Parsed.cfg
              /\ files' = raw.files
              /\ networks' = hostNets
              /\ netLoads' = Bump(netLoads)

(* validate() returning normally.  The first time, it stores the Config    *)
(* and the files and, when public addresses are configured, loads the      *)
(* host network inventory into the mapper (lines 451-453).                 *)
ValidateOk ==
    /\ CfgAvailable
    /\ IF instCfg # None
         THEN UNCHANGED <<instCfg, files, networks, netLoads>>
         ELSE /\ instCfg' = Parsed.cfg
              /\ files' = raw.files
              /\ IF Parsed.cfg.cluster_public_addrs # <<>>
                   THEN /\ networks' = hostNets
                        /\ netLoads' = Bump(netLoads)
                   ELSE UNCHANGED <<networks, netLoads>>

(* validate() raising: nothing is memoized, so the next call re-checks.    *)
ValidateRaises ==
    /\ instCfg = None
    /\ ~Parsed.ok
    /\ lastErr' = Parsed.err
    /\ UNCHANGED <<raw, rankInfo, hostNets, objVars, disk, prepDone, endpoints>>

(* Mutant: _layout() without its cache check.                            *)
LayoutOkNoCache ==
    /\ ValidateOk
    /\ cachedLayout' = BuildLayout(Cfg)
    /\ layoutBuilds' = Bump(layoutBuilds)

(* _layout() returning normally (lines 510-540).                           *)
LayoutOk ==
    IF cachedLayout # None
    THEN UNCHANGED <<instCfg, files, networks, netLoads, cachedLayout, layoutBuilds>>
    ELSE /\ ValidateOk
         /\ cachedLayout' = BuildLayout(Cfg)
         /\ layoutBuilds' = Bump(layoutBuilds)

(***************************************************************************)
(* The framework's calls.                                                  *)
(***************************************************************************)

(* validate(), container() (lines 603-611) and customize_container_mounts  *)
(* (lines 644-681): each reads self._cfg and changes nothing else.         *)
ValidateCall(m) ==
    \/ /\ ValidateOk
       /\ lastErr' = None
       /\ UNCHANGED <<raw, rankInfo, hostNets, cachedLayout, layoutBuilds,
                      disk, prepDone, endpoints>>
    \/ ValidateRaises

(* init_containers, sidecar_containers (lines 613-625) and                 *)
(* customize_container_envs, customize_process_args,                       *)
(* customize_container_args (lines 627-642): each goes through _layout().  *)
LayoutCall(m) ==
    \/ /\ CfgAvailable
       /\ LayoutOk
       /\ lastErr' = None
       /\ UNCHANGED <<raw, rankInfo, hostNets, disk, prepDone, endpoints>>
    \/ /\ cachedLayout = None
       /\ ValidateRaises

(* customize_container_endpoints (lines 683-690): adds the SMB port and    *)
(* the object's metrics port unless an endpoint already has that port.    *)
(* Mutant: the port is appended without looking for it first.            *)
WithPortAlwaysAppends(eps, p) == Append(eps, p)

WithPort(eps, p) ==
    IF \E i \in 1..Len(eps) : eps[i] = p THEN eps ELSE Append(eps, p)

CustomizeEndpoints ==
    /\ endpoints' = LET e1 == WithPort(endpoints, SmbPort)
                    IN  IF MetricsPort > 0 THEN WithPort(e1, MetricsPort) ELSE e1
    /\ lastErr' = None
    /\ UNCHANGED <<raw, rankInfo, hostNets, objVars, disk, prepDone>>

(* Mutant: the stubs written with the network mapper as it was before    *)
(* this call's validate() loaded the inventory.                          *)
PrepareDataDirStaleNetworks ==
    \/ /\ ValidateOk
       /\ UNCHANGED <<raw, rankInfo, hostNets, cachedLayout, layoutBuilds, endpoints>>
       /\ LET steps == PrepSteps(instCfg', files', networks)
          IN  \E k \in 0..Len(steps) :
                /\ disk' = ApplySteps(disk, steps, k)
                /\ prepDone' = (k = Len(steps))
                /\ lastErr' = IF k = Len(steps) THEN None ELSE "OSError"
    \/ ValidateRaises

(* prepare_data_dir (lines 692-707): validate, then the writes in order;   *)
(* an OSError at any write leaves the earlier ones done and propagates.    *)
PrepareDataDir ==
    \/ /\ ValidateOk
       /\ UNCHANGED <<raw, rankInfo, hostNets, cachedLayout, layoutBuilds, endpoints>>
       /\ LET steps == PrepSteps(instCfg', files', networks')
          IN  \E k \in 0..Len(steps) :
                /\ disk' = ApplySteps(disk, steps, k)
                /\ prepDone' = (k = Len(steps))
                /\ lastErr' = IF k = Len(steps) THEN None ELSE "OSError"
    \/ ValidateRaises

(* A new cephadm process for this daemon: SMB.__init__ (lines 377-389)     *)
(* with what the context then holds.  The data directory stays.           *)
NewProcess ==
    /\ \E r \in RawConfigs, ri \in RankInfos, h \in HostInventories,
          ep \in InitialEndpoints :
          /\ raw' = r
          /\ rankInfo' = ri
          /\ hostNets' = h
          /\ endpoints' = ep
    /\ instCfg' = None
    /\ files' = [p \in {} |-> None]
    /\ cachedLayout' = None
    /\ networks' = NoNetworks
    /\ prepDone' = FALSE
    /\ lastErr' = None
    /\ layoutBuilds' = 0
    /\ netLoads' = 0
    /\ UNCHANGED disk

Init ==
    /\ raw \in RawConfigs
    /\ rankInfo \in RankInfos
    /\ hostNets \in HostInventories
    /\ endpoints \in InitialEndpoints
    /\ instCfg = None
    /\ files = [p \in {} |-> None]
    /\ cachedLayout = None
    /\ networks = NoNetworks
    /\ disk = [p \in DataPaths |-> Absent]
    /\ prepDone = FALSE
    /\ lastErr = None
    /\ layoutBuilds = 0
    /\ netLoads = 0

ValidateMethods == {"validate", "container", "customize_container_mounts"}
LayoutMethods == {"init_containers", "sidecar_containers",
                  "customize_container_envs", "customize_process_args",
                  "customize_container_args"}

Next ==
    \/ \E m \in ValidateMethods : ValidateCall(m)
    \/ \E m \in LayoutMethods : LayoutCall(m)
    \/ CustomizeEndpoints
    \/ PrepareDataDir
    \/ NewProcess

Spec == Init /\ [][Next]_vars

(***************************************************************************)
(* The refinement mapping onto SmbInstance: the object's memoized Config, *)
(* its cached layout, the data directory and the outcome of the last       *)
(* prepare_data_dir are the abstract state; the network mapper, the files, *)
(* the endpoints and the counters are implementation detail.               *)
(***************************************************************************)
Abs == INSTANCE SmbInstance
           WITH cfg <- instCfg, layout <- cachedLayout, dir <- disk, ready <- prepDone

(***************************************************************************)
(* Properties.                                                             *)
(***************************************************************************)

CtrType == [name : Roles, image : ImageType]
LayoutType ==
    [init_containers : Seq(CtrType), primary : CtrType, supplemental : Seq(CtrType)]

TypeOK ==
    /\ raw \in RawConfigs
    /\ rankInfo \in RankInfos
    /\ hostNets \in HostInventories
    /\ instCfg = None \/ ConfigOK(instCfg)
    /\ cachedLayout \in {None} \cup LayoutType
    /\ DOMAIN disk = DataPaths
    /\ prepDone \in BOOLEAN
    /\ endpoints \in Seq(Nat)
    /\ layoutBuilds \in 0..CountCap
    /\ netLoads \in 0..CountCap

(* The layout is memoized: one SMB object builds it at most once, and what *)
(* _layout() returns is always the layout of the memoized Config           *)
(* (SMB._layout, lines 510-540; spec section 4.4).                         *)
LayoutMemoized ==
    /\ layoutBuilds <= 1
    /\ cachedLayout # None => instCfg # None /\ cachedLayout = BuildLayout(instCfg)

(* The host network inventory is fetched at most once per object, and      *)
(* exactly when the validated config has cluster public addresses          *)
(* (validate, lines 448-453; _NetworkMapper.load, lines 752-754).          *)
NetworksLoadedOnDemand ==
    /\ netLoads <= 1
    /\ (netLoads = 1) <=> (instCfg # None /\ instCfg.cluster_public_addrs # <<>>)

(* A container path under the target of one of its bind mounts names the  *)
(* host path below the mount's source.                                     *)
IsPrefix(s, t) == Len(s) <= Len(t) /\ SubSeq(t, 1, Len(s)) = s
HostPathOf(u, mounts) ==
    {h \o SubSeq(u, Len(mounts[h].target) + 1, Len(u)) :
        h \in {h2 \in DOMAIN mounts : IsPrefix(mounts[h2].target, u)}}

IsFileContent(v) == v \notin {Absent, Dir}

(* Once prepare_data_dir has returned in this process, every local config  *)
(* URI a container is told to read in SAMBACC_CONFIG (Config.config_uris,  *)
(* lines 98-105, put in the env at line 149) lies under one of that        *)
(* container's bind mounts (lines 644-681) and names a file that exists in *)
(* the data directory (written by prepare_data_dir, lines 692-707).        *)
ConfigUrisResolve ==
    prepDone =>
        \A s \in AllSpecs(BuildLayout(instCfg), instCfg) :
            "SAMBACC_CONFIG" \in DOMAIN s.envs =>
                LET uris == s.envs["SAMBACC_CONFIG"].json_list IN
                \A i \in 1..Len(uris) :
                    uris[i][1] \notin RemoteSchemes =>
                        \E h \in HostPathOf(uris[i], s.volume_mounts) :
                            h \in DOMAIN disk /\ IsFileContent(disk[h])

(* Once prepare_data_dir has returned in this process, the source of every *)
(* bind mount of every container exists in the data directory, as a file  *)
(* for the shared smb.conf and as a directory otherwise; config and        *)
(* keyring are written by the framework, not by this daemon form.          *)
MountSourcesExist ==
    prepDone =>
        \A h \in DOMAIN Mounts(instCfg) \ {CephConf, CephKeyring} :
            /\ h \in DOMAIN disk
            /\ IF h = CtdbSmbConf THEN IsFileContent(disk[h]) ELSE disk[h] = Dir

(* The options whose value is a container path the container writes.       *)
PathOpts == {"--dest-dir", "--archive"}

(* Once prepare_data_dir has returned, every container path an init        *)
(* container or sidecar is told to write (ctdb-migrate's --dest-dir and   *)
(* its --archive marker, lines 284-289) lies under a bind mount of that    *)
(* container whose source is a directory of the data directory that is     *)
(* not one of the run directories meant to become tmpfs (lines 656, 665). *)
(* The node-0 gate runs ctdb-migrate on every start of node 0 (TODO at    *)
(* lines 281-283); only a marker that survives the restart lets a re-run  *)
(* see that the migration was done.                                        *)
PathArgsPersist ==
    prepDone =>
        \A s \in AllSpecs(BuildLayout(instCfg), instCfg) :
            \A i \in 1..Len(s.args) :
                Len(s.args[i]) = 2 /\ s.args[i][1] \in PathOpts =>
                    \E h \in DOMAIN s.volume_mounts \ {RunDir, CtdbRun} :
                        /\ IsPrefix(s.volume_mounts[h].target, s.args[i][2])
                        /\ h \in DOMAIN disk
                        /\ disk[h] = Dir

(* No step ever puts in ctdb.json anything but the stub of the Config the  *)
(* object holds after it, with public addresses mapped through this        *)
(* host's current inventory: not an earlier deployment's, and not the      *)
(* mapper as it was before validate() loaded it (prepare_data_dir, lines  *)
(* 692-707, and _write_ctdb_stub_config, lines 709-727).                   *)
CtdbJsonOnlyCurrent ==
    [][disk'[CtdbJsonPath] # disk[CtdbJsonPath] =>
         instCfg' # None /\ disk'[CtdbJsonPath] = CtdbStub(instCfg', hostNets')]_vars

(* The SMB object implements what it promises: every sequence of           *)
(* framework calls, failed writes and redeploys is a behaviour of          *)
(* SmbInstance (Config derived once from the inputs, layout derived from   *)
(* it, prepare_data_dir moving paths only to what the Config wants).       *)
AbstractSpec == Abs!Spec

(* Once prepare_data_dir has returned in this process, every directory and *)
(* file it writes holds what this process's Config wants there: the        *)
(* configured files (populate_files, line 700) included, and ctdb.json      *)
(* built from this host's current network inventory.                       *)
DataDirCurrent == Abs!ReadyMeansPrepared

(* customize_container_endpoints never lists a port twice, however often   *)
(* the framework calls it on the same list (lines 683-690).                *)
EndpointPortsUnique ==
    \A i, j \in 1..Len(endpoints) : i # j => endpoints[i] # endpoints[j]

(* Spec section 6: the endpoints get the SMB port and, if configured, the  *)
(* metrics port.  The code adds SMB.metrics_port (9922, line 387) whatever *)
(* the config says.                                                        *)
MetricsEndpointOnlyIfConfigured ==
    \A i \in 1..Len(endpoints) :
        endpoints[i] = MetricsPort =>
            instCfg # None /\ MetricsWanted(instCfg)

(* Spec sections 3 and 4.3: RANK_GENERATION carries the rank generation.  *)
(* Line 161 sets it from cfg.rank.                                         *)
RankGenerationEnv ==
    cachedLayout # None =>
        \A s \in AllSpecs(cachedLayout, instCfg) :
            "RANK_GENERATION" \in DOMAIN s.envs =>
                s.envs["RANK_GENERATION"] = ToString(instCfg.rank_generation)

(* Spec section 4.3: in a clustered instance must-join and ctdb-migrate    *)
(* run only on node 0 and ctdb-must-have-node takes its node number from   *)
(* NODE_NUMBER, so every init container of a clustered layout gets         *)
(* NODE_NUMBER.  The code sets it only when a rank is known (line 158).    *)
ClusteredInitHasNodeNumber ==
    cachedLayout # None /\ instCfg.clustered =>
        \A i \in 1..Len(cachedLayout.init_containers) :
            "NODE_NUMBER" \in DOMAIN Envs(cachedLayout.init_containers[i].name, instCfg)

=============================================================================
