--------------------------- MODULE SmbContainers ---------------------------
(***************************************************************************)
(* The role catalog and the layout builder of smb.py: the ContainerCommon *)
(* class hierarchy (lines 108-346) as a closed set of role names with the  *)
(* derivations each role overrides, SMB._layout (lines 510-540), the       *)
(* volume mounts of customize_container_mounts (lines 644-681) and the    *)
(* conversion of a role into an init or sidecar container spec            *)
(* (lines 542-601).  Everything here is a pure function of a Config.      *)
(*                                                                         *)
(* A command-line word is a tuple: <<"run">> for a bare word and           *)
(* <<"--setup", "users">> for f"--setup={...}" (or "-j{...}"), so that a  *)
(* word is compared by its parts.  str() of an int is ToString.  The JSON  *)
(* list in SAMBACC_CONFIG is JsonList(uris).                               *)
(***************************************************************************)
EXTENDS SmbConfig, TLC

CONSTANTS
    Engine,        \* "podman" or "docker": the class of ctx.container_engine
    CtxImage       \* ctx.image or SMB.default_image: the daemon's own image

ASSUME EngineAssumption == Engine \in {"podman", "docker"}

(* A command-line word, and a --flag=value option; a value that is a       *)
(* container path is its list of components, as a URI is.                 *)
Word(w) == <<w>>
Opt(flag, v) == <<flag, v>>
JsonList(l) == [json_list |-> l]

(* The name() of each role class.                                          *)
InitRoles == {"config", "mustjoin", "ctdbMigrate", "ctdbMustHaveNode"}
SidecarRoles == {"winbindd", "configwatch", "smbmetrics", "ctdbd", "ctdbNodes"}
Roles == InitRoles \cup SidecarRoles \cup {"smbd"}

(* A role as the layout holds it: the class and the image it was built    *)
(* with (ContainerCommon.__init__, lines 118-120).                         *)
Ctr(r) == [name |-> r, image |-> NoImage]

(* _container_dns_args (lines 108-114).                                    *)
DnsArgs(cfg) ==
    [i \in 1..Len(cfg.custom_dns) |-> Opt("--dns", cfg.custom_dns[i])]
        \o (IF cfg.vhostname # Empty THEN <<Opt("--hostname", cfg.vhostname)>>
                                     ELSE <<>>)

(* SambaContainerCommon.envs (lines 146-164).  RANK_GENERATION is set      *)
(* from cfg.rank, as line 161 does.                                        *)
SambaEnvKeys(cfg) ==
    {"SAMBA_CONTAINER_ID", "SAMBACC_CONFIG", "SAMBACC_CTDB"}
    \cup (IF cfg.ceph_config_entity # Empty THEN {"SAMBACC_CEPH_ID"} ELSE {})
    \cup (IF cfg.rank >= 0 THEN {"RANK", "RANK_GENERATION", "NODE_NUMBER"} ELSE {})
SambaEnvs(cfg) ==
    [k \in SambaEnvKeys(cfg) |->
        CASE k = "SAMBA_CONTAINER_ID" -> cfg.instance_id
          [] k = "SAMBACC_CONFIG"     -> JsonList(ConfigUris(cfg))
          [] k = "SAMBACC_CTDB"       -> "ctdb-is-experimental"
          [] k = "SAMBACC_CEPH_ID"    -> <<"name", cfg.ceph_config_entity>>
          [] OTHER                    -> ToString(cfg.rank)]

(* ContainerCommon.envs / SambaContainerCommon.envs, per role.             *)
Envs(r, cfg) == IF r = "smbmetrics" THEN <<>> ELSE SambaEnvs(cfg)

(* SambaContainerCommon.args (lines 169-175).                              *)
CommonArgs(cfg) ==
    (IF cfg.samba_debug_level # 0
        THEN <<Opt("--samba-debug-level", ToString(cfg.samba_debug_level))>>
        ELSE <<>>)
    \o (IF cfg.debug_delay # 0
           THEN <<Opt("--debug-delay", ToString(cfg.debug_delay))>>
           ELSE <<>>)

SkipIfNotNodeZero == Opt("--skip-if", "env:NODE_NUMBER!=0")

(* Mutant: must-join gated on node 0 even when not clustered.             *)
RoleArgsMustJoinAlwaysGated(r, cfg) ==
    CASE r = "smbd" ->
            <<Word("run")>>
            \o (IF cfg.clustered
                   THEN <<Opt("--setup", IF cfg.domain_member THEN "nsswitch"
                                                             ELSE "users"),
                          Opt("--setup", "smb_ctdb"), Opt("--wait-for", "ctdb")>>
                   ELSE <<>>)
            \o <<Word("smbd")>>
      [] r = "winbindd" ->
            <<Word("run")>>
            \o (IF cfg.clustered
                   THEN <<Opt("--setup", "smb_ctdb"), Opt("--wait-for", "ctdb")>>
                   ELSE <<>>)
            \o <<Word("winbindd")>>
      [] r = "config" -> <<Word("init")>>
      [] r = "mustjoin" ->
            <<SkipIfNotNodeZero, Word("must-join")>>
            \o [i \in 1..Len(cfg.join_sources) |-> Opt("-j", cfg.join_sources[i])]
      [] r = "configwatch" -> <<Word("update-config"), Word("--watch")>>
      [] r = "ctdbMigrate" ->
            <<SkipIfNotNodeZero, Word("ctdb-migrate"),
              Opt("--dest-dir", <<"var", "lib", "ctdb", "persistent">>),
              Opt("--archive", <<"var", "lib", "samba", ".migrated">>)>>
      [] r = "ctdbMustHaveNode" ->
            <<Word("ctdb-must-have-node"), Opt("--hostname", cfg.identity),
              Word("--take-node-number-from-env")>>
      [] r = "ctdbd" ->
            <<Word("run"), Word("ctdbd"), Opt("--setup", "smb_ctdb"),
              Opt("--setup", "ctdb_config"), Opt("--setup", "ctdb_etc")>>
      [] r = "ctdbNodes" ->
            <<Word("--debug"), Word("ctdb-monitor-nodes"),
              Opt("--hostname", cfg.identity),
              Word("--take-node-number-from-env"), Opt("--reload", "all")>>

(* The args() override of each role class (lines 196-346).                 *)
RoleArgs(r, cfg) ==
    CASE r = "smbd" ->
            <<Word("run")>>
            \o (IF cfg.clustered
                   THEN <<Opt("--setup", IF cfg.domain_member THEN "nsswitch"
                                                             ELSE "users"),
                          Opt("--setup", "smb_ctdb"), Opt("--wait-for", "ctdb")>>
                   ELSE <<>>)
            \o <<Word("smbd")>>
      [] r = "winbindd" ->
            <<Word("run")>>
            \o (IF cfg.clustered
                   THEN <<Opt("--setup", "smb_ctdb"), Opt("--wait-for", "ctdb")>>
                   ELSE <<>>)
            \o <<Word("winbindd")>>
      [] r = "config" -> <<Word("init")>>
      [] r = "mustjoin" ->
            (IF cfg.clustered THEN <<SkipIfNotNodeZero>> ELSE <<>>)
            \o <<Word("must-join")>>
            \o [i \in 1..Len(cfg.join_sources) |-> Opt("-j", cfg.join_sources[i])]
      [] r = "configwatch" -> <<Word("update-config"), Word("--watch")>>
      [] r = "ctdbMigrate" ->
            <<SkipIfNotNodeZero, Word("ctdb-migrate"),
              Opt("--dest-dir", <<"var", "lib", "ctdb", "persistent">>),
              Opt("--archive", <<"var", "lib", "samba", ".migrated">>)>>
      [] r = "ctdbMustHaveNode" ->
            <<Word("ctdb-must-have-node"), Opt("--hostname", cfg.identity),
              Word("--take-node-number-from-env")>>
      [] r = "ctdbd" ->
            <<Word("run"), Word("ctdbd"), Opt("--setup", "smb_ctdb"),
              Opt("--setup", "ctdb_config"), Opt("--setup", "ctdb_etc")>>
      [] r = "ctdbNodes" ->
            <<Word("--debug"), Word("ctdb-monitor-nodes"),
              Opt("--hostname", cfg.identity),
              Word("--take-node-number-from-env"), Opt("--reload", "all")>>

(* args() of a role: the shared debug args first, then the role's own;    *)
(* SMBMetricsContainer.args (lines 269-273) has neither.                   *)
Args(r, cfg) ==
    IF r = "smbmetrics"
    THEN IF cfg.metrics_port > 0
            THEN <<Opt("--port", ToString(cfg.metrics_port))>> ELSE <<>>
    ELSE CommonArgs(cfg) \o RoleArgs(r, cfg)

Publish(p) == Opt("--publish", <<p, p>>)

(* Mutant: the primary publishes the SMB port only.                       *)
ContainerArgsNoMetricsPublish(r, cfg) ==
    CASE r = "mustjoin" ->
            DnsArgs(cfg)
            \o (IF cfg.clustered THEN <<Opt("--network", "host")>> ELSE <<>>)
      [] r = "smbd" ->
            (IF cfg.smb_port # 0 THEN <<Publish(cfg.smb_port)>> ELSE <<>>)
            \o DnsArgs(cfg)
      [] r = "ctdbd" ->
            <<Opt("--cap-add", "NET_ADMIN"), Opt("--cap-add", "NET_RAW")>>
      [] OTHER -> <<>>

(* container_args() of each role: SambaNetworkedInitContainer (lines      *)
(* 185-189), SMBDContainer (lines 207-215), CTDBDaemonContainer (lines    *)
(* 321-328), and the empty default of ContainerCommon.                     *)
ContainerArgs(r, cfg) ==
    CASE r = "mustjoin" ->
            DnsArgs(cfg)
            \o (IF cfg.clustered THEN <<Opt("--network", "host")>> ELSE <<>>)
      [] r = "smbd" ->
            (IF cfg.smb_port # 0 THEN <<Publish(cfg.smb_port)>> ELSE <<>>)
            \o (IF cfg.metrics_port # 0 THEN <<Publish(cfg.metrics_port)>>
                                         ELSE <<>>)
            \o DnsArgs(cfg)
      [] r = "ctdbd" ->
            <<Opt("--cap-add", "NET_ADMIN"), Opt("--cap-add", "NET_RAW")>>
      [] OTHER -> <<>>

(***************************************************************************)
(* SMB._layout (lines 510-540), past its cache check: the init containers, *)
(* the primary and the supplemental (sidecar) containers of a Config.     *)
(***************************************************************************)
MetricsWanted(cfg) ==
    Truthy(Strip(cfg.metrics_image)) /\ cfg.metrics_port > 0

(* Mutant: the metrics sidecar appended after the ctdb sidecars.          *)
BuildLayoutMetricsLast(cfg) ==
    [init_containers |->
        <<Ctr("config")>>
        \o (IF cfg.domain_member THEN <<Ctr("mustjoin")>> ELSE <<>>)
        \o (IF cfg.clustered THEN <<Ctr("ctdbMigrate"), Ctr("ctdbMustHaveNode")>>
                             ELSE <<>>),
     primary |-> Ctr("smbd"),
     supplemental |->
        <<Ctr("configwatch")>>
        \o (IF cfg.domain_member THEN <<Ctr("winbindd")>> ELSE <<>>)
        \o (IF cfg.clustered THEN <<Ctr("ctdbd"), Ctr("ctdbNodes")>> ELSE <<>>)
        \o (IF MetricsWanted(cfg)
               THEN <<[name |-> "smbmetrics", image |-> Strip(cfg.metrics_image)]>>
               ELSE <<>>)]

BuildLayout(cfg) ==
    [init_containers |->
        <<Ctr("config")>>
        \o (IF cfg.domain_member THEN <<Ctr("mustjoin")>> ELSE <<>>)
        \o (IF cfg.clustered THEN <<Ctr("ctdbMigrate"), Ctr("ctdbMustHaveNode")>>
                             ELSE <<>>),
     primary |-> Ctr("smbd"),
     supplemental |->
        <<Ctr("configwatch")>>
        \o (IF cfg.domain_member THEN <<Ctr("winbindd")>> ELSE <<>>)
        \o (IF MetricsWanted(cfg)
               THEN <<[name |-> "smbmetrics", image |-> Strip(cfg.metrics_image)]>>
               ELSE <<>>)
        \o (IF cfg.clustered THEN <<Ctr("ctdbd"), Ctr("ctdbNodes")>> ELSE <<>>)]

(***************************************************************************)
(* customize_container_mounts (lines 644-681): host path under the data    *)
(* dir -> container path with the SELinux relabel option ":z".            *)
(***************************************************************************)
Bind(target) == [target |-> target, opt |-> "z"]

EtcSambaContainer == <<"etc-samba-container">>
LibSamba == <<"lib-samba">>
RunDir == <<"run">>
CephConf == <<"config">>
CephKeyring == <<"keyring">>
CtdbPersistent == <<"ctdb", "persistent">>
CtdbRun == <<"ctdb", "run">>
CtdbVolatile == <<"ctdb", "volatile">>
CtdbEtc == <<"ctdb", "etc">>
CtdbSmbConf == <<"ctdb", "smb.conf">>

(* The dict keys customize_container_mounts assigns, and the container   *)
(* path each key is bound to.                                             *)
BaseMounts == {EtcSambaContainer, LibSamba, RunDir, CephConf, CephKeyring}
ClusterMounts == {CtdbPersistent, CtdbRun, CtdbVolatile, CtdbEtc, CtdbSmbConf}
MountTarget(h) ==
    CASE h = EtcSambaContainer -> SambaContainerDir
      [] h = LibSamba          -> <<"var", "lib", "samba">>
      [] h = RunDir            -> <<"run">>
      [] h = CephConf          -> <<"etc", "ceph", "ceph.conf">>
      [] h = CephKeyring       -> <<"etc", "ceph", "keyring">>
      [] h = CtdbPersistent    -> <<"var", "lib", "ctdb", "persistent">>
      [] h = CtdbRun           -> <<"var", "run", "ctdb">>
      [] h = CtdbVolatile      -> <<"var", "lib", "ctdb", "volatile">>
      [] h = CtdbEtc           -> <<"etc", "ctdb">>
      [] h = CtdbSmbConf       -> <<"etc", "samba", "smb.conf">>

(* Mutant: the ctdb/persistent directory is not mounted.                  *)
MountsNoCtdbPersistent(cfg) ==
    [h \in BaseMounts \cup (IF cfg.clustered THEN ClusterMounts \ {CtdbPersistent} ELSE {})
        |-> Bind(MountTarget(h))]

Mounts(cfg) ==
    [h \in BaseMounts \cup (IF cfg.clustered THEN ClusterMounts ELSE {})
        |-> Bind(MountTarget(h))]

(* _to_sidecar_container (lines 571-582): the namespaces a sidecar shares  *)
(* with the primary; uts only under podman.                                *)
SharedNamespaces ==
    {"ipc", "network", "pid"} \cup (IF Engine = "podman" THEN {"uts"} ELSE {})

(* _to_init_container (lines 542-563) and _to_sidecar_container (lines     *)
(* 565-601): the container spec handed to the deployment framework.        *)
InitContainerSpec(c, cfg) ==
    [identity       |-> <<cfg.identity, c.name>>,
     image          |-> CtxImage,
     args           |-> Args(c.name, cfg),
     container_args |-> ContainerArgs(c.name, cfg),
     envs           |-> Envs(c.name, cfg),
     volume_mounts  |-> Mounts(cfg),
     shared_ns      |-> {}]

SidecarContainerSpec(c, cfg) ==
    [identity       |-> <<cfg.identity, c.name>>,
     image          |-> IF Truthy(c.image) THEN c.image ELSE CtxImage,
     args           |-> Args(c.name, cfg),
     container_args |-> ContainerArgs(c.name, cfg),
     envs           |-> Envs(c.name, cfg),
     volume_mounts  |-> Mounts(cfg),
     shared_ns      |-> SharedNamespaces]

(* The primary container as customize_process_args, customize_container_  *)
(* args, customize_container_envs and customize_container_mounts          *)
(* (lines 627-681) shape it.                                               *)
PrimarySpec(cfg) ==
    [identity       |-> <<cfg.identity>>,
     image          |-> CtxImage,
     args           |-> Args("smbd", cfg),
     container_args |-> ContainerArgs("smbd", cfg),
     envs           |-> Envs("smbd", cfg),
     volume_mounts  |-> Mounts(cfg),
     shared_ns      |-> {}]

(* Every container spec a layout yields.                                   *)
AllSpecs(l, cfg) ==
    {InitContainerSpec(l.init_containers[i], cfg) : i \in 1..Len(l.init_containers)}
    \cup {SidecarContainerSpec(l.supplemental[i], cfg) : i \in 1..Len(l.supplemental)}
    \cup {PrimarySpec(cfg)}

(***************************************************************************)
(* Properties of the layout of one Config.                                 *)
(***************************************************************************)
Names(cs) == [i \in 1..Len(cs) |-> cs[i].name]

(* Spec sections 4.4 and 8: the init containers are config-init, then      *)
(* must-join iff domain member, then ctdb-migrate and ctdb-must-have-node  *)
(* iff clustered; the sidecars are configwatch, then winbindd iff domain   *)
(* member, then smbmetrics iff an image and a positive port are            *)
(* configured, then ctdbd and ctdb-node-monitor iff clustered, in that     *)
(* order whatever the other flags (SMB._layout, lines 510-540).            *)
LayoutOrder(cfg) ==
    LET l == BuildLayout(cfg)
        ini == Names(l.init_containers)
        sup == Names(l.supplemental)
    IN  /\ ini[1] = "config" /\ sup[1] = "configwatch"
        /\ l.primary.name = "smbd"
        /\ cfg.domain_member <=> Len(ini) > 1 /\ ini[2] = "mustjoin"
        /\ cfg.domain_member <=> Len(sup) > 1 /\ sup[2] = "winbindd"
        /\ cfg.clustered <=>
              Len(ini) >= 3 /\ SubSeq(ini, Len(ini) - 1, Len(ini)) = <<"ctdbMigrate", "ctdbMustHaveNode">>
        /\ cfg.clustered <=>
              Len(sup) >= 3 /\ SubSeq(sup, Len(sup) - 1, Len(sup)) = <<"ctdbd", "ctdbNodes">>
        /\ (\E i \in 1..Len(sup) : sup[i] = "smbmetrics") <=>
              Truthy(Strip(cfg.metrics_image)) /\ cfg.metrics_port > 0
        /\ Len(ini) = 1 + (IF cfg.domain_member THEN 1 ELSE 0) + (IF cfg.clustered THEN 2 ELSE 0)

(* The words of a container's args that only make sense under CTDB.       *)
CtdbWords ==
    {SkipIfNotNodeZero, Word("--take-node-number-from-env"),
     Opt("--wait-for", "ctdb"), Opt("--setup", "smb_ctdb")}

(* A non-clustered instance never depends on CTDB, and a clustered one     *)
(* runs ctdbd for every container that waits for it or gates on its node   *)
(* number: no container's args (lines 192-346) name CTDB unless the       *)
(* layout (lines 528-536) runs ctdbd.                                      *)
CtdbDependenciesMet(cfg) ==
    LET l == BuildLayout(cfg)
        specs == AllSpecs(l, cfg)
        runsCtdbd == \E i \in 1..Len(l.supplemental) : l.supplemental[i].name = "ctdbd"
    IN  (\E s \in specs : \E i \in 1..Len(s.args) : s.args[i] \in CtdbWords)
            => runsCtdbd /\ cfg.clustered

(* When the smbmetrics sidecar runs, it listens on the metrics port        *)
(* (lines 269-273) and the primary container publishes that port          *)
(* (lines 211-213), which the sidecar reaches through the shared network  *)
(* namespace (lines 571-585).                                              *)
MetricsPortPublished(cfg) ==
    LET l == BuildLayout(cfg) IN
    \A i \in 1..Len(l.supplemental) :
        l.supplemental[i].name = "smbmetrics" =>
            LET sc == SidecarContainerSpec(l.supplemental[i], cfg)
                pa == ContainerArgs("smbd", cfg)
            IN  /\ sc.args = <<Opt("--port", ToString(cfg.metrics_port))>>
                /\ \E j \in 1..Len(pa) : pa[j] = Publish(cfg.metrics_port)
                /\ "network" \in sc.shared_ns
                /\ sc.image = Strip(cfg.metrics_image)

=============================================================================
