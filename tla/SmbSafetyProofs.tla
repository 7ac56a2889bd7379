--------------------------- MODULE SmbSafetyProofs ---------------------------
(***************************************************************************)
(* The data-directory and endpoint invariants of the daemon run, proved    *)
(* for every value of the constants.  The data-directory ones follow from  *)
(* the refinement: DataDirCurrent says every written path holds its        *)
(* target, and RefInv ties the object's mapper to this host's inventory.  *)
(***************************************************************************)
EXTENDS SmbRefinementProofs

(* The refinement invariant RefInv holds in every state of the daemon run.*)
LEMMA RefInvHolds == Spec => []RefInv
BY RefInit, RefStep, PTL DEF Spec

(* Once prepare_data_dir has returned, every bind-mount source of every    *)
(* container (customize_container_mounts, lines 644-681) exists in the     *)
(* data directory: the shared ctdb/smb.conf as a file, everything else as  *)
(* a directory; config and keyring are the framework's.                    *)
THEOREM MountSourcesExistHolds == Spec => []MountSourcesExist
<1>1. RefInv /\ DataDirCurrent => MountSourcesExist
    <2> SUFFICES ASSUME RefInv, DataDirCurrent, prepDone,
                        NEW h \in DOMAIN Mounts(instCfg) \ {CephConf, CephKeyring}
                 PROVE  /\ h \in DOMAIN disk
                        /\ IF h = CtdbSmbConf THEN IsFileContent(disk[h]) ELSE disk[h] = Dir
        BY DEF MountSourcesExist
    <2>1. instCfg # None /\ Abs!Prepared(instCfg, disk)
        BY DEF DataDirCurrent, Abs!ReadyMeansPrepared
    <2>2. h \in ConfigDirs(instCfg) \/ (instCfg.clustered /\ h = CtdbSmbConf)
        BY DEF Mounts, BaseMounts, ClusterMounts, ConfigDirs
    <2>3. CASE h \in ConfigDirs(instCfg)
        <3>1. h # CtdbSmbConf
            BY <2>3, PathsDistinct DEF ConfigDirs
        <3>2. h \in DOMAIN Abs!Target(instCfg) /\ Abs!Target(instCfg)[h] = Dir
            BY <2>3 DEF Abs!Target, DataDirTarget
        <3> QED
            BY <2>1, <3>1, <3>2 DEF Abs!Prepared
    <2>4. CASE instCfg.clustered /\ h = CtdbSmbConf
        <3>1. h \in DOMAIN Abs!Target(instCfg) /\ Abs!Target(instCfg)[h] = SmbConfStub
            BY <2>4, PathsDistinct DEF Abs!Target, DataDirTarget, ConfigFiles, ConfigDirs
        <3> QED
            BY <2>1, <2>4, <3>1, StubIsContent DEF Abs!Prepared, IsFileContent
    <2> QED
        BY <2>2, <2>3, <2>4
<1> QED
    BY <1>1, RefInvHolds, DataDirCurrentHolds, PTL

(* A list without a repeated element.                                      *)
NoDup(s) == \A i, j \in 1..Len(s) : i # j => s[i] # s[j]

(* WithPort appends the port only when no endpoint has it, so it never     *)
(* repeats one (customize_container_endpoints, lines 683-690).            *)
LEMMA WithPortNoDup ==
    ASSUME NEW eps \in Seq(Nat), NEW p \in Nat, NoDup(eps)
    PROVE  WithPort(eps, p) \in Seq(Nat) /\ NoDup(WithPort(eps, p))
<1>1. CASE \E i \in 1..Len(eps) : eps[i] = p
    BY <1>1 DEF WithPort
<1>2. CASE ~\E i \in 1..Len(eps) : eps[i] = p
    <2>1. WithPort(eps, p) = Append(eps, p)
        BY <1>2 DEF WithPort
    <2>2. /\ Append(eps, p) \in Seq(Nat)
          /\ Len(Append(eps, p)) = Len(eps) + 1
          /\ \A i \in 1..Len(eps) : Append(eps, p)[i] = eps[i]
          /\ Append(eps, p)[Len(eps) + 1] = p
        BY AppendProperties
    <2> QED
        BY <1>2, <2>1, <2>2 DEF NoDup
<1> QED
    BY <1>1, <1>2

(* If the framework hands every process an endpoint list without repeated *)
(* ports, customize_container_endpoints (lines 683-690) never lists a port *)
(* twice, however often it is called on the same list.                    *)
THEOREM EndpointPortsUniqueHolds ==
    ASSUME \A e \in InitialEndpoints : NoDup(e)
    PROVE  Spec => []EndpointPortsUnique
<1> DEFINE Inv == TypeOK /\ NoDup(endpoints)
<1>1. Init => Inv
    BY TypeInit DEF Init, NoDup
<1>2. Inv /\ [Next]_vars => Inv'
    <2> SUFFICES ASSUME Inv, [Next]_vars PROVE Inv'
        OBVIOUS
    <2>1. TypeOK'
        BY TypeStep
    <2>2. CASE CustomizeEndpoints
        <3>1. WithPort(endpoints, SmbPort) \in Seq(Nat) /\ NoDup(WithPort(endpoints, SmbPort))
            BY WithPortNoDup, ConstAssumption DEF TypeOK
        <3>2. MetricsPort > 0 =>
                NoDup(WithPort(WithPort(endpoints, SmbPort), MetricsPort))
            BY <3>1, WithPortNoDup, DaemonAssumption
        <3> QED
            BY <2>1, <2>2, <3>1, <3>2 DEF CustomizeEndpoints
    <2>3. CASE NewProcess
        BY <2>1, <2>3 DEF NewProcess
    <2>4. CASE ~CustomizeEndpoints /\ ~NewProcess
        BY <2>1, <2>4 DEF Next, vars, ValidateCall, ValidateOk, ValidateRaises,
                          LayoutCall, PrepareDataDir, objVars
    <2> QED
        BY <2>2, <2>3, <2>4
<1>3. Inv => EndpointPortsUnique
    BY DEF NoDup, EndpointPortsUnique
<1> QED
    BY <1>1, <1>2, <1>3, PTL DEF Spec

(* What prepare_data_dir may put at ctdb.json: the target there, which is  *)
(* the stub of this host's inventory (ctdb.json is neither a directory    *)
(* nor a configured file).                                                 *)
LEMMA TargetAtCtdbJson ==
    ASSUME NEW c, NEW fs, NEW n, DOMAIN fs \subseteq UserFilePaths,
           CtdbJsonPath \in DOMAIN DataDirTarget(c, fs, n)
    PROVE  DataDirTarget(c, fs, n)[CtdbJsonPath] = CtdbStub(c, n)
<1>1. CtdbJsonPath \notin ConfigDirs(c) /\ CtdbJsonPath \notin DOMAIN fs
    BY PathsDistinct, DataDirAssumption DEF ConfigDirs, GeneratedPaths
<1>2. CtdbJsonPath \in ConfigFiles(c)
    BY <1>1 DEF DataDirTarget
<1> QED
    BY <1>1, <1>2 DEF DataDirTarget

(* The one step that changes ctdb.json is prepare_data_dir past its        *)
(* validate(), and it writes the target there.                             *)
LEMMA CtdbJsonStep ==
    ASSUME RefInv, RefInv', [Next]_vars
    PROVE  disk'[CtdbJsonPath] # disk[CtdbJsonPath] =>
               instCfg' # None /\ disk'[CtdbJsonPath] = CtdbStub(instCfg', hostNets')
<1> SUFFICES ASSUME disk'[CtdbJsonPath] # disk[CtdbJsonPath]
             PROVE  instCfg' # None /\ disk'[CtdbJsonPath] = CtdbStub(instCfg', hostNets')
    OBVIOUS
<1>1. /\ PrepareDataDir
      /\ ValidateOk
      /\ UNCHANGED <<raw, rankInfo, hostNets, cachedLayout>>
      /\ \E k \in 0..Len(PrepSteps(instCfg', files', networks')) :
            /\ disk' = ApplySteps(disk, PrepSteps(instCfg', files', networks'), k)
            /\ prepDone' = (k = Len(PrepSteps(instCfg', files', networks')))
    BY DEF Next, vars, ValidateCall, ValidateRaises, LayoutCall, CustomizeEndpoints,
           PrepareDataDir, NewProcess
<1>2. instCfg' # None
    BY <1>1, ValidateOkMemo DEF RefInv
<1>3. Abs!Prepare
    BY <1>1, PrepareMaps
<1>4. CtdbJsonPath \in DOMAIN disk
    BY DEF RefInv, MemoInv, TypeOK, DataPaths, GeneratedPaths
<1>5. CtdbJsonPath \in DOMAIN Abs!Target(instCfg')
      /\ disk'[CtdbJsonPath] = Abs!Target(instCfg')[CtdbJsonPath]
    BY <1>3, <1>4 DEF Abs!Prepare
<1>6. DOMAIN raw.files \subseteq UserFilePaths
    BY DaemonAssumption DEF RefInv, MemoInv, TypeOK
<1> QED
    BY <1>1, <1>2, <1>5, <1>6, TargetAtCtdbJson DEF Abs!Target

(* However the framework orders its calls and however often cephadm      *)
(* redeploys, a step that changes ctdb.json writes the stub of the Config *)
(* the object then holds, mapped through this host's current inventory.   *)
THEOREM CtdbJsonOnlyCurrentHolds == Spec => CtdbJsonOnlyCurrent
<1>1. RefInv /\ RefInv' /\ [Next]_vars =>
        [disk'[CtdbJsonPath] # disk[CtdbJsonPath] =>
             instCfg' # None /\ disk'[CtdbJsonPath] = CtdbStub(instCfg', hostNets')]_vars
    BY CtdbJsonStep
<1> QED
    BY <1>1, RefInvHolds, PTL DEF Spec, CtdbJsonOnlyCurrent


(* No word or plain --flag=value argument of a role (lines 169-346) is a  *)
(* path option: only ctdb-migrate's --dest-dir and --archive are.          *)
LEMMA PlainNotPath ==
    ASSUME NEW cfg, NEW x \in PlainArgs(cfg)
    PROVE  ~(Len(x) = 2 /\ x[1] \in PathOpts)
BY DEF PlainArgs, Word, Opt, PathOpts, ArgFlags

(* A path is a prefix of itself, and samba's .migrated marker lies under   *)
(* /var/lib/samba.                                                          *)
LEMMA PrefixOfSelf ==
    ASSUME NEW S, NEW p \in Seq(S)
    PROVE  IsPrefix(p, p)
<1>1. /\ SubSeq(p, 1, Len(p)) \in Seq(S) /\ Len(SubSeq(p, 1, Len(p))) = Len(p)
      /\ \A i \in 1..Len(p) : SubSeq(p, 1, Len(p))[i] = p[i]
    BY SubSeqProperties
<1> QED
    BY <1>1, SeqEqual DEF IsPrefix

LEMMA MarkerUnderLibSamba ==
    IsPrefix(<<"var", "lib", "samba">>, <<"var", "lib", "samba", ".migrated">>)
<1> DEFINE S == {"var", "lib", "samba", ".migrated"}
           t == <<"var", "lib", "samba", ".migrated">>
           p == <<"var", "lib", "samba">>
<1>1. t \in Seq(S) /\ p \in Seq(S) /\ Len(t) = 4 /\ Len(p) = 3
    OBVIOUS
<1>2. /\ SubSeq(t, 1, 3) \in Seq(S) /\ Len(SubSeq(t, 1, 3)) = 3
      /\ \A i \in 1..3 : SubSeq(t, 1, 3)[i] = t[i]
    BY <1>1, SubSeqProperties
<1>3. \A i \in 1..3 : t[i] = p[i]
    <2> SUFFICES ASSUME NEW i \in 1..3 PROVE t[i] = p[i]
        OBVIOUS
    <2>1. i = 1 \/ i = 2 \/ i = 3
        OBVIOUS
    <2> QED
        BY <2>1
<1>4. /\ Len(SubSeq(t, 1, 3)) = Len(p)
      /\ \A i \in 1..Len(SubSeq(t, 1, 3)) : SubSeq(t, 1, 3)[i] = p[i]
    BY <1>1, <1>2, <1>3
<1>5. SubSeq(t, 1, 3) = p
    BY <1>1, <1>2, <1>4, SeqEqual, Zenon
<1> QED
    BY <1>1, <1>5 DEF IsPrefix

(* The container paths customize_container_mounts (lines 650-681) binds   *)
(* /var/lib/samba and ctdb's persistent directory to.                     *)
LEMMA MigrateMounts ==
    ASSUME NEW cfg
    PROVE  /\ LibSamba \in DOMAIN Mounts(cfg) \ {RunDir, CtdbRun}
           /\ Mounts(cfg)[LibSamba].target = <<"var", "lib", "samba">>
           /\ cfg.clustered =>
                 /\ CtdbPersistent \in DOMAIN Mounts(cfg) \ {RunDir, CtdbRun}
                 /\ Mounts(cfg)[CtdbPersistent].target =
                        <<"var", "lib", "ctdb", "persistent">>
<1>1. /\ MountTarget(LibSamba) = <<"var", "lib", "samba">>
      /\ MountTarget(CtdbPersistent) = <<"var", "lib", "ctdb", "persistent">>
    BY DEF MountTarget, EtcSambaContainer, LibSamba, RunDir, CephConf,
           CephKeyring, CtdbPersistent, CtdbRun, CtdbVolatile, CtdbEtc, CtdbSmbConf
<1>2. /\ LibSamba \in BaseMounts \ {RunDir, CtdbRun}
      /\ CtdbPersistent \in ClusterMounts \ {RunDir, CtdbRun}
    BY DEF BaseMounts, ClusterMounts, LibSamba, RunDir, CtdbRun, CtdbPersistent
<1>3. /\ LibSamba \in DOMAIN Mounts(cfg)
      /\ Mounts(cfg)[LibSamba] = Bind(MountTarget(LibSamba))
      /\ cfg.clustered => /\ CtdbPersistent \in DOMAIN Mounts(cfg)
                          /\ Mounts(cfg)[CtdbPersistent] = Bind(MountTarget(CtdbPersistent))
    BY <1>2 DEF Mounts
<1> QED
    BY <1>1, <1>2, <1>3 DEF Bind

(* Once prepare_data_dir has returned, every directory it makes exists.   *)
LEMMA DirsPrepared ==
    ASSUME DataDirCurrent, prepDone, NEW h \in ConfigDirs(instCfg)
    PROVE  h \in DOMAIN disk /\ disk[h] = Dir
<1>1. instCfg # None /\ Abs!Prepared(instCfg, disk)
    BY DEF DataDirCurrent, Abs!ReadyMeansPrepared
<1>2. h \in DOMAIN Abs!Target(instCfg) /\ Abs!Target(instCfg)[h] = Dir
    BY DEF Abs!Target, DataDirTarget
<1> QED
    BY <1>1, <1>2 DEF Abs!Prepared

(* Once prepare_data_dir has returned, ctdb-migrate's --dest-dir and its   *)
(* --archive marker (lines 284-289) lie under bind mounts (lines 650-681)  *)
(* of directories prepare_data_dir made and that are not the run          *)
(* directories: what the migration writes persists across restarts.       *)
THEOREM PathArgsPersistHolds == Spec => []PathArgsPersist
<1>1. TypeOK /\ DataDirCurrent => PathArgsPersist
    <2> SUFFICES ASSUME TypeOK, DataDirCurrent, prepDone,
                        NEW s \in AllSpecs(BuildLayout(instCfg), instCfg),
                        NEW i \in 1..Len(s.args),
                        Len(s.args[i]) = 2, s.args[i][1] \in PathOpts
                 PROVE  \E h \in DOMAIN s.volume_mounts \ {RunDir, CtdbRun} :
                            /\ IsPrefix(s.volume_mounts[h].target, s.args[i][2])
                            /\ h \in DOMAIN disk
                            /\ disk[h] = Dir
        BY DEF PathArgsPersist
    <2>1. instCfg # None
        BY DEF DataDirCurrent, Abs!ReadyMeansPrepared
    <2>2. ConfigOK(instCfg)
        BY <2>1 DEF TypeOK
    <2>3. PICK r \in LayoutRoles(instCfg) :
              s.args = Args(r, instCfg) /\ s.volume_mounts = Mounts(instCfg)
        BY <2>2, SpecsOfLayout
    <2>4. s.args[i] \in ArgSet(r, instCfg)
        <3>1. Args(r, instCfg) \in Seq(ArgSet(r, instCfg))
            BY <2>2, ArgsOfRole
        <3> QED
            BY <2>3, <3>1, ElementOfSeq
    <2>5. r = "ctdbMigrate" /\ s.args[i] \in MigratePaths
        <3>1. s.args[i] \notin PlainArgs(instCfg)
            BY PlainNotPath
        <3> QED
            BY <2>4, <3>1 DEF ArgSet
    <2>6. instCfg.clustered
        BY <2>3, <2>5 DEF LayoutRoles, CtdbRoles
    <2>7. CASE s.args[i] = Opt("--dest-dir", <<"var", "lib", "ctdb", "persistent">>)
        <3>1. CtdbPersistent \in DOMAIN Mounts(instCfg) \ {RunDir, CtdbRun}
              /\ Mounts(instCfg)[CtdbPersistent].target = <<"var", "lib", "ctdb", "persistent">>
            BY <2>6, MigrateMounts
        <3>2. <<"var", "lib", "ctdb", "persistent">> \in Seq({"var", "lib", "ctdb", "persistent"})
            OBVIOUS
        <3>3. IsPrefix(<<"var", "lib", "ctdb", "persistent">>, <<"var", "lib", "ctdb", "persistent">>)
            BY <3>2, PrefixOfSelf
        <3>4. CtdbPersistent \in DOMAIN disk /\ disk[CtdbPersistent] = Dir
            BY <2>6, DirsPrepared DEF ConfigDirs
        <3> QED
            BY <2>3, <2>7, <3>1, <3>3, <3>4 DEF Opt
    <2>8. CASE s.args[i] = Opt("--archive", <<"var", "lib", "samba", ".migrated">>)
        <3>1. LibSamba \in DOMAIN Mounts(instCfg) \ {RunDir, CtdbRun}
              /\ Mounts(instCfg)[LibSamba].target = <<"var", "lib", "samba">>
            BY MigrateMounts
        <3>2. LibSamba \in DOMAIN disk /\ disk[LibSamba] = Dir
            BY DirsPrepared DEF ConfigDirs
        <3> QED
            BY <2>3, <2>8, <3>1, <3>2, MarkerUnderLibSamba DEF Opt
    <2> QED
        BY <2>5, <2>7, <2>8 DEF MigratePaths
<1> QED
    BY <1>1, TypeCorrect, DataDirCurrentHolds, PTL

(***************************************************************************)
(* SAMBACC_CONFIG (lines 146-150) lists Config.config_uris() (98-105): the *)
(* source, the user sources and, clustered, /etc/samba/container/ctdb.json.*)
(***************************************************************************)
LEMMA ConfigUriCases ==
    ASSUME NEW cfg, ConfigOK(cfg), NEW i \in 1..Len(ConfigUris(cfg))
    PROVE  \/ ConfigUris(cfg)[i] = cfg.source_config
           \/ \E j \in 1..Len(cfg.user_sources) : ConfigUris(cfg)[i] = cfg.user_sources[j]
           \/ cfg.clustered /\ ConfigUris(cfg)[i] = CtdbJsonUri
<1> DEFINE us == cfg.user_sources
           S == {cfg.source_config} \cup {us[j] : j \in 1..Len(us)}
                \cup (IF cfg.clustered THEN {CtdbJsonUri} ELSE {})
<1>1. <<cfg.source_config>> \in Seq(S)
    OBVIOUS
<1>2. Len(us) \in Nat /\ us \in [1..Len(us) -> S]
    <2>1. us \in Seq(UriType)
        BY DEF ConfigOK
    <2> QED
        BY <2>1, LenProperties
<1>3. us \in Seq(S)
    BY <1>2, FunIsSeq
<1>4. (IF cfg.clustered THEN <<CtdbJsonUri>> ELSE <<>>) \in Seq(S)
    <2>1. CASE cfg.clustered
        <3>1. CtdbJsonUri \in S
            BY <2>1
        <3> QED
            BY <2>1, <3>1
    <2>2. CASE ~cfg.clustered
        BY <2>2
    <2> QED
        BY <2>1, <2>2
<1>5. ConfigUris(cfg) \in Seq(S)
    BY <1>1, <1>3, <1>4, ConcatProperties DEF ConfigUris
<1>6. ConfigUris(cfg)[i] \in S
    BY <1>5
<1> QED
    BY <1>6

(* ctdb.json's URI lies under the target of the etc-samba-container mount  *)
(* and names the data-dir path prepare_data_dir writes the stub to.        *)
(* The path components of ctdb.json's URI and of its data-dir path.       *)
CtdbJsonWords == {"etc", "samba", "container", "ctdb.json", "etc-samba-container"}

LEMMA CtdbJsonUriMounted ==
    /\ IsPrefix(SambaContainerDir, CtdbJsonUri)
    /\ EtcSambaContainer \o SubSeq(CtdbJsonUri, Len(SambaContainerDir) + 1, Len(CtdbJsonUri))
           = CtdbJsonPath
<1> DEFINE S == CtdbJsonWords
           d == SambaContainerDir
           u == CtdbJsonUri
           e == EtcSambaContainer
<1>1. d \in Seq(S)
    BY DEF SambaContainerDir, CtdbJsonWords
<1>1a. Len(d) = 3
    BY DEF SambaContainerDir
<1>1b. e \in Seq(S)
    BY DEF EtcSambaContainer, CtdbJsonWords
<1>1c. Len(e) = 1 /\ e[1] = "etc-samba-container"
    BY DEF EtcSambaContainer
<1>1d. "ctdb.json" \in S
    BY DEF CtdbJsonWords
<1>2. /\ u \in Seq(S) /\ Len(u) = 4 /\ u[4] = "ctdb.json"
      /\ \A i \in 1..3 : u[i] = d[i]
    <2>1. /\ Append(d, "ctdb.json") \in Seq(S)
          /\ Len(Append(d, "ctdb.json")) = Len(d) + 1
          /\ \A i \in 1..Len(d) : Append(d, "ctdb.json")[i] = d[i]
          /\ Append(d, "ctdb.json")[Len(d) + 1] = "ctdb.json"
        BY <1>1, <1>1d, AppendProperties
    <2> QED
        BY <1>1a, <2>1 DEF CtdbJsonUri, CtdbJsonName
<1>3. \A i \in 1..4 : u[i] \in S
    <2>1. u \in Seq(S) /\ Len(u) = 4
        BY <1>2
    <2> QED
        BY <2>1, ElementOfSeq
<1>4. /\ SubSeq(u, 1, 3) \in Seq(S)
      /\ Len(SubSeq(u, 1, 3)) = IF 1 <= 3 THEN 3 - 1 + 1 ELSE 0
      /\ \A i \in 1..3 - 1 + 1 : SubSeq(u, 1, 3)[i] = u[1 + i - 1]
    BY <1>3, SubSeqProperties
<1>5. /\ Len(SubSeq(u, 1, 3)) = Len(d)
      /\ \A i \in 1..Len(SubSeq(u, 1, 3)) : SubSeq(u, 1, 3)[i] = d[i]
    BY <1>1a, <1>2, <1>4
<1>6. SubSeq(u, 1, 3) = d
    BY <1>1, <1>4, <1>5, SeqEqual, Zenon
<1>7. IsPrefix(d, u)
    BY <1>1a, <1>2, <1>6 DEF IsPrefix
<1>8. /\ SubSeq(u, 4, 4) \in Seq(S)
      /\ Len(SubSeq(u, 4, 4)) = IF 4 <= 4 THEN 4 - 4 + 1 ELSE 0
      /\ \A i \in 1..4 - 4 + 1 : SubSeq(u, 4, 4)[i] = u[4 + i - 1]
    BY <1>3, SubSeqProperties
<1>9. Len(SubSeq(u, 4, 4)) = 1 /\ SubSeq(u, 4, 4)[1] = "ctdb.json"
    BY <1>2, <1>8
<1> DEFINE t == SubSeq(u, 4, 4)
           lhs == e \o t
<1>10. /\ lhs \in Seq(S)
       /\ \A i \in 1..Len(e) : i \in 1..Len(lhs) /\ lhs[i] = e[i]
       /\ \A j \in 1..Len(t) : Len(e) + j \in 1..Len(lhs) /\ lhs[Len(e) + j] = t[j]
    BY <1>1b, <1>8, ConcatIndex
<1>11. Len(lhs) = Len(e) + Len(t)
    BY <1>1b, <1>8, ConcatProperties
<1>12. /\ Len(lhs) = 2 /\ lhs[1] = "etc-samba-container" /\ lhs[2] = "ctdb.json"
    BY <1>1c, <1>9, <1>10, <1>11
<1>13. /\ Append(e, "ctdb.json") \in Seq(S)
       /\ Len(Append(e, "ctdb.json")) = Len(e) + 1
       /\ \A i \in 1..Len(e) : Append(e, "ctdb.json")[i] = e[i]
       /\ Append(e, "ctdb.json")[Len(e) + 1] = "ctdb.json"
    BY <1>1b, <1>1d, AppendProperties
<1>14. /\ CtdbJsonPath \in Seq(S) /\ Len(CtdbJsonPath) = 2
       /\ CtdbJsonPath[1] = "etc-samba-container" /\ CtdbJsonPath[2] = "ctdb.json"
    BY <1>1c, <1>13 DEF CtdbJsonPath, CtdbJsonName
<1>15. \A i \in 1..Len(lhs) : lhs[i] = CtdbJsonPath[i]
    BY <1>12, <1>14
<1>16. lhs = CtdbJsonPath
    BY <1>10, <1>12, <1>14, <1>15, SeqEqual, Zenon
<1> QED
    BY <1>7, <1>16, <1>1a, <1>2

(* The etc-samba-container mount (lines 650-652) binds that directory.     *)
LEMMA SambaContainerMount ==
    ASSUME NEW cfg
    PROVE  /\ EtcSambaContainer \in DOMAIN Mounts(cfg)
           /\ Mounts(cfg)[EtcSambaContainer].target = SambaContainerDir
<1>1. MountTarget(EtcSambaContainer) = SambaContainerDir
    BY DEF MountTarget, EtcSambaContainer, LibSamba, RunDir, CephConf,
           CephKeyring, CtdbPersistent, CtdbRun, CtdbVolatile, CtdbEtc, CtdbSmbConf
<1>2. EtcSambaContainer \in BaseMounts
    BY DEF BaseMounts
<1> QED
    BY <1>1, <1>2 DEF Mounts, Bind

(* The config source and user sources the orchestrator hands the daemon    *)
(* name remote (rados) objects, which no container reads from disk.        *)
SourcesRemote ==
    \A r \in RawConfigs :
        /\ r.config_uri[1] \in RemoteSchemes
        /\ \A j \in 1..Len(r.user_sources) : r.user_sources[j][1] \in RemoteSchemes

(* Once prepare_data_dir has returned, every local URI a container reads   *)
(* from SAMBACC_CONFIG (lines 98-105, 146-150) resolves, through that      *)
(* container's bind mounts (644-681), to a file of the data directory:    *)
(* for remote config and user sources, the only local one is ctdb.json,   *)
(* which prepare_data_dir writes (lines 706-727).                          *)
THEOREM ConfigUrisResolveHolds ==
    ASSUME SourcesRemote
    PROVE  Spec => []ConfigUrisResolve
<1>1. RefInv /\ DataDirCurrent => ConfigUrisResolve
    <2> SUFFICES ASSUME RefInv, DataDirCurrent, prepDone,
                        NEW s \in AllSpecs(BuildLayout(instCfg), instCfg),
                        "SAMBACC_CONFIG" \in DOMAIN s.envs,
                        NEW i \in 1..Len(s.envs["SAMBACC_CONFIG"].json_list),
                        s.envs["SAMBACC_CONFIG"].json_list[i][1] \notin RemoteSchemes
                 PROVE  \E h \in HostPathOf(s.envs["SAMBACC_CONFIG"].json_list[i],
                                            s.volume_mounts) :
                            h \in DOMAIN disk /\ IsFileContent(disk[h])
        BY DEF ConfigUrisResolve
    <2>1. instCfg # None /\ Abs!Prepared(instCfg, disk)
        BY DEF DataDirCurrent, Abs!ReadyMeansPrepared
    <2>2. /\ ConfigOK(instCfg) /\ instCfg = MakeConfig(raw, rankInfo)
          /\ raw \in RawConfigs /\ rankInfo \in RankInfos /\ hostNets \in HostInventories
        BY <2>1 DEF RefInv, MemoInv, TypeOK
    <2>3. PICK r \in LayoutRoles(instCfg) :
              s.envs = Envs(r, instCfg) /\ s.volume_mounts = Mounts(instCfg)
        BY <2>2, SpecsOfLayout
    <2>4. s.envs = SambaEnvs(instCfg)
        BY <2>3 DEF Envs
    <2>5. s.envs["SAMBACC_CONFIG"].json_list = ConfigUris(instCfg)
        BY <2>4 DEF SambaEnvs, SambaEnvKeys, JsonList
    <2> DEFINE u == ConfigUris(instCfg)[i]
    <2>6. i \in 1..Len(ConfigUris(instCfg)) /\ u[1] \notin RemoteSchemes
        BY <2>5
    <2>7. instCfg.clustered /\ u = CtdbJsonUri
        <3>1. /\ instCfg.source_config = raw.config_uri
              /\ instCfg.user_sources = raw.user_sources
            BY <2>2 DEF MakeConfig
        <3>2. /\ raw.config_uri[1] \in RemoteSchemes
              /\ \A j \in 1..Len(raw.user_sources) : raw.user_sources[j][1] \in RemoteSchemes
            BY <2>2 DEF SourcesRemote
        <3> QED
            BY <2>2, <2>6, <3>1, <3>2, ConfigUriCases
    <2>8. CtdbJsonPath \in HostPathOf(u, Mounts(instCfg))
        BY <2>7, CtdbJsonUriMounted, SambaContainerMount DEF HostPathOf
    <2>9. /\ CtdbJsonPath \in DOMAIN disk
          /\ disk[CtdbJsonPath] = CtdbStub(instCfg, hostNets)
        <3>1. /\ CtdbJsonPath \in DOMAIN Abs!Target(instCfg)
              /\ Abs!Target(instCfg)[CtdbJsonPath] = CtdbStub(instCfg, hostNets)
            BY <2>7, PathsDistinct DEF Abs!Target, DataDirTarget, ConfigFiles, ConfigDirs
        <3> QED
            BY <2>1, <3>1 DEF Abs!Prepared
    <2>10. IsFileContent(disk[CtdbJsonPath])
        BY <2>2, <2>9, CtdbStubIsContent DEF IsFileContent
    <2> QED
        BY <2>3, <2>5, <2>8, <2>9, <2>10
<1> QED
    BY <1>1, RefInvHolds, DataDirCurrentHolds, PTL

====
