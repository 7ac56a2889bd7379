----------------------------- MODULE SmbDataDir -----------------------------
(***************************************************************************)
(* The daemon's data directory on the host and what prepare_data_dir       *)
(* (smb.py lines 692-740) writes into it.  A path is a sequence of         *)
(* components below the data directory; the directory maps every path the *)
(* model knows to Absent, Dir or the contents of a file.                   *)
(***************************************************************************)
EXTENDS SmbContainers, SmbNetworkMapper

CONSTANTS
    UserFilePaths,     \* data-dir paths the raw config's "files" may name
    Absent, Dir        \* what a data-dir path holds when it is not a file

CtdbJsonPath == Append(EtcSambaContainer, CtdbJsonName)

(* Every path prepare_data_dir itself creates or writes.                   *)
GeneratedPaths ==
    {EtcSambaContainer, LibSamba, RunDir, CtdbPersistent, CtdbRun,
     CtdbVolatile, CtdbEtc, CtdbJsonPath, CtdbSmbConf}

(* The configured files (self._files) name none of the paths               *)
(* prepare_data_dir generates: populate_files (line 700) runs before the   *)
(* ctdb directories and stubs are written and would be overwritten.        *)
ASSUME DataDirAssumption ==
    /\ Absent # Dir
    /\ UserFilePaths \cap GeneratedPaths = {}

DataPaths == GeneratedPaths \cup UserFilePaths

Entry(p, v) == [q \in {p} |-> v]
MkDir(p) == Entry(p, Dir)

(* _write_ctdb_stub_config (lines 709-727).  ' '.join of a command is its  *)
(* word list; the '!' prefix marks the recovery lock as a command.         *)
MutexSubcmd == <<"/usr/bin/samba-container", "ctdb-rados-mutex">>
NodesSubcmd == <<"/usr/bin/samba-container", "ctdb-list-nodes">>

CtdbSection(cfg, nets) ==
    [recovery_lock    |-> [bang |-> TRUE, cmd |-> Append(MutexSubcmd, cfg.cluster_lock_uri)],
     cluster_meta_uri |-> cfg.cluster_meta_uri,
     nodes_cmd        |-> NodesSubcmd,
     public_addresses |-> ForSambacc(nets, cfg.cluster_public_addrs)]

CtdbStub(cfg, nets) ==
    [samba_container_config |-> "v0",
     ctdb |-> IF cfg.ctdb_log_level # Empty
                THEN [f \in DOMAIN CtdbSection(cfg, nets) \cup {"log_level"} |->
                        IF f = "log_level" THEN cfg.ctdb_log_level
                        ELSE CtdbSection(cfg, nets)[f]]
                ELSE CtdbSection(cfg, nets)]

(* _write_smb_conf_stub (lines 729-740): the lines of the stub.            *)
SmbConfStub == <<"[global]", "config backend = registry">>

(* Absent and Dir stand for "no file" and "a directory", never for what a  *)
(* file holds.                                                             *)
ASSUME StubIsContent == SmbConfStub \notin {Absent, Dir}

(* Mutant: ctdb.json written to the data dir root, not etc-samba-container. *)
PrepStepsCtdbJsonMisplaced(cfg, fs, nets) ==
    <<MkDir(EtcSambaContainer), MkDir(LibSamba), MkDir(RunDir)>>
    \o (IF DOMAIN fs # {} THEN <<fs>> ELSE <<>>)
    \o (IF cfg.clustered
          THEN <<MkDir(CtdbPersistent), MkDir(CtdbRun), MkDir(CtdbVolatile),
                 MkDir(CtdbEtc), Entry(<<CtdbJsonName>>, CtdbStub(cfg, nets)),
                 Entry(CtdbSmbConf, SmbConfStub)>>
          ELSE <<>>)

(* Mutant: the ctdb/volatile directory is never created.                  *)
PrepStepsNoVolatile(cfg, fs, nets) ==
    <<MkDir(EtcSambaContainer), MkDir(LibSamba), MkDir(RunDir)>>
    \o (IF DOMAIN fs # {} THEN <<fs>> ELSE <<>>)
    \o (IF cfg.clustered
          THEN <<MkDir(CtdbPersistent), MkDir(CtdbRun),
                 MkDir(CtdbEtc), Entry(CtdbJsonPath, CtdbStub(cfg, nets)),
                 Entry(CtdbSmbConf, SmbConfStub)>>
          ELSE <<>>)

(* Mutant: populate_files only for a clustered instance.                  *)
PrepStepsFilesOnlyClustered(cfg, fs, nets) ==
    <<MkDir(EtcSambaContainer), MkDir(LibSamba), MkDir(RunDir)>>
    \o (IF cfg.clustered
          THEN (IF DOMAIN fs # {} THEN <<fs>> ELSE <<>>)
               \o <<MkDir(CtdbPersistent), MkDir(CtdbRun), MkDir(CtdbVolatile),
                    MkDir(CtdbEtc), Entry(CtdbJsonPath, CtdbStub(cfg, nets)),
                    Entry(CtdbSmbConf, SmbConfStub)>>
          ELSE <<>>)

(* prepare_data_dir (lines 692-707) as the sequence of its writes, each a  *)
(* partial map path -> new contents; populate_files writes the configured *)
(* files in one step, and file_utils.write_new replaces a file atomically.*)
PrepSteps(cfg, fs, nets) ==
    <<MkDir(EtcSambaContainer), MkDir(LibSamba), MkDir(RunDir)>>
    \o (IF DOMAIN fs # {} THEN <<fs>> ELSE <<>>)
    \o (IF cfg.clustered
          THEN <<MkDir(CtdbPersistent), MkDir(CtdbRun), MkDir(CtdbVolatile),
                 MkDir(CtdbEtc), Entry(CtdbJsonPath, CtdbStub(cfg, nets)),
                 Entry(CtdbSmbConf, SmbConfStub)>>
          ELSE <<>>)

(* The directories prepare_data_dir makes for a Config (lines 695-705).    *)
ConfigDirs(cfg) ==
    {EtcSambaContainer, LibSamba, RunDir}
    \cup (IF cfg.clustered THEN {CtdbPersistent, CtdbRun, CtdbVolatile, CtdbEtc}
                           ELSE {})

(* The files prepare_data_dir generates for a clustered Config (706-707).  *)
ConfigFiles(cfg) == IF cfg.clustered THEN {CtdbJsonPath, CtdbSmbConf} ELSE {}

(* What a completed prepare_data_dir leaves at every path it writes: the   *)
(* directories, the configured files, and the ctdb stubs.                  *)
DataDirTarget(cfg, fs, nets) ==
    [p \in ConfigDirs(cfg) \cup DOMAIN fs \cup ConfigFiles(cfg) |->
        IF p \in ConfigDirs(cfg) THEN Dir
        ELSE IF p \in ConfigFiles(cfg)
             THEN IF p = CtdbJsonPath THEN CtdbStub(cfg, nets) ELSE SmbConfStub
        ELSE fs[p]]

(* The data directory after the first k writes of steps.                   *)
ApplySteps(d, steps, k) ==
    [p \in DOMAIN d |->
        IF \E i \in 1..k : p \in DOMAIN steps[i]
        THEN steps[CHOOSE i \in 1..k : p \in DOMAIN steps[i]][p]
        ELSE d[p]]

=============================================================================
