------------------------ MODULE SmbRefinementProofs ------------------------
(***************************************************************************)
(* The SMB daemon object implements the abstract SmbInstance: the proof of *)
(* Spec => Abs!Spec under the refinement mapping of SmbDaemon, and what it *)
(* gives for the data directory.  The heart of it is prepare_data_dir:     *)
(* every write it makes agrees with DataDirTarget, and a complete run      *)
(* writes every path of the target.                                        *)
(***************************************************************************)
EXTENDS SmbDaemonProofs

(* The write f only puts at its paths what T wants there.                  *)
Agrees(f, T) == DOMAIN f \subseteq DOMAIN T /\ \A p \in DOMAIN f : f[p] = T[p]

(* Some write of steps touches path p.                                     *)
Occurs(steps, p) == \E i \in 1..Len(steps) : p \in DOMAIN steps[i]

(* The writes prepare_data_dir may make for Config c, files fs and         *)
(* inventory n, and those of them that agree with its target.              *)
Writes(c, fs, n) ==
    {MkDir(p) : p \in GeneratedPaths}
    \cup {fs, Entry(CtdbJsonPath, CtdbStub(c, n)), Entry(CtdbSmbConf, SmbConfStub)}
GoodWrites(c, fs, n) ==
    {f \in Writes(c, fs, n) : Agrees(f, DataDirTarget(c, fs, n))}

LEMMA OccursConcat ==
    ASSUME NEW S, NEW s1 \in Seq(S), NEW s2 \in Seq(S), NEW p,
           Occurs(s1, p) \/ Occurs(s2, p)
    PROVE  Occurs(s1 \o s2, p)
<1>1. CASE Occurs(s1, p)
    BY <1>1, ConcatIndex DEF Occurs
<1>2. CASE Occurs(s2, p)
    <2>1. PICK j \in 1..Len(s2) : p \in DOMAIN s2[j]
        BY <1>2 DEF Occurs
    <2>2. Len(s1) + j \in 1..Len(s1 \o s2) /\ (s1 \o s2)[Len(s1) + j] = s2[j]
        BY <2>1, ConcatIndex
    <2>3. p \in DOMAIN (s1 \o s2)[Len(s1) + j]
        BY <2>1, <2>2
    <2> QED
        BY <2>2, <2>3 DEF Occurs
<1> QED
    BY <1>1, <1>2

(* The paths of the data directory are distinct.                           *)
LEMMA PathsDistinct ==
    /\ CtdbJsonPath \notin {EtcSambaContainer, LibSamba, RunDir, CtdbPersistent,
                            CtdbRun, CtdbVolatile, CtdbEtc, CtdbSmbConf}
    /\ CtdbSmbConf \notin {EtcSambaContainer, LibSamba, RunDir, CtdbPersistent,
                           CtdbRun, CtdbVolatile, CtdbEtc}
<1>1. /\ Len(CtdbJsonPath) = 2
      /\ CtdbJsonPath[1] = "etc-samba-container"
      /\ CtdbJsonPath[2] = "ctdb.json"
    <2>1. EtcSambaContainer \in Seq({"etc-samba-container", "ctdb.json"})
        BY DEF EtcSambaContainer
    <2> QED
        BY <2>1, AppendProperties DEF CtdbJsonPath, CtdbJsonName, EtcSambaContainer
<1> QED
    BY <1>1 DEF EtcSambaContainer, LibSamba, RunDir, CtdbPersistent, CtdbRun,
               CtdbVolatile, CtdbEtc, CtdbSmbConf

(* Each write prepare_data_dir makes agrees with DataDirTarget: a made     *)
(* directory is a directory there, the configured files are the files     *)
(* there (they miss every generated path), and the two ctdb stubs are the *)
(* stubs there.                                                            *)
LEMMA WritesAgree ==
    ASSUME NEW c, NEW fs, NEW n, DOMAIN fs \subseteq UserFilePaths
    PROVE  /\ \A p \in ConfigDirs(c) : MkDir(p) \in GoodWrites(c, fs, n)
           /\ fs \in GoodWrites(c, fs, n)
           /\ c.clustered => /\ Entry(CtdbJsonPath, CtdbStub(c, n)) \in GoodWrites(c, fs, n)
                             /\ Entry(CtdbSmbConf, SmbConfStub) \in GoodWrites(c, fs, n)
<1> DEFINE T == DataDirTarget(c, fs, n)
<1>1. DOMAIN T = ConfigDirs(c) \cup DOMAIN fs \cup ConfigFiles(c)
    BY DEF DataDirTarget
<1>2. ConfigDirs(c) \subseteq GeneratedPaths /\ ConfigFiles(c) \subseteq GeneratedPaths
    BY DEF ConfigDirs, ConfigFiles, GeneratedPaths
<1>3. \A p \in ConfigDirs(c) : T[p] = Dir
    BY DEF DataDirTarget
<1>4. ASSUME NEW p \in ConfigDirs(c) PROVE MkDir(p) \in GoodWrites(c, fs, n)
    BY <1>1, <1>2, <1>3 DEF GoodWrites, Writes, Agrees, MkDir, Entry
<1>5. \A p \in DOMAIN fs : p \notin ConfigDirs(c) /\ p \notin ConfigFiles(c)
    BY <1>2, DataDirAssumption
<1>6. \A p \in DOMAIN fs : T[p] = fs[p]
    BY <1>5 DEF DataDirTarget
<1>7. fs \in GoodWrites(c, fs, n)
    BY <1>1, <1>6 DEF GoodWrites, Writes, Agrees
<1>8. ASSUME c.clustered
      PROVE  /\ Entry(CtdbJsonPath, CtdbStub(c, n)) \in GoodWrites(c, fs, n)
             /\ Entry(CtdbSmbConf, SmbConfStub) \in GoodWrites(c, fs, n)
    <2>1. CtdbJsonPath \in ConfigFiles(c) /\ CtdbSmbConf \in ConfigFiles(c)
        BY <1>8 DEF ConfigFiles
    <2>2. CtdbJsonPath \notin ConfigDirs(c) /\ CtdbSmbConf \notin ConfigDirs(c)
        BY PathsDistinct DEF ConfigDirs
    <2>3. T[CtdbJsonPath] = CtdbStub(c, n) /\ T[CtdbSmbConf] = SmbConfStub
        BY <2>1, <2>2, PathsDistinct DEF DataDirTarget
    <2> QED
        BY <1>1, <2>1, <2>3 DEF GoodWrites, Writes, Agrees, Entry
<1> QED
    BY <1>4, <1>7, <1>8

(* The three parts of prepare_data_dir's writes.                           *)
BaseSteps == <<MkDir(EtcSambaContainer), MkDir(LibSamba), MkDir(RunDir)>>
FileSteps(fs) == IF DOMAIN fs # {} THEN <<fs>> ELSE <<>>
CtdbSteps(c, n) ==
    IF c.clustered
    THEN <<MkDir(CtdbPersistent), MkDir(CtdbRun), MkDir(CtdbVolatile),
           MkDir(CtdbEtc), Entry(CtdbJsonPath, CtdbStub(c, n)),
           Entry(CtdbSmbConf, SmbConfStub)>>
    ELSE <<>>

LEMMA PrepStepsParts ==
    ASSUME NEW c, NEW fs, NEW n
    PROVE  PrepSteps(c, fs, n) = (BaseSteps \o FileSteps(fs)) \o CtdbSteps(c, n)
BY DEF PrepSteps, BaseSteps, FileSteps, CtdbSteps

(* Each part of prepare_data_dir's writes agrees with its target.          *)
LEMMA PartsGood ==
    ASSUME NEW c, NEW fs, NEW n, DOMAIN fs \subseteq UserFilePaths
    PROVE  /\ BaseSteps \in Seq(GoodWrites(c, fs, n))
           /\ FileSteps(fs) \in Seq(GoodWrites(c, fs, n))
           /\ CtdbSteps(c, n) \in Seq(GoodWrites(c, fs, n))
<1> DEFINE G == GoodWrites(c, fs, n)
<1>1. BaseSteps \in Seq(G)
    <2>1. {EtcSambaContainer, LibSamba, RunDir} \subseteq ConfigDirs(c)
        BY DEF ConfigDirs
    <2> QED
        BY <2>1, WritesAgree DEF BaseSteps
<1>2. FileSteps(fs) \in Seq(G)
    BY WritesAgree DEF FileSteps
<1>3. CtdbSteps(c, n) \in Seq(G)
    <2>1. CASE c.clustered
        <3>1. {CtdbPersistent, CtdbRun, CtdbVolatile, CtdbEtc} \subseteq ConfigDirs(c)
            BY <2>1 DEF ConfigDirs
        <3>2. /\ MkDir(CtdbPersistent) \in G /\ MkDir(CtdbRun) \in G
              /\ MkDir(CtdbVolatile) \in G /\ MkDir(CtdbEtc) \in G
              /\ Entry(CtdbJsonPath, CtdbStub(c, n)) \in G
              /\ Entry(CtdbSmbConf, SmbConfStub) \in G
            BY <2>1, <3>1, WritesAgree
        <3> QED
            BY <2>1, <3>2 DEF CtdbSteps
    <2>2. CASE ~c.clustered
        BY <2>2 DEF CtdbSteps
    <2> QED
        BY <2>1, <2>2
<1> QED
    BY <1>1, <1>2, <1>3

(* prepare_data_dir makes only writes that agree with its target.          *)
LEMMA PrepStepsGood ==
    ASSUME NEW c, NEW fs, NEW n, DOMAIN fs \subseteq UserFilePaths
    PROVE  PrepSteps(c, fs, n) \in Seq(GoodWrites(c, fs, n))
<1>1. BaseSteps \o FileSteps(fs) \in Seq(GoodWrites(c, fs, n))
    BY PartsGood, ConcatIndex
<1> QED
    BY <1>1, PartsGood, PrepStepsParts, ConcatIndex

(* Every path of the target is written by some step of prepare_data_dir.   *)
LEMMA PrepStepsCover ==
    ASSUME NEW c, NEW fs, NEW n, DOMAIN fs \subseteq UserFilePaths
    PROVE  \A p \in DOMAIN DataDirTarget(c, fs, n) : Occurs(PrepSteps(c, fs, n), p)
<1> DEFINE G == GoodWrites(c, fs, n)
<1> TAKE p \in DOMAIN DataDirTarget(c, fs, n)
<1>1. BaseSteps \in Seq(G) /\ FileSteps(fs) \in Seq(G) /\ CtdbSteps(c, n) \in Seq(G)
    BY PartsGood
<1>2. BaseSteps \o FileSteps(fs) \in Seq(G)
    BY <1>1, ConcatIndex
<1>3. CASE p \in {EtcSambaContainer, LibSamba, RunDir}
    <2>1. Occurs(BaseSteps, p)
        BY <1>3 DEF Occurs, BaseSteps, MkDir, Entry
    <2> QED
        BY <1>1, <1>2, <2>1, OccursConcat, PrepStepsParts
<1>4. CASE p \in DOMAIN fs
    <2>1. Occurs(FileSteps(fs), p)
        BY <1>4 DEF Occurs, FileSteps
    <2> QED
        BY <1>1, <1>2, <2>1, OccursConcat, PrepStepsParts
<1>5. CASE c.clustered /\ p \in {CtdbPersistent, CtdbRun, CtdbVolatile, CtdbEtc,
                                  CtdbJsonPath, CtdbSmbConf}
    <2>1. Occurs(CtdbSteps(c, n), p)
        <3>1. CtdbSteps(c, n) = <<MkDir(CtdbPersistent), MkDir(CtdbRun), MkDir(CtdbVolatile),
                                  MkDir(CtdbEtc), Entry(CtdbJsonPath, CtdbStub(c, n)),
                                  Entry(CtdbSmbConf, SmbConfStub)>>
            BY <1>5 DEF CtdbSteps
        <3> QED
            BY <1>5, <3>1 DEF Occurs, MkDir, Entry
    <2> QED
        BY <1>1, <1>2, <2>1, OccursConcat, PrepStepsParts
<1> QED
    BY <1>3, <1>4, <1>5 DEF DataDirTarget, ConfigDirs, ConfigFiles

(* Applying a prefix of writes that all agree with T moves each path of   *)
(* the data directory either nowhere or to what T wants there; applying   *)
(* all of them leaves every written path as T wants it.                    *)
LEMMA ApplyStepsMoves ==
    ASSUME NEW d, NEW T, NEW S, NEW steps \in Seq(S),
           \A f \in S : Agrees(f, T), NEW k \in 0..Len(steps)
    PROVE  /\ \A p \in DOMAIN d :
                 \/ ApplySteps(d, steps, k)[p] = d[p]
                 \/ p \in DOMAIN T /\ ApplySteps(d, steps, k)[p] = T[p]
           /\ k = Len(steps) =>
                 \A p \in DOMAIN d : Occurs(steps, p) => ApplySteps(d, steps, k)[p] = T[p]
<1>1. ASSUME NEW p \in DOMAIN d, \E i \in 1..k : p \in DOMAIN steps[i]
      PROVE  p \in DOMAIN T /\ ApplySteps(d, steps, k)[p] = T[p]
    <2> DEFINE j == CHOOSE i \in 1..k : p \in DOMAIN steps[i]
    <2>1. j \in 1..k /\ p \in DOMAIN steps[j]
        BY <1>1
    <2>2. steps[j] \in S
        BY <2>1
    <2>3. Agrees(steps[j], T)
        BY <2>2
    <2>4. ApplySteps(d, steps, k)[p] = steps[j][p]
        BY <1>1 DEF ApplySteps
    <2> QED
        BY <2>1, <2>3, <2>4 DEF Agrees
<1>2. ASSUME NEW p \in DOMAIN d, ~\E i \in 1..k : p \in DOMAIN steps[i]
      PROVE  ApplySteps(d, steps, k)[p] = d[p]
    BY <1>2 DEF ApplySteps
<1> QED
    BY <1>1, <1>2 DEF Occurs

(* Without public addresses the ctdb stub does not read the inventory.     *)
LEMMA StubIgnoresNetworks ==
    ASSUME NEW c, c.cluster_public_addrs = <<>>, NEW fs, NEW n1, NEW n2
    PROVE  DataDirTarget(c, fs, n1) = DataDirTarget(c, fs, n2)
<1>1. CtdbSection(c, n1) = CtdbSection(c, n2)
    BY DEF CtdbSection, ForSambacc
<1>2. CtdbStub(c, n1) = CtdbStub(c, n2)
    BY <1>1 DEF CtdbStub
<1> QED
    BY <1>2 DEF DataDirTarget

(***************************************************************************)
(* The invariant the refinement rests on.  Besides MemoInv, it says that   *)
(* the object's files and network mapper are those of this process once a *)
(* Config is memoized: validate() stores self._files from the raw config  *)
(* (line 450) and loads the inventory when there are public addresses     *)
(* (lines 451-453), and neither changes again in this process.  Without   *)
(* it, prepare_data_dir could write ctdb.json from another process's       *)
(* inventory and the abstract Prepare step would not match.               *)
(***************************************************************************)
RefInv ==
    /\ MemoInv
    /\ instCfg # None => files = raw.files
    /\ instCfg # None /\ instCfg.cluster_public_addrs # <<>> => networks = hostNets

(* validate() returning normally keeps the object's files and mapper those *)
(* of this process.                                                        *)
LEMMA ValidateOkRef ==
    ASSUME RefInv, ValidateOk, UNCHANGED <<raw, rankInfo, hostNets>>
    PROVE  /\ instCfg' # None => files' = raw'.files
           /\ instCfg' # None /\ instCfg'.cluster_public_addrs # <<>> => networks' = hostNets'
<1>1. CASE instCfg # None
    BY <1>1 DEF ValidateOk, RefInv
<1>2. CASE instCfg = None
    <2>1. instCfg' = Parsed.cfg
        BY <1>2 DEF ValidateOk
    <2> QED
        BY <1>2, <2>1 DEF ValidateOk
<1> QED
    BY <1>1, <1>2

LEMMA RefInit ==
    Init => RefInv
BY MemoInit DEF Init, RefInv

LEMMA RefStep ==
    RefInv /\ [Next]_vars => RefInv'
<1> SUFFICES ASSUME RefInv, [Next]_vars PROVE RefInv'
    OBVIOUS
<1>0. MemoInv'
    BY MemoStep DEF RefInv
<1>1. ASSUME NEW m \in ValidateMethods, ValidateCall(m) PROVE RefInv'
    <2>1. CASE ValidateOk /\ UNCHANGED <<raw, rankInfo, hostNets>>
        BY <2>1, <1>0, ValidateOkRef DEF RefInv
    <2>2. CASE ValidateRaises
        BY <2>2, <1>0 DEF ValidateRaises, RefInv, objVars
    <2> QED
        BY <1>1, <2>1, <2>2 DEF ValidateCall
<1>2. ASSUME NEW m \in LayoutMethods, LayoutCall(m) PROVE RefInv'
    <2>1. CASE LayoutOk /\ cachedLayout # None /\ UNCHANGED <<raw, rankInfo, hostNets>>
        BY <2>1, <1>0 DEF LayoutOk, RefInv
    <2>2. CASE LayoutOk /\ cachedLayout = None /\ UNCHANGED <<raw, rankInfo, hostNets>>
        BY <2>2, <1>0, ValidateOkRef DEF LayoutOk, RefInv
    <2>3. CASE ValidateRaises
        BY <2>3, <1>0 DEF ValidateRaises, RefInv, objVars
    <2> QED
        BY <1>2, <2>1, <2>2, <2>3 DEF LayoutCall
<1>3. CASE CustomizeEndpoints
    BY <1>3, <1>0 DEF CustomizeEndpoints, RefInv, objVars
<1>4. CASE PrepareDataDir
    <2>1. CASE ValidateOk /\ UNCHANGED <<raw, rankInfo, hostNets>>
        BY <2>1, <1>0, ValidateOkRef DEF RefInv
    <2>2. CASE ValidateRaises
        BY <2>2, <1>0 DEF ValidateRaises, RefInv, objVars
    <2> QED
        BY <1>4, <2>1, <2>2 DEF PrepareDataDir
<1>5. CASE NewProcess
    BY <1>5, <1>0 DEF NewProcess, RefInv
<1>6. CASE UNCHANGED vars
    BY <1>6, <1>0 DEF vars, RefInv
<1> QED
    BY <1>1, <1>2, <1>3, <1>4, <1>5, <1>6 DEF Next

(* validate() returning normally is the abstract Settle: the memoized      *)
(* Config is kept, or the one derived from this process's inputs is taken. *)
LEMMA SettleOk ==
    ASSUME MemoInv, ValidateOk
    PROVE  Abs!Settle
<1>1. CASE instCfg # None
    BY <1>1, ValidateOkMemo DEF Abs!Settle
<1>2. CASE instCfg = None
    <2>1. Parsed.ok /\ instCfg' = Parsed.cfg
        BY <1>2 DEF ValidateOk, CfgAvailable
    <2>2. Abs!Parsed = Parsed
        BY DEF Abs!Parsed, Parsed
    <2> QED
        BY <1>2, <2>1, <2>2 DEF Abs!Settle
<1> QED
    BY <1>1, <1>2

(* What prepare_data_dir targets is what the abstract Target says: the      *)
(* object's files are the raw config's and the ctdb stub reads the         *)
(* inventory of this host (or none at all).                                *)
LEMMA TargetMaps ==
    ASSUME RefInv', instCfg' # None, UNCHANGED <<raw, hostNets>>
    PROVE  DataDirTarget(instCfg', files', networks') = Abs!Target(instCfg')
<1>0. Abs!Target(instCfg') = DataDirTarget(instCfg', raw.files, hostNets)
    BY DEF Abs!Target
<1>1. files' = raw.files
    BY DEF RefInv
<1>2. CASE instCfg'.cluster_public_addrs # <<>>
    <2>1. networks' = hostNets
        BY <1>2 DEF RefInv
    <2> QED
        BY <1>0, <1>1, <2>1
<1>3. CASE instCfg'.cluster_public_addrs = <<>>
    <2>1. DataDirTarget(instCfg', raw.files, networks')
            = DataDirTarget(instCfg', raw.files, hostNets)
        BY <1>3, StubIgnoresNetworks
    <2> QED
        BY <1>0, <1>1, <2>1
<1> QED
    BY <1>2, <1>3

(* Every path prepare_data_dir writes is a path of the data directory.     *)
LEMMA TargetInDir ==
    ASSUME NEW c, NEW fs, NEW n, DOMAIN fs \subseteq UserFilePaths
    PROVE  DOMAIN DataDirTarget(c, fs, n) \subseteq DataPaths
BY DEF DataDirTarget, ConfigDirs, ConfigFiles, GeneratedPaths, DataPaths

(* prepare_data_dir returning or failing after its validate() is the        *)
(* abstract Prepare: each path it touches gets what the Config wants, and  *)
(* if it returns, every path it writes holds that.                         *)
LEMMA PrepareMaps ==
    ASSUME RefInv, RefInv', ValidateOk,
           UNCHANGED <<raw, rankInfo, hostNets, cachedLayout>>,
           NEW k \in 0..Len(PrepSteps(instCfg', files', networks')),
           disk' = ApplySteps(disk, PrepSteps(instCfg', files', networks'), k),
           prepDone' = (k = Len(PrepSteps(instCfg', files', networks')))
    PROVE  Abs!Prepare
<1> DEFINE steps == PrepSteps(instCfg', files', networks')
           T == DataDirTarget(instCfg', files', networks')
           G == GoodWrites(instCfg', files', networks')
<1>1. instCfg' # None
    BY ValidateOkMemo DEF RefInv
<1>2. DOMAIN files' \subseteq UserFilePaths
    <2>1. files' = raw.files /\ raw \in RawConfigs
        BY <1>1 DEF RefInv, MemoInv, TypeOK
    <2> QED
        BY <2>1, DaemonAssumption
<1>3. T = Abs!Target(instCfg')
    BY <1>1, TargetMaps
<1>4. steps \in Seq(G) /\ \A f \in G : Agrees(f, T)
    BY <1>2, PrepStepsGood DEF GoodWrites
<1>5. DOMAIN disk' = DOMAIN disk
    BY ApplyStepsDomain
<1>6. \A p \in DOMAIN disk : disk'[p] = disk[p] \/ (p \in DOMAIN T /\ disk'[p] = T[p])
    BY <1>4, ApplyStepsMoves
<1>7. ASSUME prepDone' PROVE Abs!Prepared(instCfg', disk')
    <2>1. k = Len(steps)
        BY <1>7
    <2>2. DOMAIN T \subseteq DOMAIN disk
        BY <1>2, TargetInDir DEF RefInv, MemoInv, TypeOK
    <2>3. \A p \in DOMAIN T : Occurs(steps, p)
        BY <1>2, PrepStepsCover
    <2>4. \A p \in DOMAIN disk : Occurs(steps, p) => disk'[p] = T[p]
        BY <1>4, <2>1, ApplyStepsMoves
    <2> QED
        BY <1>3, <1>5, <2>2, <2>3, <2>4 DEF Abs!Prepared
<1>8. Abs!Settle
    BY SettleOk DEF RefInv
<1> QED
    BY <1>1, <1>3, <1>5, <1>6, <1>7, <1>8 DEF Abs!Prepare, Abs!inputs

(* Every step of the SMB object is a step of SmbInstance or leaves its      *)
(* state alone.                                                            *)
LEMMA RefinementStep ==
    RefInv /\ RefInv' /\ [Next]_vars => [Abs!Next]_Abs!avars
<1> SUFFICES ASSUME RefInv, RefInv', [Next]_vars PROVE [Abs!Next]_Abs!avars
    OBVIOUS
<1>1. ASSUME NEW m \in ValidateMethods, ValidateCall(m) PROVE [Abs!Next]_Abs!avars
    <2>1. CASE ValidateOk /\ UNCHANGED <<raw, rankInfo, hostNets, cachedLayout, prepDone, disk>>
        <3>1. Abs!Settle
            BY <2>1, SettleOk DEF RefInv
        <3> QED
            BY <2>1, <3>1 DEF Abs!Next, Abs!Validate, Abs!inputs
    <2>3. CASE ValidateRaises
        BY <2>3 DEF ValidateRaises, objVars, Abs!avars
    <2> QED
        BY <1>1, <2>1, <2>3 DEF ValidateCall
<1>2. ASSUME NEW m \in LayoutMethods, LayoutCall(m) PROVE [Abs!Next]_Abs!avars
    <2>1. CASE LayoutOk /\ cachedLayout # None
               /\ UNCHANGED <<raw, rankInfo, hostNets, disk, prepDone>>
        BY <2>1 DEF LayoutOk, Abs!avars
    <2>2. CASE LayoutOk /\ cachedLayout = None
               /\ UNCHANGED <<raw, rankInfo, hostNets, disk, prepDone>>
        <3>1. ValidateOk /\ cachedLayout' = BuildLayout(Cfg)
            BY <2>2 DEF LayoutOk
        <3>2. Abs!Settle /\ instCfg' = Cfg
            BY <3>1, SettleOk, ValidateOkMemo DEF RefInv
        <3> QED
            BY <2>2, <3>1, <3>2 DEF Abs!Next, Abs!Plan, Abs!inputs
    <2>3. CASE ValidateRaises
        BY <2>3 DEF ValidateRaises, objVars, Abs!avars
    <2> QED
        BY <1>2, <2>1, <2>2, <2>3 DEF LayoutCall
<1>3. CASE CustomizeEndpoints
    BY <1>3 DEF CustomizeEndpoints, objVars, Abs!avars
<1>4. CASE PrepareDataDir
    <2>1. CASE /\ ValidateOk
               /\ UNCHANGED <<raw, rankInfo, hostNets, cachedLayout>>
               /\ \E k \in 0..Len(PrepSteps(instCfg', files', networks')) :
                     /\ disk' = ApplySteps(disk, PrepSteps(instCfg', files', networks'), k)
                     /\ prepDone' = (k = Len(PrepSteps(instCfg', files', networks')))
        BY <2>1, PrepareMaps DEF Abs!Next
    <2>2. CASE ValidateRaises
        BY <2>2 DEF ValidateRaises, objVars, Abs!avars
    <2> QED
        BY <1>4, <2>1, <2>2 DEF PrepareDataDir
<1>5. CASE NewProcess
    BY <1>5 DEF NewProcess, Abs!Next, Abs!Redeploy
<1>6. CASE UNCHANGED vars
    BY <1>6 DEF vars, Abs!avars
<1> QED
    BY <1>1, <1>2, <1>3, <1>4, <1>5, <1>6 DEF Next

(* However the framework orders its calls, whichever writes fail and        *)
(* however often cephadm redeploys, the SMB object (validate, _layout,     *)
(* prepare_data_dir, lines 412-540 and 692-740) behaves as SmbInstance     *)
(* says: one Config per process, the layout of that Config, and a data     *)
(* directory only ever moved towards what that Config wants.               *)
THEOREM Refinement == Spec => AbstractSpec
<1>1. Spec => []RefInv
    BY RefInit, RefStep, PTL DEF Spec
<1>2. Init => Abs!Init
    BY DEF Init, Abs!Init
<1> QED
    BY <1>1, <1>2, RefinementStep, PTL DEF Spec, AbstractSpec, Abs!Spec

(* Once prepare_data_dir has returned in a process, every directory and    *)
(* file it generates (lines 692-740) and every configured file holds what  *)
(* this process's Config wants, whatever an earlier deployment or a       *)
(* failed write left there.  By Refinement every behaviour is one of      *)
(* SmbInstance, and every step of SmbInstance preserves it.                *)
THEOREM DataDirCurrentHolds == Spec => []DataDirCurrent
<1>1. Abs!Init => DataDirCurrent
    BY DEF Abs!Init, DataDirCurrent, Abs!ReadyMeansPrepared
<1>2. DataDirCurrent /\ [Abs!Next]_Abs!avars => DataDirCurrent'
    <2> SUFFICES ASSUME DataDirCurrent, [Abs!Next]_Abs!avars
                 PROVE  DataDirCurrent'
        OBVIOUS
    <2> USE DEF DataDirCurrent, Abs!ReadyMeansPrepared, Abs!Prepared, Abs!Target
    <2>1. CASE Abs!Validate
        BY <2>1 DEF Abs!Validate, Abs!Settle, Abs!inputs
    <2>2. CASE Abs!Plan
        BY <2>2 DEF Abs!Plan, Abs!Settle, Abs!inputs
    <2>3. CASE Abs!Prepare
        BY <2>3 DEF Abs!Prepare, Abs!inputs
    <2>4. CASE Abs!Redeploy
        BY <2>4 DEF Abs!Redeploy
    <2>5. CASE UNCHANGED Abs!avars
        BY <2>5 DEF Abs!avars
    <2> QED
        BY <2>1, <2>2, <2>3, <2>4, <2>5 DEF Abs!Next
<1> QED
    BY <1>1, <1>2, Refinement, PTL DEF AbstractSpec, Abs!Spec

=============================================================================
